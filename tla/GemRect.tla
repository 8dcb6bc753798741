------------------------------- MODULE GemRect -------------------------------
(***************************************************************************)
(* Rectangles as the window manager computes with them, and what the       *)
(* borders of a window leave of it (gem_window_resident.c).                *)
(***************************************************************************)
EXTENDS Integers

CONSTANTS BoxW, BoxH   \* the character box, in pixels

Rect(x, y, w, h) == [x |-> x, y |-> y, w |-> w, h |-> h]
Zero == Rect(0, 0, 0, 0)

Right(r) == r.x + r.w
Bottom(r) == r.y + r.h
Empty(r) == r.w <= 0 \/ r.h <= 0
Lesser(a, b) == IF a < b THEN a ELSE b
Greater(a, b) == IF a > b THEN a ELSE b
Between(v, low, high) == IF v < low THEN low ELSE IF v > high THEN high ELSE v

\* gem_window_rect_contains
Inside(r, p) ==
    /\ ~Empty(r)
    /\ r.x <= p[1] /\ p[1] < Right(r)
    /\ r.y <= p[2] /\ p[2] < Bottom(r)

\* From two opposite corners; Zero if there is nothing between them.
Corners(left, top, right, bottom) ==
    IF right <= left \/ bottom <= top THEN Zero
    ELSE Rect(left, top, right - left, bottom - top)

\* gem_window_rect_intersect
Meet(a, b) ==
    IF Empty(a) \/ Empty(b) THEN Zero
    ELSE Corners(Greater(a.x, b.x), Greater(a.y, b.y),
                 Lesser(Right(a), Right(b)), Lesser(Bottom(a), Bottom(b)))

\* gem_window_rect_union: the hull of both.
Hull(a, b) ==
    IF Empty(a) THEN b
    ELSE IF Empty(b) THEN a
    ELSE Corners(Lesser(a.x, b.x), Lesser(a.y, b.y),
                 Greater(Right(a), Right(b)), Greater(Bottom(a), Bottom(b)))

Vertical(kind) == kind \cap {"UPARROW", "DNARROW", "VSLIDE", "SIZER"} # {}
Horizontal(kind) == kind \cap {"LFARROW", "RTARROW", "HSLIDE", "SIZER"} # {}
Titled(kind) == kind \cap {"NAME", "CLOSER", "FULLER"} # {}

\* gem_window_work_rect: what the borders leave; Zero if that is nothing.
WorkRect(kind, r) ==
    LET bar(has, size) == IF has THEN size - 1 ELSE 0
    IN  Corners(r.x + 1,
                r.y + 1 + bar(Titled(kind), BoxH) + bar("INFO" \in kind, BoxH),
                Right(r) - 1 - bar(Vertical(kind), BoxW),
                Bottom(r) - 1 - bar(Horizontal(kind), BoxH))
=============================================================================
