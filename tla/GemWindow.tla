------------------------------ MODULE GemWindow ------------------------------
(***************************************************************************)
(* The window manager of the resident AES (gem_window_resident.c).         *)
(*                                                                         *)
(* Open windows lie on each other in one order.  For the root and for each *)
(* open window the manager keeps the list of its visible pieces, cut from  *)
(* one pool of rectangles and rebuilt whenever the arrangement changes.    *)
(* Each call leaves effects: the area to repaint and the messages for the  *)
(* owners of the windows.  Gestures on window frames are followed from     *)
(* sample to sample while the button is held.                              *)
(*                                                                         *)
(* Left out: full and previous rectangles, slider values, titles and what  *)
(* else clients only read back; where in the frame of a window a gadget    *)
(* sits, so a sample in a frame may hit any gadget that the window has.    *)
(* Calls refused for their shape, owner or handle change nothing and are   *)
(* no actions.                                                             *)
(***************************************************************************)
EXTENDS GemRect, GemFifo, FiniteSets, SequencesExt

CONSTANTS
    LastHandle,     \* GEM_WINDOW_OPEN_LIMIT - 1, 11 in the code
    Clients,        \* channels with a generation
    NONE,           \* GEM_WINDOW_NIL, and the system owner
    Width, Height,  \* the screen; the menu bar on it is BoxH high
    MinBoxes,       \* the least size a window is dragged to, 7 in the code;
                    \* borders, title and information line take less than 3
    RectCount,      \* GEM_WINDOW_RECT_COUNT, 120 in the code
    Rects,          \* the rectangles clients ask for, by handle
    Walked,         \* the windows whose pieces they ask for
    Kinds,          \* the kinds of window they create
    Points          \* where the mouse goes

ASSUME ScreenAssumption ==
    /\ LastHandle \in Nat /\ RectCount \in Nat \ {0} /\ MinBoxes \in Nat \ 0 .. 2
    /\ DOMAIN Rects = 1 .. LastHandle /\ Walked \subseteq 0 .. LastHandle
    /\ \A h \in 1 .. LastHandle : Rects[h] \subseteq [x : Int, y : Int, w : Int, h : Int]
    /\ Points \subseteq Int \X Int
    /\ Width \in Nat /\ BoxW \in 1 .. Width - 1
    /\ Height \in Nat /\ BoxH \in 1 .. Height - 1
    /\ NONE \notin Clients /\ NONE \notin 0 .. LastHandle

VARIABLES
    wm,       \* the manager, the record below
    effects   \* GEM_WINDOW_EFFECTS of the last call, and its result

vars == <<wm, effects>>

Root == 0
Handles == 1 .. LastHandle
AllRects == UNION {Rects[h] : h \in Handles}

ScreenRect == Rect(0, 0, Width, Height)
RootWork == Rect(0, BoxH, Width, Height - BoxH)

\* gem_window_public_rect: a rectangle a window may have.
PublicRect(kind, r) ==
    /\ r.x >= -1 /\ r.y >= 0
    /\ Right(r) \in 1 .. Width
    /\ Bottom(r) \in BoxH + 1 .. Height
    /\ WorkRect(kind, r) # Zero

----------------------------------------------------------------------------
(* The manager *)

NoWindow == [owner |-> NONE, kind |-> {}, open |-> FALSE, broken |-> FALSE,
             outer |-> Zero, work |-> Zero]

Idle == [state |-> "IDLE", handle |-> NONE, gadget |-> "none",
         x |-> 0, y |-> 0, start |-> Zero]

NoEffects == [result |-> TRUE, op |-> "none", background |-> FALSE,
              dirty |-> Zero, messages |-> <<>>]

\* gem_window_resident_configure
Init ==
    /\ wm = [win     |-> [h \in Handles |-> NoWindow],
             desk    |-> NONE,             \* owner of the Desktop's tree
             order   |-> <<>>,             \* bottom to top
             top     |-> Root,
             pieces  |-> [h \in {Root} \cup Handles |->
                             IF h = Root THEN <<RootWork>> ELSE <<>>],
             next    |-> [h \in {Root} \cup Handles |-> 0], \* next_rect
             free    |-> RectCount - 1,    \* length of the free list
             short   |-> FALSE,            \* rect_overflow
             control |-> Idle]
    /\ effects = NoEffects

\* A loop over a list, from its first member to its last.
Along(list, Body(_, _), s) ==
    LET after[n \in 0 .. Len(list)] ==
            IF n = 0 THEN s ELSE Body(after[n - 1], list[n])
    IN  after[Len(list)]

\* gem_window_tree_add
TreeAdd(m, h) == [m EXCEPT !.order = Append(@, h), !.top = h]

\* gem_window_tree_delete
TreeDelete(m, h) ==
    LET rest == Without(m.order, h)
    IN  [m EXCEPT !.order = rest,
                  !.top = IF rest = <<>> THEN Root ELSE rest[Len(rest)]]

\* gem_window_tree_top
TreeTop(m, h) == IF m.top = h THEN m ELSE TreeAdd(TreeDelete(m, h), h)

----------------------------------------------------------------------------
(* Visible pieces *)

\* A piece, if there is anything of it.
Piece(r) == IF Empty(r) THEN <<>> ELSE <<r>>

\* Mutant: the pieces beside the occluder reach down to the bottom.
CutTooLow(old, occluder) ==
    LET upper == Greater(old.y, occluder.y)
    IN  IF Meet(old, occluder) = Zero THEN <<old>>
        ELSE Piece(Corners(old.x, old.y, Right(old), occluder.y))
             \o Piece(Corners(old.x, upper, occluder.x, Bottom(old)))
             \o Piece(Corners(Right(occluder), upper, Right(old), Bottom(old)))
             \o Piece(Corners(old.x, Bottom(occluder), Right(old), Bottom(old)))

\* gem_window_break_one: what an occluder leaves of a piece, in this order
\* above, left, right and below it.
Cut(old, occluder) ==
    LET upper == Greater(old.y, occluder.y)
        lower == Lesser(Bottom(old), Bottom(occluder))
    IN  IF Meet(old, occluder) = Zero THEN <<old>>
        ELSE Piece(Corners(old.x, old.y, Right(old), occluder.y))
             \o Piece(Corners(old.x, upper, occluder.x, lower))
             \o Piece(Corners(Right(occluder), upper, Right(old), lower))
             \o Piece(Corners(old.x, Bottom(occluder), Right(old), Bottom(old)))

\* A list being cut: its pieces, the pool, and whether the pool sufficed.
Cutting(list, free, ok) == [list |-> list, free |-> free, ok |-> ok]

\* The new pieces are taken before the old one is given back; if they
\* cannot all be had, the old one stays and so does the rest of the list.
BreakOne(a, old, occluder) ==
    LET new == Cut(old, occluder)
    IN  IF ~a.ok \/ new = <<old>> THEN [a EXCEPT !.list = Append(@, old)]
        ELSE IF Len(new) > a.free THEN Cutting(Append(a.list, old), a.free, FALSE)
        ELSE Cutting(a.list \o new, a.free - Len(new) + 1, TRUE)

\* gem_window_break_list
BreakList(a, occluder) ==
    IF ~a.ok THEN a
    ELSE Along(a.list, LAMBDA b, old : BreakOne(b, old, occluder),
               [a EXCEPT !.list = <<>>])

Base(m, h) == IF h = Root THEN RootWork ELSE m.win[h].outer

\* The windows above a window, bottom to top; above the root are all.
Above(m, h) ==
    IF h = Root THEN m.order
    ELSE LET at == CHOOSE i \in DOMAIN m.order : m.order[i] = h
         IN  SubSeq(m.order, at + 1, Len(m.order))

Covers(m, h) == [i \in DOMAIN Above(m, h) |-> m.win[Above(m, h)[i]].outer]

\* gem_window_build_one_list.  A window that is covered altogether keeps
\* the BROKEN flag it had.
BuildList(m, h) ==
    LET cut == Along(Covers(m, h), BreakList, Cutting(<<Base(m, h)>>, m.free - 1, TRUE))
        built == [m EXCEPT !.pieces[h] = cut.list, !.free = cut.free,
                           !.short = ~cut.ok]
    IN  IF m.free = 0 THEN [m EXCEPT !.short = TRUE]
        ELSE IF cut.ok /\ cut.list # <<>> /\ h # Root
        THEN [built EXCEPT !.win[h].broken = Len(cut.list) > 1]
        ELSE built

\* Mutant: a walk over the old list goes on in the new one.
ReleaseKeepsWalk(m, h) ==
    [m EXCEPT !.free = @ + Len(m.pieces[h]), !.pieces[h] = <<>>]

\* gem_window_release_list
Release(m, h) ==
    [m EXCEPT !.free = @ + Len(m.pieces[h]), !.pieces[h] = <<>>, !.next[h] = 0]

\* gem_window_rebuild_rectangles: all lists are released, then the root's is
\* built and those of the windows bottom to top, until the pool runs out.
Rebuild(m) ==
    LET released == Along([i \in 1 .. LastHandle + 1 |-> i - 1], Release, m)
    IN  Along(<<Root>> \o m.order, LAMBDA n, h : IF n.short THEN n ELSE BuildList(n, h),
              [released EXCEPT !.short = FALSE])

----------------------------------------------------------------------------
(* Effects *)

\* gem_window_frame_dirty: a frame with its shadow.
Shadowed(r) ==
    IF Empty(r) THEN Zero
    ELSE [r EXCEPT !.w = Lesser(@ + 2, Width - r.x),
                   !.h = Lesser(@ + 2, Height - r.y)]

Message(m, type, h, r) ==
    [owner |-> m.win[h].owner, type |-> type, handle |-> h, rect |-> r]

\* Mutant: only the first visible piece of a window is looked at.
VisibleFirst(m, h) ==
    IF m.pieces[h] = <<>> THEN Zero ELSE m.pieces[h][1]

\* gem_window_visible_union
VisibleHull(m, h) == Along(m.pieces[h], Hull, Zero)

\* gem_window_redraw: a WM_REDRAW for each window that shows work area in
\* the hull of what is dirty.
Redraws(m, dirty) ==
    LET clip(h) == Meet(VisibleHull(m, h), Meet(m.win[h].work, dirty))
    IN  Along(m.order,
              LAMBDA sent, h : IF clip(h) = Zero THEN sent
                               ELSE Append(sent, Message(m, "REDRAW", h, clip(h))),
              <<>>)

Done(op, m, dirty, messages) ==
    /\ wm' = m
    /\ effects' = [result |-> TRUE, op |-> op, background |-> TRUE,
                   dirty |-> dirty, messages |-> messages]

\* A call without anything to repaint.
Quiet(op, m) == wm' = m /\ effects' = [NoEffects EXCEPT !.op = op]

\* A call that could not be carried out: the old state, its lists rebuilt.
Undone(op, m) ==
    /\ wm' = Rebuild(m)
    /\ effects' = [NoEffects EXCEPT !.op = op, !.result = FALSE]

----------------------------------------------------------------------------
(* Calls *)

Owns(c, h) == wm.win[h].owner = c

\* WIND_CREATE: the first free handle; full may be zero.
WindCreate(c, kind, full) ==
    LET spare == {h \in Handles : wm.win[h].owner = NONE}
        h == CHOOSE g \in spare : \A i \in spare : g <= i
    IN  /\ full = Zero \/ PublicRect(kind, full)
        /\ spare # {}
        /\ Quiet("CREATE", [wm EXCEPT !.win[h] =
                               [NoWindow EXCEPT !.owner = c, !.kind = kind]])

\* WIND_OPEN, undone if the pool is too small for the new arrangement.
WindOpen(c, h, r) ==
    LET opened == [wm EXCEPT !.win[h].open = TRUE, !.win[h].outer = r,
                             !.win[h].work = WorkRect(wm.win[h].kind, r)]
        built == Rebuild(TreeAdd(opened, h))
    IN  /\ Owns(c, h) /\ ~wm.win[h].open
        /\ PublicRect(wm.win[h].kind, r)
        /\ IF built.short
           THEN Undone("OPEN", [built EXCEPT !.order = wm.order, !.top = wm.top,
                                             !.win[h] = wm.win[h]])
           ELSE Done("OPEN", built, Shadowed(r), Redraws(built, Shadowed(r)))

Closed(m, h) ==
    [TreeDelete(m, h) EXCEPT
        !.win[h].open = FALSE, !.win[h].broken = FALSE,
        !.win[h].outer = Zero, !.win[h].work = Zero,
        !.control = IF @.handle = h THEN Idle ELSE @]

\* WIND_CLOSE; a pool that is too small is not noticed.
WindClose(c, h) ==
    LET built == Rebuild(Closed(wm, h))
        dirty == Shadowed(wm.win[h].outer)
    IN  /\ Owns(c, h) /\ wm.win[h].open
        /\ Done("CLOSE", built, dirty, Redraws(built, dirty))

\* WIND_DELETE of a closed window.
WindDelete(c, h) ==
    /\ Owns(c, h) /\ ~wm.win[h].open
    /\ Quiet("DELETE", [Release(wm, h) EXCEPT !.win[h] = NoWindow])

\* WIND_GET(FIRSTXYWH) and WIND_GET(NEXTXYWH) on the own windows and the
\* root: the walk goes on behind the next piece that shows work area, or
\* to the end of the list (0).
WindWalk(c, h, first) ==
    LET list == wm.pieces[h]
        work == IF h = Root THEN RootWork ELSE wm.win[h].work
        from == IF first THEN 1 ELSE wm.next[h]
        shown == {i \in DOMAIN list : from > 0 /\ i >= from
                                      /\ Meet(work, list[i]) # Zero}
        at == CHOOSE i \in shown : \A j \in shown : i <= j
    IN  /\ h # Root => Owns(c, h)
        /\ Quiet("WALK", [wm EXCEPT !.next[h] =
                             IF shown = {} \/ at = Len(list) THEN 0 ELSE at + 1])

\* What a window leaves and what it takes.
CurrentDirty(old, new) == Hull(Shadowed(old), Shadowed(new))

\* WIND_SET(CXYWH), and WIND_SET(SIZTOP) which tops the window as well.
WindSetCurrent(c, h, r, top) ==
    LET old == wm.win[h].outer
        moved == [wm EXCEPT !.win[h].outer = r,
                            !.win[h].work = WorkRect(wm.win[h].kind, r)]
        built == Rebuild(IF top THEN TreeTop(moved, h) ELSE moved)
        dirty == CurrentDirty(old, r)
    IN  /\ Owns(c, h) /\ wm.win[h].open
        /\ PublicRect(wm.win[h].kind, r)
        /\ IF built.short
           THEN Undone("CURRENT", [built EXCEPT !.order = wm.order, !.top = wm.top,
                                       !.win[h].outer = old,
                                       !.win[h].work = wm.win[h].work])
           ELSE Done("CURRENT", built, dirty, Redraws(built, dirty))

\* Mutant: the old order is not put back.
TopKeptOrder(m) == m

TopRestored(m) == [m EXCEPT !.order = wm.order, !.top = wm.top]

\* WIND_SET(TOP): a window that was not broken is not sent a redraw.
WindSetTop(c, h) ==
    LET built == Rebuild(TreeTop(wm, h))
        dirty == Shadowed(wm.win[h].outer)
    IN  /\ Owns(c, h) /\ wm.win[h].open
        /\ IF built.short
           THEN Undone("TOP", TopRestored(built))
           ELSE Done("TOP", built, dirty,
                     IF wm.win[h].broken THEN Redraws(built, dirty) ELSE <<>>)

\* WIND_SET(NAME), INFO and the sliders: the frame only, no background.
WindSetFrame(c, h) ==
    /\ Owns(c, h)
    /\ wm' = wm
    /\ effects' = [NoEffects EXCEPT !.op = "FRAME", !.dirty = wm.win[h].outer]

\* WIND_SET(NEWDESK) by anybody.
WindSetDesk(c) ==
    /\ Done("DESK", [wm EXCEPT !.desk = c], RootWork, <<>>)

\* gem_window_resident_detach, one window of the dead client.
DetachWindow(m, h) ==
    [Release(IF m.win[h].open THEN TreeDelete(m, h) ELSE m, h) EXCEPT
        !.win[h] = NoWindow, !.control = IF @.handle = h THEN Idle ELSE @]

\* The windows and the Desktop tree of a client that is gone.
Detach(c) ==
    LET all == [h \in Handles |-> h]
        swept == Along(all, LAMBDA m, h : IF Owns(c, h) THEN DetachWindow(m, h) ELSE m, wm)
        built == Rebuild([swept EXCEPT !.desk = IF @ = c THEN NONE ELSE @])
        dirty == Along(all,
                       LAMBDA d, h : IF Owns(c, h) THEN Hull(d, Shadowed(wm.win[h].outer))
                                     ELSE d,
                       IF wm.desk = c THEN RootWork ELSE Zero)
    IN  /\ Done("DETACH", built, dirty, Redraws(built, dirty))

\* gem_window_resident_damage, after a menu or a form has closed.
Damage(r) ==
    LET clipped == Meet(RootWork, r)
    IN  /\ clipped # Zero
        /\ Done("DAMAGE", wm, clipped, Redraws(wm, clipped))

----------------------------------------------------------------------------
(* Gestures on window frames *)

\* gem_window_find: the root behind all windows, NONE off the screen.
Found(p) ==
    LET hit == {i \in DOMAIN wm.order : Inside(wm.win[wm.order[i]].outer, p)}
    IN  IF ~Inside(ScreenRect, p) THEN NONE
        ELSE IF hit = {} THEN Root
        ELSE wm.order[CHOOSE i \in hit : \A j \in hit : j <= i]

\* gem_window_resident_gadget: what a point in window h may hit.  Only the
\* top window has a closer, a fuller, arrows and sliders; the corner and
\* the title are there without them as well.
Hits(h, p) ==
    LET kind == wm.win[h].kind
        corner == IF Vertical(kind) /\ Horizontal(kind) THEN {"SIZER"} ELSE {}
        title == kind \cap {"NAME"}
        live == {"CLOSER", "FULLER", "UPARROW", "DNARROW", "LFARROW", "RTARROW",
                 "VSLIDE", "HSLIDE"} \cap kind
        elevators == {e \in {"VELEV", "HELEV"} :
                          (IF e = "VELEV" THEN "VSLIDE" ELSE "HSLIDE") \in kind}
    IN  IF Inside(wm.win[h].work, p) THEN {"WORK"}
        ELSE {"FRAME"} \cup corner \cup title
             \cup (IF wm.top = h THEN live \cup elevators ELSE {})

Pressed(state, h, gadget, p) ==
    [state |-> state, handle |-> h, gadget |-> gadget,
     x |-> p[1], y |-> p[2], start |-> wm.win[h].outer]

\* What a press on a gadget of the top window begins.
Gesture(kind, gadget) ==
    CASE gadget = "WORK" -> "IGNORE"
      [] gadget = "CLOSER" -> IF "HOTCLOSE" \in kind THEN "RELEASE" ELSE "WATCH"
      [] gadget = "FULLER" -> "WATCH"
      [] gadget = "NAME" -> IF "MOVER" \in kind THEN "MOVE" ELSE "RELEASE"
      [] gadget = "SIZER" -> IF "SIZER" \in kind THEN "SIZE" ELSE "RELEASE"
      [] gadget \in {"VELEV", "HELEV"} -> "SLIDE"
      [] OTHER -> "RELEASE"

\* The message it sends at once, if any.
AtOnce(kind, gadget) ==
    IF gadget = "CLOSER" /\ "HOTCLOSE" \in kind THEN {"CLOSED"}
    ELSE IF gadget \in {"UPARROW", "DNARROW", "LFARROW", "RTARROW",
                        "VSLIDE", "HSLIDE"} THEN {"ARROWED"}
    ELSE {}

Sampled(op, control, messages) ==
    /\ wm' = [wm EXCEPT !.control = control]
    /\ effects' = [NoEffects EXCEPT !.op = op, !.messages = messages]

\* gem_window_resident_control_message: r is where a drag would put it.
Post(type, h, r) ==
    IF type \notin {"MOVED", "SIZED"} THEN <<Message(wm, type, h, wm.win[h].outer)>>
    ELSE IF PublicRect(wm.win[h].kind, r) THEN <<Message(wm, type, h, r)>>
    ELSE <<>>

\* A sample with the button down while no gesture is live.
Press(p) ==
    LET h == Found(p)
    IN  /\ wm.control.state = "IDLE"
        /\ IF h \notin Handles
           THEN Sampled("PRESS", [wm.control EXCEPT !.state = "IGNORE"], <<>>)
           ELSE \E gadget \in Hits(h, p) :
                IF wm.top # h
                THEN Sampled("PRESS", Pressed("RELEASE", h, gadget, p),
                             Post("TOPPED", h, wm.win[h].outer))
                ELSE Sampled("PRESS",
                             Pressed(Gesture(wm.win[h].kind, gadget), h, gadget, p),
                             IF AtOnce(wm.win[h].kind, gadget) = {} THEN <<>>
                             ELSE Post(CHOOSE t \in AtOnce(wm.win[h].kind, gadget) : TRUE,
                                       h, wm.win[h].outer))

\* Every other sample with the button down belongs to the gesture.
Hold ==
    /\ wm.control.state # "IDLE"
    /\ Quiet("HOLD", wm)

\* Mutant: the window is kept on the screen at the left and the top only.
MovedHalfway(p) ==
    LET g == wm.control
    IN  [g.start EXCEPT !.x = Greater(@ + p[1] - g.x, 0),
                        !.y = Greater(@ + p[2] - g.y, BoxH)]

\* Where a drag of the title leaves the window.
Moved(p) ==
    LET g == wm.control
    IN  [g.start EXCEPT
            !.x = Between(@ + p[1] - g.x, 0, Greater(Width - g.start.w, 0)),
            !.y = Between(@ + p[2] - g.y, BoxH, Greater(Height - g.start.h, BoxH))]

\* The size a drag of the corner leaves it.
Sized(p) ==
    LET g == wm.control
        size(was, delta, box, room) ==
            Between(was + delta, Lesser(MinBoxes * box, room), room)
    IN  [g.start EXCEPT
            !.w = size(@, p[1] - g.x, BoxW, Width - g.start.x),
            !.h = size(@, p[2] - g.y, BoxH, Height - g.start.y)]

\* The messages the end of a gesture may send.
Finishes(p) ==
    LET g == wm.control
        h == g.handle
        again == IF Found(p) = h THEN Hits(h, p) ELSE {}
        closedOrFulled == IF g.gadget = "CLOSER" THEN "CLOSED" ELSE "FULLED"
    IN  CASE g.state = "WATCH" ->
                  (IF again # {g.gadget} THEN {<<>>} ELSE {})
                  \cup (IF g.gadget \in again
                        THEN {Post(closedOrFulled, h, g.start)} ELSE {})
          [] g.state = "MOVE" -> {Post("MOVED", h, Moved(p))}
          [] g.state = "SIZE" -> {Post("SIZED", h, Sized(p))}
          [] g.state = "SLIDE" ->
                  {Post(IF g.gadget = "VELEV" THEN "VSLID" ELSE "HSLID", h, g.start)}
          [] OTHER -> {<<>>}

\* A sample with the button up ends the gesture.
Up(p) ==
    /\ IF wm.control.state \in {"IDLE", "IGNORE"}
       THEN Sampled("UP", IF wm.control.state = "IGNORE" THEN Idle ELSE wm.control, <<>>)
       ELSE \E messages \in Finishes(p) : Sampled("UP", Idle, messages)

----------------------------------------------------------------------------
Next ==
    \/ \E c \in Clients :
          \/ \E kind \in Kinds, full \in AllRects \cup {Zero} : WindCreate(c, kind, full)
          \/ WindSetDesk(c)
          \/ Detach(c)
          \/ \E h \in Walked, first \in BOOLEAN : WindWalk(c, h, first)
          \/ \E h \in Handles :
                \/ \E r \in Rects[h] : WindOpen(c, h, r)
                \/ WindClose(c, h)
                \/ WindDelete(c, h)
                \/ \E r \in Rects[h], top \in BOOLEAN : WindSetCurrent(c, h, r, top)
                \/ WindSetTop(c, h)
                \/ WindSetFrame(c, h)
    \/ \E r \in AllRects : Damage(r)
    \/ \E p \in Points : Press(p) \/ Up(p)
    \/ Hold

Spec == Init /\ [][Next]_vars

----------------------------------------------------------------------------
(* Properties *)

Gestures == {"IDLE", "IGNORE", "RELEASE", "WATCH", "MOVE", "SIZE", "SLIDE"}

\* Type invariant; every rectangle of the pool is on one list or free.
TypeOK ==
    /\ wm.desk \in Clients \cup {NONE}
    /\ wm.top \in {Root} \cup Handles
    /\ wm.short \in BOOLEAN
    /\ wm.control.state \in Gestures
    /\ wm.free + Along([h \in Handles |-> h], LAMBDA n, h : n + Len(wm.pieces[h]),
                       Len(wm.pieces[Root])) = RectCount

\* The windows in the tree are the open ones, each once, and the top is the
\* last of them.
TreeIsOpenWindows ==
    /\ NoRepeats(wm.order)
    /\ \A h \in Handles : Listed(wm.order, h) <=> wm.win[h].open
    /\ \A h \in Handles : wm.win[h].open => wm.win[h].owner # NONE
    /\ wm.top = IF wm.order = <<>> THEN Root ELSE Last(wm.order)

Cells(r) == {<<x, y>> : x \in r.x .. Right(r) - 1, y \in r.y .. Bottom(r) - 1}
Covered(m, h) == UNION {Cells(m.pieces[h][i]) : i \in DOMAIN m.pieces[h]}
Hidden(m, h) == UNION {Cells(m.win[Above(m, h)[i]].outer) : i \in DOMAIN Above(m, h)}

\* Unless the pool ran out, the pieces of a window are exactly what no
\* window above it hides, and no two of them overlap.
PiecesAreTheVisiblePart ==
    ~wm.short =>
        \A h \in {Root} \cup ToSet(wm.order) :
            /\ Covered(wm, h) = Cells(Base(wm, h)) \ Hidden(wm, h)
            /\ \A i, j \in DOMAIN wm.pieces[h] :
                  i # j => Meet(wm.pieces[h][i], wm.pieces[h][j]) = Zero

\* A client's walk over the pieces of a window never goes on in a list that
\* was rebuilt since it began.
WalksAreNotStale ==
    [][\A h \in {Root} \cup Handles :
          wm'.next[h] # 0 => wm'.pieces[h] = wm.pieces[h]]_vars

\* A call that fails leaves no trace: the windows, their order and their
\* visible pieces are those of before.  Two things may differ: the walks,
\* which start anew, and the BROKEN flag of a window that is covered
\* altogether, which the attempt has set and the second rebuild skips.
FailureLeavesNoTrace ==
    [][LET flagged(h) == [wm.win[h] EXCEPT !.broken = wm'.win[h].broken]
           kept(h) == IF wm.pieces[h] = <<>> THEN flagged(h) ELSE wm.win[h]
       IN  ~effects'.result /\ ~wm.short
           => wm' = [wm EXCEPT !.next = wm'.next,
                               !.win = [h \in Handles |-> kept(h)]]]_vars

Shown(m, h) == Covered(m, h) \cap Cells(m.win[h].work)

\* The part of a window's work area that must be painted after a step: what
\* was not shown, or all of it if the window has moved.
Exposed(h) ==
    IF wm.win[h].open /\ wm.win[h].outer = wm'.win[h].outer
    THEN Shown(wm', h) \ Shown(wm, h)
    ELSE Shown(wm', h)

Redrawn(h) ==
    UNION {Cells(effects'.messages[i].rect) :
              i \in {j \in DOMAIN effects'.messages :
                        /\ effects'.messages[j].type = "REDRAW"
                        /\ effects'.messages[j].handle = h}}

\* Whatever comes into sight is redrawn: the owner of a window is told of
\* every part of its work area that a call uncovers, and the background
\* that is uncovered is repainted.  Topping sends less, and is excepted.
ExposedIsRedrawn ==
    [][~wm.short /\ ~wm'.short /\ effects'.op # "TOP"
       => /\ \A h \in ToSet(wm'.order) : Exposed(h) \subseteq Redrawn(h)
          /\ Covered(wm', Root) \ Covered(wm, Root) \subseteq
                (IF effects'.background THEN Cells(effects'.dirty) ELSE {})]_vars

\* A live gesture is made on a window that is still there.
GesturesHaveWindows ==
    wm.control.state \notin {"IDLE", "IGNORE"} =>
        wm.control.handle \in ToSet(wm.order)

\* The tree, the visible pieces and the gesture agree with one another.
TreeSafety ==
    TypeOK /\ TreeIsOpenWindows /\ PiecesAreTheVisiblePart /\ GesturesHaveWindows

\* The end of a drag is reported to the owner of the window, with a
\* rectangle WIND_SET accepts, if the window lies on the screen and below
\* the menu bar.
DragsAreReported ==
    [][LET g == wm.control
       IN  /\ g.state \in {"MOVE", "SIZE"} /\ effects'.op = "UP"
           /\ g.start.x >= 0 /\ g.start.y >= BoxH
           => /\ Len(effects'.messages) = 1
              /\ effects'.messages[1].owner = wm.win[g.handle].owner
              /\ PublicRect(wm.win[g.handle].kind, effects'.messages[1].rect)]_vars

===========================================================================
