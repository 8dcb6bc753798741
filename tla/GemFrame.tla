------------------------------ MODULE GemFrame ------------------------------
(***************************************************************************)
(* The frame of one open window, to the pixel (gem_window_resident.c and   *)
(* WIND_CALC of gem_startup_resident.c): where each gadget sits, which one *)
(* a click meets, and what the scroll bars report.                         *)
(*                                                                         *)
(* GemWindow lets a click in a frame meet any gadget the window has; this  *)
(* module says which, and follows one elevator from the press to the       *)
(* client's WIND_SET with the position it was told.                        *)
(*                                                                         *)
(* Left out: colours, texts and 3D looks of the gadgets, and sums past a   *)
(* word, which no rectangle on a screen reaches.                           *)
(***************************************************************************)
EXTENDS GemRect, SequencesExt

CONSTANTS
    Frames,         \* the windows looked at: kind and outer rectangle
    Sizes, Values,  \* slider sizes and positions clients set
    Points,         \* where the mouse goes
    MaxDrags        \* bound: drags a client has answered

VARIABLES
    frame,    \* slot, active flag and sliders, by axis
    hold,     \* the elevator held, control_start and control_track
    told,     \* the last report of a scroll bar to the client
    drags     \* how many a client has answered

frameVars == <<frame, hold, told, drags>>

Axes == {"v", "h"}

\* The gadgets of a scroll bar and the room an arrow takes.
Bar(a) ==
    IF a = "v"
    THEN [bar |-> "VBAR", first |-> "UPARROW", last |-> "DNARROW",
          slide |-> "VSLIDE", elevator |-> "VELEV", box |-> BoxH]
    ELSE [bar |-> "HBAR", first |-> "LFARROW", last |-> "RTARROW",
          slide |-> "HSLIDE", elevator |-> "HELEV", box |-> BoxW]

\* gem_window_active_absolute: the child of a part, on the screen.
Child(parent, x, y, w, h) == Rect(parent.x + x, parent.y + y, w, h)

\* A child of a bar or of its slide; where a part or a point is on the axis.
Along(parent, a, at, length) ==
    IF a = "v" THEN Child(parent, 0, at, BoxW, length) ELSE Child(parent, at, 0, length, BoxH)
Start(a, r) == IF a = "v" THEN r.y ELSE r.x
Length(a, r) == IF a = "v" THEN r.h ELSE r.w
Coordinate(a, p) == IF a = "v" THEN p[2] ELSE p[1]

NotHeld == [axis |-> "none", elevator |-> Zero, track |-> Zero, from |-> 0]
Silent == [message |-> "none", axis |-> "none", value |-> 0, at |-> 0]

----------------------------------------------------------------------------
(* Where the gadgets are *)

\* gem_window_scale: shift and subtract, one bit of the multiplier at a time.
Scale(value, multiplier, divisor) ==
    LET v == Lesser(value, divisor)
        m == Lesser(multiplier, 1000)
        Bit(i) == (m \div 2 ^ (9 - i)) % 2
        Step[i \in 0 .. 10] ==
            IF i = 0 THEN [q |-> 0, r |-> 0]
            ELSE LET s == Step[i - 1]
                     t == 2 * s.r + Bit(i - 1) * v
                     carried == IF t >= 2 * divisor THEN 2
                                ELSE IF t >= divisor THEN 1 ELSE 0
                 IN  [q |-> 2 * s.q + carried, r |-> t - carried * divisor]
    IN  IF divisor = 0 THEN 0 ELSE Step[10].q

Part(has, gadget, r) == IF has THEN gadget :> r ELSE <<>>

\* Mutant: the way of the elevator is scaled to the slide, not to what the
\* elevator leaves of it.
ElevatorPastEnd(a, slide, size, value) ==
    LET track == Length(a, slide)
        wanted == IF size < 0 THEN Bar(a).box ELSE Scale(track, size, 1000)
        length == Lesser(Greater(wanted, Bar(a).box), track)
    IN  Along(slide, a, Scale(track, Between(value, 0, 1000), 1000), length)

\* gem_window_active_bar: the elevator of a slide.
Elevator(a, slide, size, value) ==
    LET track == Length(a, slide)
        wanted == IF size < 0 THEN Bar(a).box ELSE Scale(track, size, 1000)
        length == Lesser(Greater(wanted, Bar(a).box), track)
        position == Scale(track - length, Between(value, 0, 1000), 1000)
    IN  Along(slide, a, position, length)

\* gem_window_active_bar, for an active window.
BarParts(a, bar) ==
    LET b == Bar(a)
        first == b.first \in frame.kind
        last == b.last \in frame.kind
        start == IF first THEN b.box - 1 ELSE 0
        rest == Length(a, bar) - start - (IF last THEN b.box - 1 ELSE 0)
        has == b.slide \in frame.kind /\ rest > 0
        slide == Along(bar, a, start, rest)
    IN  Part(first, b.first, Along(bar, a, 0, b.box))
        @@ Part(last /\ rest > 0, b.last, Along(bar, a, start + rest - 1, b.box))
        @@ Part(has, b.slide, slide)
        @@ Part(has, b.elevator, Elevator(a, slide, frame.size[a], frame.value[a]))

\* The title row: the name takes what closer and fuller leave.
TitleParts ==
    LET box == frame.outer
        closer == frame.active /\ "CLOSER" \in frame.kind
        fuller == frame.active /\ "FULLER" \in frame.kind
        left == IF closer THEN BoxW ELSE 0
        right == IF fuller THEN box.w - BoxW ELSE box.w
    IN  Part(Titled(frame.kind), "TITLE", Child(box, 0, 0, box.w, BoxH))
        @@ Part(closer, "CLOSER", Child(box, 0, 0, BoxW, BoxH))
        @@ Part(fuller, "FULLER", Child(box, right, 0, BoxW, BoxH))
        @@ Part("NAME" \in frame.kind, "NAME", Child(box, left, 0, right - left, BoxH))

\* gem_window_resident_build_active
Parts ==
    LET kind == frame.kind
        box == frame.outer
        info == IF Titled(kind) THEN BoxH - 1 ELSE 0
        below == IF "INFO" \in kind THEN info + BoxH - 1 ELSE info
        data == Child(box, 0, below, box.w, box.h - below)
        w == data.w - 2 - (IF Vertical(kind) THEN BoxW - 1 ELSE 0)
        h == data.h - 2 - (IF Horizontal(kind) THEN BoxH - 1 ELSE 0)
        vbar == Child(data, 1 + w, 0, BoxW, h + 2)
        hbar == Child(data, 0, 1 + h, w + 2, BoxH)
        corner == Child(data, 1 + w, 1 + h, BoxW, BoxH)
    IN  TitleParts
        @@ Part("INFO" \in kind, "INFO", Child(box, 0, info, box.w, BoxH))
        @@ Part(TRUE, "DATA", data)
        @@ Part(TRUE, "WORK", Child(data, 1, 1, w, h))
        @@ Part(Vertical(kind), "VBAR", vbar)
        @@ Part(Horizontal(kind), "HBAR", hbar)
        @@ Part(Vertical(kind) /\ Horizontal(kind), "SIZER", corner)
        @@ (IF Vertical(kind) /\ frame.active THEN BarParts("v", vbar) ELSE <<>>)
        @@ (IF Horizontal(kind) /\ frame.active THEN BarParts("h", hbar) ELSE <<>>)

HitOrder ==
    <<"VELEV", "HELEV", "CLOSER", "FULLER", "SIZER", "UPARROW", "DNARROW", "LFARROW",
      "RTARROW", "VSLIDE", "HSLIDE", "VBAR", "HBAR", "NAME", "WORK", "INFO", "DATA", "TITLE">>

\* gem_window_resident_gadget, for a point in the window.
Hit(parts, p) ==
    LET met == SelectSeq(HitOrder, LAMBDA g : g \in DOMAIN parts /\ Inside(parts[g], p))
    IN  IF met = <<>> THEN "BOX" ELSE Head(met)

----------------------------------------------------------------------------
(* Scroll bars at work *)

\* What a client of this window has set before.
FrameInit ==
    /\ frame \in {[kind |-> f.kind, outer |-> f.outer, active |-> active,
                   size |-> [a \in Axes |-> s], value |-> [a \in Axes |-> v]] :
                  f \in Frames, active \in BOOLEAN, s \in Sizes, v \in Values}
    /\ hold = NotHeld
    /\ told = Silent
    /\ drags = 0

\* gem_window_resident_input, a press on a scroll bar of the top window:
\* arrows and the slide report at once, an elevator is held.
Grab ==
    LET Report(a, message) ==
            /\ told' = [Silent EXCEPT !.message = message, !.axis = a]
            /\ UNCHANGED hold
    IN  /\ frame.active /\ hold = NotHeld
        /\ \E parts \in {Parts} : \E p \in Points :
           \E a \in Axes, hit \in {Hit(parts, p)} :
              LET b == Bar(a)
              IN  \/ hit = b.first /\ Report(a, "LINE_BACK")
                  \/ hit = b.last /\ Report(a, "LINE_ON")
                  \/ /\ hit = b.slide
                     /\ IF Coordinate(a, p) < Start(a, parts[b.elevator])
                        THEN Report(a, "PAGE_BACK") ELSE Report(a, "PAGE_ON")
                  \/ /\ hit = b.elevator
                     /\ hold' = [axis |-> a, elevator |-> parts[b.elevator],
                                 track |-> parts[b.slide], from |-> Coordinate(a, p)]
                     /\ told' = Silent
        /\ UNCHANGED <<frame, drags>>

\* gem_window_resident_input, the release of an elevator.
Drop(p) ==
    LET a == hold.axis
        span == Length(a, hold.track) - Length(a, hold.elevator)
        moved == Coordinate(a, p) - hold.from
        position == Between(Start(a, hold.elevator) - Start(a, hold.track) + moved, 0, span)
    IN  /\ hold # NotHeld
        /\ told' = [message |-> "SLID", axis |-> a, at |-> Greater(position, 0),
                    value |-> IF span <= 0 THEN 0 ELSE Scale(position, 1000, span)]
        /\ hold' = NotHeld
        /\ UNCHANGED <<frame, drags>>

\* gem_window_resident_set, WF_HSLIDE and WF_VSLIDE with what was told.
Obey ==
    /\ told.message = "SLID" /\ drags < MaxDrags
    /\ drags' = drags + 1
    /\ frame' = [frame EXCEPT !.value[told.axis] = Between(told.value, -1, 1000)]
    /\ told' = Silent
    /\ UNCHANGED hold

\* WF_TOP of this window or of another.
Topped ==
    /\ hold = NotHeld /\ told = Silent
    /\ frame' = [frame EXCEPT !.active = ~@]
    /\ UNCHANGED <<hold, told, drags>>

FrameNext ==
    \/ Topped
    \/ Grab
    \/ \E p \in Points : Drop(p)
    \/ Obey

----------------------------------------------------------------------------
(* WIND_CALC *)

\* gem_startup_wind_calc: the work area of a border rectangle, or back.
WindCalc(what, kind, r) ==
    LET sign == IF what = "WORK" THEN 1 ELSE -1
        Extra(has, size) == IF has THEN size - 1 ELSE 0
        top == sign * (1 + Extra(Titled(kind), BoxH) + Extra("INFO" \in kind, BoxH))
        right == sign * (1 + Extra(Vertical(kind), BoxW))
        bottom == sign * (1 + Extra(Horizontal(kind), BoxH))
    IN  Rect(r.x + sign, r.y + top, r.w - sign - right, r.h - top - bottom)

----------------------------------------------------------------------------
(* Properties *)

RectPoints(r) == (r.x .. Right(r) - 1) \X (r.y .. Bottom(r) - 1)
Within(small, large) ==
    /\ small.x >= large.x /\ Right(small) <= Right(large)
    /\ small.y >= large.y /\ Bottom(small) <= Bottom(large)

\* What the kind of a window promises to the mouse.
Promised ==
    ({"NAME", "INFO"} \cap frame.kind)
    \cup (IF ~frame.active THEN {}
          ELSE ({"CLOSER", "FULLER", "SIZER", "UPARROW", "DNARROW", "LFARROW", "RTARROW"}
                    \cap frame.kind)
               \cup UNION {IF Bar(a).slide \in frame.kind THEN {Bar(a).elevator} ELSE {} :
                           a \in Axes})

\* build_active, gem_window_work_rect and WIND_CALC: three parts of the code
\* work out the same work area, and from it WIND_CALC finds the window again.
WorkAreasAgree ==
    LET work == Parts["WORK"]
    IN  /\ work = WorkRect(frame.kind, frame.outer)
        /\ work = WindCalc("WORK", frame.kind, frame.outer)
        /\ frame.outer = WindCalc("BORDER", frame.kind, work)

\* gem_window_resident_gadget: a click in the work area meets the work area,
\* no point of a window is left to nobody, and every gadget that the kind
\* promises has a point of its own.
ClicksMeetTheirGadget ==
    LET parts == Parts
        Cover(gadgets) == UNION {RectPoints(parts[g]) : g \in gadgets \cap DOMAIN parts}
        Meets(g, p) == Hit(parts, p) = g
    IN  /\ \A g \in DOMAIN parts \ {"TITLE", "INFO", "DATA", "WORK"} :
              Meet(parts[g], parts["WORK"]) = Zero
        /\ Meets("WORK", <<parts["WORK"].x, parts["WORK"].y>>)
        /\ RectPoints(frame.outer) \subseteq Cover({"TITLE", "INFO", "DATA"})
        /\ \A g \in Promised \cap DOMAIN parts : \E p \in RectPoints(parts[g]) : Meets(g, p)
        /\ Promised \subseteq DOMAIN parts

\* gem_window_active_bar: no gadget leaves the window, an elevator stays on
\* its slide and touches both ends at the ends of the range; the scaling
\* without a product is the quotient it stands for.
PartsFit ==
    LET parts == Parts
    IN  /\ \A g \in DOMAIN parts : Within(parts[g], frame.outer)
        /\ \A a \in Axes :
              LET b == Bar(a)
                  slide == parts[b.slide]
                  track == Length(a, slide)
                  At(value) == Elevator(a, slide, frame.size[a], value)
                  Quotient(value, m, d) == (value * m) \div d
              IN  b.elevator \in DOMAIN parts =>
                    /\ Within(parts[b.elevator], slide)
                    /\ Start(a, At(0)) = Start(a, slide)
                    /\ Start(a, At(1000)) + Length(a, At(1000)) = Start(a, slide) + track
                    /\ Scale(track, frame.value[a], 1000) = Quotient(track, frame.value[a], 1000)
                    /\ \A v \in 0 .. track :
                          Scale(v, 1000, track) = Quotient(v, 1000, track)

\* gem_window_resident_input, then WIND_SET: an elevator let go stays where
\* it was dropped, or one pixel before.
DroppedWhereLeft ==
    told.message = "SLID" =>
        LET a == told.axis
            slide == Parts[Bar(a).slide]
            shown == Elevator(a, slide, frame.size[a], told.value)
        IN  Start(a, shown) - Start(a, slide) \in {told.at - 1, told.at}

FrameSafety ==
    /\ hold = NotHeld /\ told = Silent =>
          /\ WorkAreasAgree
          /\ ClicksMeetTheirGadget
          /\ PartsFit
    /\ DroppedWhereLeft
=============================================================================
