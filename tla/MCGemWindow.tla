----------------------------- MODULE MCGemWindow -----------------------------
(* Windows and the mouse, each part on a small instance and one at a time:  *)
(* "scene" says which one is at work.                                       *)
(*                                                                          *)
(* tree:   a screen of eight by six boxes of one cell each, the menu bar on *)
(*         top.                                                             *)
(* frame:  boxes of three by three pixels, windows of seven boxes each way  *)
(*         and of more.                                                     *)
(* clicks: two clients wait for clicks, and for clicks or a time; timers    *)
(*         borrow from their high word.                                     *)
EXTENDS GemWindow, GemEvent, TLC

CONSTANTS c1, c2

VARIABLES
    scene,
    frame, hold, told, drags

frameVars == <<frame, hold, told, drags>>

MCSymmetry == Permutations({c1, c2})

MCFrame == {"NAME", "CLOSER", "MOVER", "SIZER", "VSLIDE"}
MCKinds == {MCFrame}

\* Two side by side, one that covers the screen, and one inside it, which
\* overlaps both and leaves four pieces of the desktop.
MCLeft == Rect(0, 1, 3, 3)
MCRight == Rect(4, 1, 4, 4)
MCAll == Rect(0, 1, 8, 5)
MCInner == Rect(2, 2, 4, 3)
MCRects == <<{MCLeft}, {MCLeft, MCRight}, {MCAll, MCInner}>>
MCWalked == {Root, 1}
MCPoints == {<<0, 2>>, <<1, 2>>, <<7, 4>>}

\* What the next steps and the properties look at.
WindowView ==
    LET g == wm.control
        watched == g.state \in {"WATCH", "SLIDE"}
        dragged == g.state \in {"MOVE", "SIZE"}
    IN  [wm EXCEPT !.control =
            [g EXCEPT !.gadget = IF watched THEN @ ELSE "none",
                      !.x = IF dragged THEN @ ELSE 0,
                      !.y = IF dragged THEN @ ELSE 0,
                      !.start = IF dragged THEN @ ELSE Zero]]

----------------------------------------------------------------------------
(* The frame of a window *)

Arrows == {"UPARROW", "DNARROW", "LFARROW", "RTARROW"}
Slides == {"VSLIDE", "HSLIDE"}
Title == {"NAME", "CLOSER", "FULLER"}
FrameKinds ==
    {{}, {"NAME"}, {"CLOSER", "FULLER"}, Title, {"INFO"}, Title \cup {"INFO"}, {"SIZER"},
     Slides, Arrows, Arrows \cup Slides, {"UPARROW", "VSLIDE"}, {"DNARROW", "VSLIDE", "INFO"},
     {"HSLIDE", "RTARROW", "NAME"}, {"LFARROW", "HSLIDE", "SIZER"},
     Title \cup Arrows \cup Slides \cup {"INFO", "SIZER"}}
\* The least size a window is dragged to, and more.
FrameWindows ==
    [kind : FrameKinds, outer : {Rect(2, 3, 21, 21), Rect(0, 3, 29, 23)}]
\* Every point of a vertical and of a horizontal line where bars are.
FramePoints == {<<27, y>> : y \in 2 .. 26} \cup {<<x, 22>> : x \in 0 .. 24}

FrameOf ==
    INSTANCE GemFrame
        WITH BoxW <- 3, BoxH <- 3, MaxDrags <- 1,
             Frames <- FrameWindows, Sizes <- {-1, 300, 1000}, Values <- {0, 500, 1000},
             Points <- FramePoints

FrameSafety == scene = "frame" => FrameOf!FrameSafety

----------------------------------------------------------------------------
(* Clicks *)

Plain(op) == [op |-> op, flags |-> {op}, clicks |-> 0, leave |-> FALSE,
              desired |-> 0, one |-> {}, two |-> {}, timer |-> 0]

Click(n) == [Plain("BUTTON") EXCEPT !.clicks = n, !.desired = 1]
Multi(flags, ms) ==
    [Plain("MULTI") EXCEPT !.flags = flags, !.clicks = 2, !.desired = 1,
                           !.two = {4}, !.timer = ms]

\* Buttons and timers.
MCClickWaits == {Click(1), Click(2), Multi({"BUTTON", "TIMER"}, 5)}

MCRates == <<4, 2>>

(* What of a state the next steps and the properties can still tell apart:   *)
(* a record bound to a generation that is gone is cleared before it is used, *)
(* a wait only reads the serial and the timer its flags ask for, the saved   *)
(* transition is read only while two are pending, the mouse only while it    *)
(* has an owner, and what an answer says is looked at in the step that gives *)
(* it.                                                                       *)
LivePd(c) ==
    LET p == ev.pd[c]
        button == "BUTTON" \in p.wait.flags
        timer == "TIMER" \in p.wait.flags
    IN  IF gen[c] = 0 \/ p.gen # gen[c] THEN "free"
        ELSE <<p.wait, button /\ p.wait.clicks <= 1 /\ p.edged,
               button /\ p.wait.clicks > 1 /\ p.batched,
               IF timer THEN <<p.lo, p.hi, p.rang>> ELSE <<>>,
               p.ring, p.front, p.rear, p.count>>

LiveMouse ==
    LET m == ev.mouse
    IN  IF ~m.valid THEN <<m.clicks>>
        ELSE <<m.owner, gen[m.owner] = m.gen, m.place, m.button, m.clicks, m.moves,
               IF m.moves > 1 THEN <<m.oldButton, m.oldClicks>> ELSE <<>>>>

EventView ==
    <<gen, nextGen, due, [c \in Channels |-> answer[c] = NoAnswer],
      [c \in Channels |-> LivePd(c)], LiveMouse, ev.batch, ev.rate,
      IF \E c \in Channels : ev.pd[c].batched THEN ev.done ELSE <<>>>>

MCView ==
    <<scene, CASE scene = "tree" -> WindowView
               [] scene = "frame" -> frameVars
               [] OTHER -> EventView>>

----------------------------------------------------------------------------

MCInit ==
    /\ scene \in {"tree", "frame", "clicks"}
    /\ Init
    /\ IF scene = "frame" THEN FrameOf!FrameInit
       ELSE frame = "none" /\ hold = "none" /\ told = "none" /\ drags = 0
    /\ EventInit

MCNext ==
    /\ UNCHANGED scene
    /\ \/ scene = "tree" /\ Next /\ UNCHANGED <<frameVars, eventVars>>
       \/ scene = "frame" /\ FrameOf!FrameNext /\ UNCHANGED <<vars, eventVars>>
       \/ scene = "clicks" /\ EventNext /\ UNCHANGED <<vars, frameVars>>

MCSpec == MCInit /\ [][MCNext]_<<scene, vars, frameVars, eventVars>>
=============================================================================
