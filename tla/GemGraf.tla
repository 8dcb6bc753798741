------------------------------- MODULE GemGraf -------------------------------
(***************************************************************************)
(* The graphics trackers and box animations of gem_graf_resident.c:        *)
(* GRAF_RUBBOX, DRAGBOX, SLIDEBOX and WATCHBOX hold the call while the     *)
(* button is down and follow the mouse with an outline drawn in XOR mode;  *)
(* MOVEBOX, GROWBOX and SHRINKBOX draw a path of boxes and erase it.       *)
(*                                                                         *)
(* One of the two axes is modelled, they are handled alike: a rectangle    *)
(* is where it begins and how wide it is.                                  *)
(***************************************************************************)
EXTENDS GemModal, FiniteSetsExt, Bags

CONSTANTS
    Width,    \* of the screen
    Trackers, \* the trackers clients ask for: op, rect, cons, min
    Paths     \* the animations they ask for: op, from, to

Rects == [x : Int, w : Int]

ASSUME GrafAssumption ==
    /\ Width \in Nat \ {0}
    /\ Trackers \subseteq [op : {"rub", "drag", "slide", "watch"}, rect : Rects,
                           cons : Rects, min : Int]
    /\ Paths \subseteq [op : {"move", "grow", "shrink"}, from : Rects, to : Rects]

\* Clients begin with the slider in its box: GRAF_SLIDEBOX moves it there only
\* with the mouse.
ASSUME SliderAssumption ==
    \A t \in Trackers : t.op = "slide" =>
        t.rect.x >= t.cons.x /\ t.rect.x + t.rect.w <= t.cons.x + t.cons.w

VARIABLES
    mouse, \* gem_graf_mouse_x and _buttons: the last sample that came here
    track, \* gem_graf_pds
    lines, \* the rectangles drawn in XOR mode an odd number of times
    watch  \* the state of the object each client last watched

grafVars == <<mouse, track, lines, watch>>

NoTrack == [op |-> "none", rect |-> [x |-> 0, w |-> 0],
            cons |-> [x |-> 0, w |-> 0], origin |-> 0, min |-> 0,
            shown |-> FALSE]

GrafInit ==
    /\ mouse = [x |-> 0, down |-> FALSE]
    /\ track = [a \in Apps |-> NoTrack]
    /\ lines = {}
    /\ watch = [a \in Apps |-> "outside"]

Tracking(a) == track[a].op # "none"

----------------------------------------------------------------------------
(* Rectangles *)

\* gem_graf_rectangle_valid; a rectangle may stick out of the screen.
Valid(r) == r.w > 0 /\ r.x \in 0 .. Width - 1

Inside(x, r) == x >= r.x /\ x < r.x + r.w

\* XOR mode: drawing a box once more erases it.
Xor(set, r) == (set \ {r}) \cup ({r} \ set)
XorAll(set, drawn) ==
    LET odd == {r \in DOMAIN drawn : drawn[r] % 2 = 1}
    IN  (set \ odd) \cup (odd \ set)

\* gem_graf_rubber_rectangle: from the origin to the mouse, never narrower
\* than the minimum nor beyond the screen.
Rubber(t, x) ==
    [x |-> t.origin,
     w |-> Min({Max({x - t.origin + 1, t.min}), Width - t.origin})]

\* gem_graf_drag_rectangle: with the mouse, but inside the constraint.
Dragged(t, x) ==
    [t.rect EXCEPT !.x =
        Min({Max({x - t.origin, t.cons.x}), t.cons.x + t.cons.w - t.rect.w})]

Followed(t, x) == IF t.op = "rub" THEN Rubber(t, x) ELSE Dragged(t, x)

\* gem_graf_scale_1000, the position of a slider; the words are unsigned.
Scale1000(value, divisor) ==
    CASE divisor = 0 -> 0
      [] divisor # 0 /\ value >= divisor -> 1000
      [] OTHER -> (value * 1000) \div divisor

Slid(t) ==
    LET word == 65536
    IN  Scale1000((t.rect.x - t.cons.x) % word, (t.cons.w - t.rect.w) % word)

\* What a tracker answers when the button is up.
Outcome(t, a) ==
    CASE t.op = "rub" -> t.rect.w
      [] t.op = "drag" -> t.rect.x
      [] t.op = "slide" -> Slid(t)
      [] t.op = "watch" -> IF watch[a] = "inside" THEN 1 ELSE 0

----------------------------------------------------------------------------
(* Starting a tracker *)

\* The tracker a call sets up; it is refused when it is not sound.
Set(t) ==
    LET fits == /\ Valid(t.rect) /\ Valid(t.cons) /\ t.rect.w <= t.cons.w
        base == [NoTrack EXCEPT !.op = t.op, !.rect = t.rect, !.cons = t.cons]
        grip == [base EXCEPT !.origin = Max({mouse.x - t.rect.x, 0})]
        rub == [base EXCEPT !.origin = t.rect.x, !.min = t.min]
        moved(u) == [u EXCEPT !.rect = Followed(u, mouse.x)]
    IN  CASE t.op = "rub" -> [t |-> moved(rub),
               ok |-> t.rect.x >= 0 /\ t.min > 0 /\ Valid(Rubber(rub, mouse.x))]
          [] t.op = "drag" -> [t |-> moved(grip),
               ok |-> fits /\ Valid(Dragged(grip, mouse.x))]
          [] t.op = "slide" -> [t |-> grip, ok |-> fits]
          [] t.op = "watch" -> [t |-> base, ok |-> Valid(t.rect)]

\* GRAF_WATCHBOX takes no level of the lock and draws no outline.
WatchBox(a, t) ==
    LET s == Set(t)
    IN  /\ t.op = "watch" /\ Call(a)
        /\ IF ~s.ok
           THEN Answered(a, Answer(0)) /\ UNCHANGED <<track, watch>>
           ELSE /\ watch' = [watch EXCEPT ![a] = "inside"]
                /\ IF mouse.down
                   THEN /\ track' = [track EXCEPT ![a] = s.t]
                        /\ Answered(a, Held)
                   ELSE Answered(a, Answer(1)) /\ UNCHANGED track
        /\ UNCHANGED <<live, lock, mouse, lines>>

\* The others draw the outline before they ask for the lock, and erase it
\* when it is refused.  With the button up they are over at once.
TrackBox(a, t) ==
    LET s == Set(t)
        drawn == [s.t EXCEPT !.shown = TRUE]
    IN  /\ t.op # "watch" /\ Call(a)
        /\ \/ /\ ~s.ok
              /\ Answered(a, Answer(0))
              /\ UNCHANGED <<track, lines, lock>>
           \/ /\ s.ok /\ ~mouse.down
              /\ lines' = Xor(Xor(lines, s.t.rect), s.t.rect)
              /\ Answered(a, IF MayTake(a) THEN Answer(Outcome(s.t, a)) ELSE Failed)
              /\ UNCHANGED <<track, lock>>
           \/ /\ s.ok /\ mouse.down
              /\ IF MayTake(a)
                 THEN /\ lines' = Xor(lines, s.t.rect)
                      /\ track' = [track EXCEPT ![a] = drawn]
                      /\ lock' = Taken(lock, a)
                      /\ Answered(a, Held)
                 ELSE /\ lines' = Xor(Xor(lines, s.t.rect), s.t.rect)
                      /\ Answered(a, Failed)
                      /\ UNCHANGED <<track, lock>>
        /\ UNCHANGED <<live, mouse, watch>>

----------------------------------------------------------------------------
(* Samples of the mouse *)

Erased(t) == IF t.shown THEN Xor(lines, t.rect) ELSE lines

Ended(a, out) ==
    /\ track' = [track EXCEPT ![a] = NoTrack]
    /\ lines' = Erased(track[a])
    /\ lock' = IF track[a].op = "watch" THEN lock ELSE Given(lock, a)
    /\ Answered(a, Answer(out))

\* The button is up: the answer is what the outline showed last.
Released(a) == Ended(a, Outcome(track[a], a)) /\ UNCHANGED watch

\* The outline follows the mouse; one that would leave the screen ends the
\* tracker with FALSE.
Outlined(a, x) ==
    LET t == track[a]
        next == Followed(t, x)
    IN  /\ IF ~Valid(next) THEN Ended(a, 0)
           ELSE /\ lines' = IF next = t.rect THEN lines ELSE Xor(Erased(t), next)
                /\ track' = [track EXCEPT ![a].rect = next,
                                          ![a].shown = @ \/ next # t.rect]
                /\ UNCHANGED <<lock, reply>>
        /\ UNCHANGED watch

Watched(a, x) ==
    /\ watch' = [watch EXCEPT ![a] =
                    IF Inside(x, track[a].rect) THEN "inside" ELSE "outside"]
    /\ UNCHANGED <<track, lines, lock, reply>>

\* gem_graf_resident_input, for the client the sample belongs to.
GrafSample(a, x, down) ==
    /\ mouse' = [x |-> x, down |-> down]
    /\ \/ ~Tracking(a) /\ UNCHANGED <<track, lines, watch, lock, reply>>
       \/ Tracking(a) /\ ~down /\ Released(a)
       \/ Tracking(a) /\ down /\ track[a].op # "watch" /\ Outlined(a, x)
       \/ Tracking(a) /\ down /\ track[a].op = "watch" /\ Watched(a, x)
    /\ UNCHANGED <<live, calls>>

\* The tracker of a client that goes away, before the lock is taken from it.
GrafDetach(a) ==
    /\ lines' = Erased(track[a])
    /\ track' = [track EXCEPT ![a] = NoTrack]
    /\ UNCHANGED <<mouse, watch>>

----------------------------------------------------------------------------
(* Animations.  What they draw is a bag of boxes: how often each is drawn. *)

Distance(m, n) == IF m < n THEN n - m ELSE m - n

\* gem_graf_scale for a way along one axis: how often half of it can be
\* halved, and the length of a step.
Halvings(n) == Cardinality({k \in 0 .. 15 : 2^k <= n})
Steps(way) ==
    LET count == Halvings(way \div 2)
    IN  [count |-> count,
         step |-> IF count = 0 THEN 1 ELSE Max({1, way \div count})]

\* The boxes of a path; those that are off the screen are not drawn.
Stepped(start, k, step, grow) ==
    [x |-> start.x - k * step, w |-> start.w + k * grow]

Boxes(start, count, step, grow) ==
    LET Which(r) == {k \in 0 .. count : Stepped(start, k, step, grow) = r}
        all == {Stepped(start, k, step, grow) : k \in 0 .. count}
    IN  [r \in {b \in all : Valid(b)} |-> Cardinality(Which(r))]

\* Mutant of Walked: the second pass goes on where the first has ended.
WalkedOn(start, count, step, grow) == Boxes(start, 2 * count + 1, step, grow)

\* gem_graf_movebox, gem_graf_box_path: all boxes twice, from the start again.
Walked(start, count, step, grow) ==
    Boxes(start, count, step, grow) (+) Boxes(start, count, step, grow)

Moved(from, to) ==
    LET s == Steps(Distance(from.x, to))
    IN  Walked(from, s.count, IF from.x < to THEN - s.step ELSE s.step, 0)

\* gem_graf_stepcalc: a small box in the middle of a large one.
Middle(small, large) == large.x + (large.w \div 2) - (small.w \div 2)
GrowSteps(small, large) == Steps((large.w \div 2) - (small.w \div 2))

Path(p) ==
    LET mid == Middle(p.from, p.to)
        s == GrowSteps(p.from, p.to)
        centred == [p.from EXCEPT !.x = mid]
    IN  CASE p.op = "move" -> Moved(p.from, p.to.x)
          [] p.op = "grow" ->
               Moved(p.from, mid) (+) Walked(centred, s.count, s.step, 2 * s.step)
          [] p.op = "shrink" ->
               Walked(p.to, s.count, - s.step, - 2 * s.step) (+) Moved(centred, p.from.x)

PathFits(p) ==
    /\ Valid(p.from)
    /\ IF p.op = "move" THEN Valid([p.from EXCEPT !.x = p.to.x])
       ELSE /\ Valid(p.to) /\ p.to.w >= p.from.w
            /\ Valid([p.from EXCEPT !.x = Middle(p.from, p.to)])

\* They ask for no lock, and draw over the outline of another client.
Animate(a, p) ==
    /\ Told(a, Answer(IF PathFits(p) THEN 1 ELSE 0))
    /\ lines' = IF PathFits(p) THEN XorAll(lines, Path(p)) ELSE lines
    /\ UNCHANGED <<mouse, track, watch>>

\* GRAF_MKSTATE
MkState(a) == Told(a, Answer(IF mouse.down THEN 1 ELSE 0)) /\ UNCHANGED grafVars

GrafCalls(a) ==
    \/ \E t \in Trackers : WatchBox(a, t) \/ TrackBox(a, t)
    \/ \E p \in Paths : Animate(a, p)
    \/ MkState(a)
=============================================================================
