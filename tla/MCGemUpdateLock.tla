--------------------------- MODULE MCGemUpdateLock ---------------------------
(* What liveness needs fairness for, one part at a time: "scene" says which  *)
(* one is at work, the other stays as it begins.                             *)
(*                                                                           *)
(* lock:   three channels compete for the screen lock, so that a hand-off    *)
(*         can pick the wrong one of two waiters.                            *)
(* events: one client waits for keys, rectangles, messages and timers, with  *)
(*         two keys and a ring of three words, so that the ring fills and    *)
(*         wraps; timers borrow from their high word.                        *)
EXTENDS GemUpdateLock, TLC

CONSTANTS
    c1, c2, c3, k1, k2,
    \* those of GemEvent
    Keys, KeyRoom, Places, Buttons, TickMs, Rates, MaxDelay, MaxClicks, WordBase, Waits

VARIABLES scene, gen, latest, answer, due, ev

eventVars == <<gen, latest, answer, due, ev>>

Event == INSTANCE GemEvent
         WITH Channels <- {c1}, MaxGeneration <- 2, nextGen <- latest, Null <- NONE

----------------------------------------------------------------------------
(* The waits of the events scene. *)

Plain(op) == [op |-> op, flags |-> {op}, clicks |-> 0, leave |-> FALSE,
              desired |-> 0, one |-> {}, two |-> {}, timer |-> 0]

Enter == [Plain("MOUSE") EXCEPT !.flags = {"M1"}, !.one = {0}]
Sleep(ms) == [Plain("TIMER") EXCEPT !.timer = ms]
Multi(flags, ms) ==
    [Plain("MULTI") EXCEPT !.flags = flags, !.clicks = 2, !.desired = 1,
                           !.two = {4}, !.timer = ms]

MCWaits == {Plain("KEYBD"), Enter, Sleep(0), Multi({"KEYBD", "M2", "MESAG", "TIMER"}, 4)}
MCRates == <<4, 2>>

----------------------------------------------------------------------------

LockStep(A) == scene = "lock" /\ A /\ UNCHANGED <<scene, eventVars>>
EventStep(A) == scene = "events" /\ A /\ UNCHANGED <<scene, vars>>

MCInit == scene \in {"lock", "events"} /\ Init /\ Event!EventInit

MCNext == LockStep(Next) \/ EventStep(Event!EventNext)

\* The fairness of FairSpec and of EventFairSpec.
MCSpec ==
    /\ MCInit /\ [][MCNext]_<<scene, vars, eventVars>>
    /\ \A c \in Channels : WF_<<scene, vars, eventVars>>(LockStep(HolderGoes(c)))
    /\ WF_<<scene, vars, eventVars>>(EventStep(Event!DuePoll))
    /\ SF_<<scene, vars, eventVars>>(EventStep(Event!Poll(TickMs)))

\* gem_event_dequeue_key: see GemEvent.
KeysInOrder == Event!KeysInOrder

\* gem_event_resident_tick: see GemEvent.
TimersEnd == Event!TimersEnd
=============================================================================
