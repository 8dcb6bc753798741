------------------------------ MODULE GemModal ------------------------------
(***************************************************************************)
(* What the modal parts of the AES have in common: a client whose call is  *)
(* held until the user settles it, and the level of the screen lock it     *)
(* holds meanwhile (gem_resident_graf_update_owner; GemUpdateLock has the  *)
(* lock in full).                                                          *)
(***************************************************************************)
EXTENDS Integers, FiniteSets

CONSTANTS
    Apps, NoApp, \* the clients; nobody
    MaxCalls     \* bound: the calls the clients make

ASSUME ModalAssumption == NoApp \notin Apps /\ MaxCalls \in Nat

VARIABLES
    live,  \* the attached clients
    lock,  \* the screen lock: its owner and depth
    reply, \* the client's call and, when it is answered, the answer
    calls  \* the number of calls made

modalVars == <<live, lock, reply, calls>>

NoLock == [owner |-> NoApp, depth |-> 0]

Idle == [st |-> "idle", out |-> 0]
Held == [st |-> "held", out |-> 0]
Failed == [st |-> "failed", out |-> 0]
Answer(out) == [st |-> "done", out |-> out]

ModalInit ==
    /\ live = Apps
    /\ lock = NoLock
    /\ reply = [a \in Apps |-> Idle]
    /\ calls = 0

\* BEG_UPDATE is refused while another client holds the screen.
MayTake(a) == lock.owner \in {NoApp, a}
Taken(l, a) == [owner |-> a, depth |-> l.depth + 1]
Given(l, a) ==
    IF l.owner # a THEN l
    ELSE IF l.depth = 1 THEN NoLock ELSE [l EXCEPT !.depth = @ - 1]

Call(a) ==
    /\ a \in live /\ reply[a] = Idle
    /\ calls < MaxCalls /\ calls' = calls + 1

Answered(a, answer) == reply' = [reply EXCEPT ![a] = answer]

\* A call that is answered at once and asks for no lock.
Told(a, answer) == Call(a) /\ Answered(a, answer) /\ UNCHANGED <<live, lock>>

\* BEG_UPDATE and END_UPDATE around something else; a client that has to
\* wait for the lock is left out.
LockTake(a) ==
    /\ Call(a) /\ MayTake(a)
    /\ lock' = Taken(lock, a)
    /\ UNCHANGED <<live, reply>>

LockGive(a) ==
    /\ a \in live /\ reply[a] = Idle /\ lock.owner = a
    /\ lock' = Given(lock, a)
    /\ UNCHANGED <<live, reply, calls>>

\* The client reads its answer.
TakeReply(a) ==
    /\ reply[a].st \notin {"idle", "held"}
    /\ Answered(a, Idle)
    /\ UNCHANGED <<live, lock, calls>>

\* APPL_EXIT or a hang-up: the held call goes without an answer, then the lock.
ModalDetach(a) ==
    /\ a \in live /\ calls < MaxCalls /\ calls' = calls + 1
    /\ live' = live \ {a}
    /\ lock' = IF lock.owner = a THEN NoLock ELSE lock
    /\ Answered(a, Idle)

\* Another program on the channel.
ModalAttach(a) ==
    /\ a \notin live
    /\ live' = live \cup {a}
    /\ UNCHANGED <<lock, reply, calls>>
=============================================================================
