---------------------------- MODULE GemUpdateLock ----------------------------
(***************************************************************************)
(* The WIND_UPDATE screen lock of the resident AES.                        *)
(*                                                                         *)
(* gem_startup_resident.c owns the lock: one owner channel, a recursion    *)
(* depth per channel and a record that is bound to the generation of the   *)
(* attachment that last called.  gem_aes_resident.c parks a BEG_UPDATE     *)
(* that finds the lock held on a FIFO of channels, and gem_aes_tick.c      *)
(* hands the lock to the oldest waiter when it is released.  Modal forms   *)
(* and GRAF trackers take and release one level without ever waiting.      *)
(*                                                                         *)
(* The module follows one lock through attachments, exits and reuse of the *)
(* channels; the rest of the pending machinery is GemCalls.                *)
(***************************************************************************)
EXTENDS GemFifo

CONSTANTS
    Channels,       \* the AES channels clients can have
    NONE,           \* GEM_STARTUP_OWNER_NONE
    MaxDepth,       \* the largest update_depth, 0xffff in the code
    MaxGeneration,  \* bound on the generations the server hands out
    ExitDrawFails   \* may an exit give up because an alert's background
                    \* cannot be redrawn (GemCalls shows when it can)

ASSUME NoneAssumption == NONE \notin Channels
ASSUME DepthAssumption == MaxDepth \in Nat \ {0}
ASSUME GenerationAssumption == MaxGeneration \in Nat
ASSUME DrawAssumption == ExitDrawFails \in BOOLEAN

VARIABLES
    conn,      \* generation of the connection on each channel, 0 if none
    attached,  \* generation of the attached AES PD, 0 while it is FREE
    bound,     \* generation the startup record is bound to, 0 if FREE
    depth,     \* update_depth of each startup record
    owner,     \* gem_startup_update_owner
    waiters,   \* gem_pending_update_waiters, oldest first
    parked,    \* generation kept in a parked UPDATE request, 0 if none
    modal,     \* channels whose held form or tracker took one level
    nextGen    \* the server's generation counter

vars == <<conn, attached, bound, depth, owner, waiters, parked, modal, nextGen>>

Init ==
    /\ conn = [c \in Channels |-> 0]
    /\ attached = [c \in Channels |-> 0]
    /\ bound = [c \in Channels |-> 0]
    /\ depth = [c \in Channels |-> 0]
    /\ owner = NONE
    /\ waiters = <<>>
    /\ parked = [c \in Channels |-> 0]
    /\ modal = {}
    /\ nextGen = 1

----------------------------------------------------------------------------
(* Helpers *)

\* (Each definition whose comment begins with "Mutant" is the next one with a
\* bug a maintainer could make; the runs show that a property notices it.)

\* A client may call while its socket is open, its PD is the one attached
\* for this very connection, and no earlier call of it is held.
CanCall(c) ==
    /\ conn[c] # 0
    /\ attached[c] = conn[c]
    /\ parked[c] = 0
    /\ c \notin modal

\* gem_startup_bind_pd: a record bound to another generation is taken over,
\* and the lock its old generation abandoned is released.
Bound(c) == [bound EXCEPT ![c] = attached[c]]
DepthOnceBound(c) ==
    IF bound[c] = attached[c] THEN depth ELSE [depth EXCEPT ![c] = 0]
OwnerOnceBound(c) ==
    IF bound[c] # attached[c] /\ owner = c THEN NONE ELSE owner

\* A waiter the pump may serve: its slot still holds the parked call of the
\* generation that is attached now.
Live(c, gen, slot) == slot[c] # 0 /\ slot[c] = gen[c]

\* gem_resident_update_progress, run on the lock state <<o, d, b>>, the
\* attachments gen, the list w and the parked slots p.  Stale heads are
\* dropped and failed; the first live head is granted the lock if it is
\* free (its record is bound by the attempt either way).
UpdateProgress(o, d, b, gen, w, p) ==
    LET stale == CHOOSE n \in 0 .. Len(w) :
                    /\ \A i \in 1 .. n : ~Live(w[i], gen, p)
                    /\ n < Len(w) => Live(w[n + 1], gen, p)
        left == SubSeq(w, stale + 1, Len(w))
        kept == [c \in Channels |->
                    IF \E i \in 1 .. stale : w[i] = c THEN 0 ELSE p[c]]
        head == left[1]
    IN  IF left = <<>>
        THEN /\ owner' = o
             /\ depth' = d
             /\ bound' = b
             /\ waiters' = left
             /\ parked' = kept
        ELSE /\ bound' = [b EXCEPT ![head] = gen[head]]
             /\ IF o = NONE
                THEN /\ owner' = head
                     /\ depth' = [d EXCEPT ![head] = 1]
                     /\ waiters' = Tail(left)
                     /\ parked' = [kept EXCEPT ![head] = 0]
                ELSE /\ owner' = o
                     /\ depth' = d
                     /\ waiters' = left
                     /\ parked' = kept

----------------------------------------------------------------------------
(* Connections and attachments *)

\* The server accepts a client on a free channel under a fresh generation.
Connect(c) ==
    /\ conn[c] = 0
    /\ nextGen <= MaxGeneration
    /\ conn' = [conn EXCEPT ![c] = nextGen]
    /\ nextGen' = nextGen + 1
    /\ UNCHANGED <<attached, bound, depth, owner, waiters, parked, modal>>

\* APPL_INIT attaches only a FREE PD.
ApplInit(c) ==
    /\ conn[c] # 0
    /\ attached[c] = 0
    /\ attached' = [attached EXCEPT ![c] = conn[c]]
    /\ UNCHANGED <<conn, bound, depth, owner, waiters, parked, modal, nextGen>>

----------------------------------------------------------------------------
(* WIND_UPDATE and the other startup calls *)

\* Mutant: the depth check against 0xffff is forgotten.
BeginTakeUncapped(c) ==
    /\ CanCall(c)
    /\ OwnerOnceBound(c) \in {NONE, c}
    /\ owner' = c
    /\ depth' = [DepthOnceBound(c) EXCEPT ![c] = @ + 1]
    /\ bound' = Bound(c)
    /\ UNCHANGED <<conn, attached, waiters, parked, modal, nextGen>>

\* BEG_UPDATE that finds the lock free or its own.
BeginTake(c) ==
    /\ CanCall(c)
    /\ OwnerOnceBound(c) \in {NONE, c}
    /\ DepthOnceBound(c)[c] < MaxDepth
    /\ owner' = c
    /\ depth' = [DepthOnceBound(c) EXCEPT ![c] = @ + 1]
    /\ bound' = Bound(c)
    /\ UNCHANGED <<conn, attached, waiters, parked, modal, nextGen>>

\* BEG_UPDATE at the largest depth answers FALSE.
BeginRefused(c) ==
    /\ CanCall(c)
    /\ OwnerOnceBound(c) \in {NONE, c}
    /\ DepthOnceBound(c)[c] = MaxDepth
    /\ owner' = OwnerOnceBound(c)
    /\ depth' = DepthOnceBound(c)
    /\ bound' = Bound(c)
    /\ UNCHANGED <<conn, attached, waiters, parked, modal, nextGen>>

\* Mutant: the parked call is linked in front of the earlier ones.
BeginParkInFront(c) ==
    /\ CanCall(c)
    /\ OwnerOnceBound(c) \notin {NONE, c}
    /\ owner' = OwnerOnceBound(c)
    /\ depth' = DepthOnceBound(c)
    /\ bound' = Bound(c)
    /\ parked' = [parked EXCEPT ![c] = attached[c]]
    /\ waiters' = <<c>> \o waiters
    /\ UNCHANGED <<conn, attached, modal, nextGen>>

\* BEG_UPDATE while another channel holds the lock: the call is parked with
\* its generation and joins the FIFO.
BeginPark(c) ==
    /\ CanCall(c)
    /\ OwnerOnceBound(c) \notin {NONE, c}
    /\ owner' = OwnerOnceBound(c)
    /\ depth' = DepthOnceBound(c)
    /\ bound' = Bound(c)
    /\ parked' = [parked EXCEPT ![c] = attached[c]]
    /\ waiters' = Append(waiters, c)
    /\ UNCHANGED <<conn, attached, modal, nextGen>>

\* END_UPDATE by a channel that does not hold the lock answers FALSE.  The
\* other startup calls that bind a record (GRAF_HANDLE, GRAF_MOUSE, SHEL_GET)
\* leave the lock the same way.
EndRefused(c) ==
    /\ CanCall(c)
    /\ OwnerOnceBound(c) # c \/ DepthOnceBound(c)[c] = 0
    /\ owner' = OwnerOnceBound(c)
    /\ depth' = DepthOnceBound(c)
    /\ bound' = Bound(c)
    /\ UNCHANGED <<conn, attached, waiters, parked, modal, nextGen>>

\* Mutant: the released lock is not offered to the waiters.
ReleaseWithoutProgress(c) ==
    LET d == [DepthOnceBound(c) EXCEPT ![c] = @ - 1]
    IN  /\ owner' = (IF d[c] = 0 THEN NONE ELSE c)
        /\ depth' = d
        /\ bound' = Bound(c)
        /\ UNCHANGED <<waiters, parked>>

\* One level released by the owner c, then the hand-off.
ReleaseLevel(c) ==
    LET d == [DepthOnceBound(c) EXCEPT ![c] = @ - 1]
    IN  UpdateProgress(IF d[c] = 0 THEN NONE ELSE c, d, Bound(c),
                       attached, waiters, parked)

End(c) ==
    /\ CanCall(c)
    /\ OwnerOnceBound(c) = c
    /\ DepthOnceBound(c)[c] > 0
    /\ ReleaseLevel(c)
    /\ UNCHANGED <<conn, attached, modal, nextGen>>

----------------------------------------------------------------------------
(* Modal forms and GRAF trackers: one level, never parked on the lock *)

ModalBegin(c) ==
    /\ CanCall(c)
    /\ OwnerOnceBound(c) \in {NONE, c}
    /\ DepthOnceBound(c)[c] < MaxDepth
    /\ owner' = c
    /\ depth' = [DepthOnceBound(c) EXCEPT ![c] = @ + 1]
    /\ bound' = Bound(c)
    /\ modal' = modal \cup {c}
    /\ UNCHANGED <<conn, attached, waiters, parked, nextGen>>

\* A form whose begin_update was refused at the largest depth is wound down
\* by gem_resident_form_detach_owner, whose end_update then succeeds.  (When
\* another channel holds the lock, and for a tracker, nothing is released:
\* the step is EndRefused.)
FormRefused(c) ==
    /\ CanCall(c)
    /\ OwnerOnceBound(c) = c
    /\ DepthOnceBound(c)[c] = MaxDepth
    /\ ReleaseLevel(c)
    /\ UNCHANGED <<conn, attached, modal, nextGen>>

\* The form or tracker settles; its held call is answered.
ModalEnd(c) ==
    /\ c \in modal
    /\ attached[c] = conn[c]
    /\ modal' = modal \ {c}
    /\ OwnerOnceBound(c) = c
    /\ ReleaseLevel(c)
    /\ UNCHANGED <<conn, attached, nextGen>>

----------------------------------------------------------------------------
(* Leaving *)

\* Mutant: the exit frees the lock and does not offer it to the waiters.
DetachWithoutProgress(c) ==
    /\ owner' = (IF owner = c THEN NONE ELSE owner)
    /\ depth' = [depth EXCEPT ![c] = 0]
    /\ bound' = [bound EXCEPT ![c] = 0]
    /\ waiters' = Without(waiters, c)
    /\ parked' = [parked EXCEPT ![c] = 0]

\* gem_startup_resident_detach and the hand-off after it, with c's own
\* waiter already swept.  A modal level is released first by the form or
\* tracker detach; since everything of c goes, one hand-off stands for both.
DetachLock(c) ==
    UpdateProgress(IF owner = c /\ bound[c] = attached[c] THEN NONE ELSE owner,
                   IF bound[c] = attached[c]
                       THEN [depth EXCEPT ![c] = 0] ELSE depth,
                   IF bound[c] = attached[c]
                       THEN [bound EXCEPT ![c] = 0] ELSE bound,
                   attached, Without(waiters, c), [parked EXCEPT ![c] = 0])

\* APPL_EXIT: the PD goes, the connection stays and may APPL_INIT again.
ApplExit(c) ==
    /\ CanCall(c)
    /\ DetachLock(c)
    /\ attached' = [attached EXCEPT ![c] = 0]
    /\ UNCHANGED <<conn, modal, nextGen>>

\* The server drops the client (EOF, an early byte, a failed reply) and the
\* AES tears the attachment down, if it is still this connection's.
Hangup(c) ==
    /\ conn[c] # 0
    /\ conn' = [conn EXCEPT ![c] = 0]
    /\ IF attached[c] = conn[c]
       THEN /\ DetachLock(c)
            /\ attached' = [attached EXCEPT ![c] = 0]
       ELSE UNCHANGED <<attached, bound, depth, owner, waiters, parked>>
    /\ modal' = modal \ {c}
    /\ UNCHANGED nextGen

\* The alert of a dying client cannot be wiped off the screen: its level is
\* released, its call is swept, and gem_aes_resident_exit returns before the
\* startup record, the lock or the PD are touched.
HangupAbandoned(c) ==
    /\ ExitDrawFails
    /\ c \in modal
    /\ attached[c] = conn[c]
    /\ conn' = [conn EXCEPT ![c] = 0]
    /\ modal' = modal \ {c}
    /\ OwnerOnceBound(c) = c
    /\ ReleaseLevel(c)
    /\ UNCHANGED <<attached, nextGen>>

----------------------------------------------------------------------------
Next ==
    \E c \in Channels :
        \/ Connect(c)
        \/ ApplInit(c)
        \/ BeginTake(c)
        \/ BeginRefused(c)
        \/ BeginPark(c)
        \/ EndRefused(c)
        \/ End(c)
        \/ ModalBegin(c)
        \/ FormRefused(c)
        \/ ModalEnd(c)
        \/ ApplExit(c)
        \/ Hangup(c)
        \/ HangupAbandoned(c)

Spec == Init /\ [][Next]_vars

\* The one assumption liveness needs is about the clients, not the server: a
\* client that holds the lock lets go of it at the latest by going away.
HolderGoes(c) == owner = c /\ Hangup(c)

FairSpec == Spec /\ \A c \in Channels : WF_vars(HolderGoes(c))

----------------------------------------------------------------------------
(* Properties *)

Generations == 0 .. MaxGeneration

\* Type invariant: generations stay within the bound, depths within a word.
TypeOK ==
    /\ conn \in [Channels -> Generations]
    /\ attached \in [Channels -> Generations]
    /\ bound \in [Channels -> Generations]
    /\ depth \in [Channels -> 0 .. MaxDepth]
    /\ owner \in Channels \cup {NONE}
    /\ waiters \in Seq(Channels)
    /\ parked \in [Channels -> Generations]
    /\ modal \in SUBSET Channels
    /\ nextGen \in 1 .. MaxGeneration + 1

\* The lock belongs to a PD that is attached under the generation its record
\* is bound to, with a positive depth; nobody else has a depth, and no record
\* is left bound to a generation that is gone.  A reused channel can
\* therefore never inherit the lock of its predecessor.
OwnerIsAttached ==
    /\ owner # NONE =>
          /\ attached[owner] # 0
          /\ bound[owner] = attached[owner]
    /\ \A c \in Channels :
          /\ depth[c] > 0 <=> owner = c
          /\ bound[c] # 0 => bound[c] = attached[c]

\* A held form or tracker really holds the lock while it is held.
ModalOwns ==
    \A c \in modal : owner = c /\ parked[c] = 0 /\ attached[c] = conn[c]

\* The FIFO and the parked slots agree: each waiter is listed once, under
\* the generation that is attached and connected now.
WaitersAreParked ==
    /\ NoRepeats(waiters)
    /\ \A c \in Channels :
          parked[c] # 0 <=> Listed(waiters, c)
    /\ \A c \in Channels :
          parked[c] # 0 => parked[c] = attached[c] /\ parked[c] = conn[c]

\* No lost hand-off: while anybody waits, somebody else holds the lock.
NeverIdleWithWaiters ==
    waiters # <<>> =>
        /\ owner # NONE
        /\ \A i \in DOMAIN waiters : waiters[i] # owner

\* The screen lock is sound: it has one attached owner, held forms own it, the
\* line is exactly the parked calls, and it never idles while somebody waits,
\* whatever order of nesting, forms, exits and reuse of channels led here.
LockSafety ==
    OwnerIsAttached /\ ModalOwns /\ WaitersAreParked /\ NeverIdleWithWaiters

\* No barging and no idle moment: parked calls stand in line in order of
\* arrival, a step that frees the lock gives it to the first in line, and
\* clients that leave drop out of the line - whatever the depths, the
\* modal forms, the exits and the reuse of channels do in between.
Promise == INSTANCE ScreenLock
               WITH Clients <- Channels, holder <- owner, line <- waiters

ImplementsScreenLock == Promise!Spec

\* The lock is held by a PD that outlived its connection (HangupAbandoned).
Abandoned == owner # NONE /\ attached[owner] # conn[owner]

\* A parked BEG_UPDATE is answered or swept, whatever the others do, as long
\* as each holder in turn lets go.  The only way to wait for ever is behind
\* a holder the server itself abandoned.
EveryWaiterLeaves ==
    \A c \in Channels : parked[c] # 0 ~> (parked[c] = 0 \/ Abandoned)
=============================================================================
