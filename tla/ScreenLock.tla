----------------------------- MODULE ScreenLock -----------------------------
(***************************************************************************)
(* What BEG_UPDATE and END_UPDATE promise the clients: one of them at a    *)
(* time has the screen, those who ask while it is taken stand in line, and *)
(* whoever lets go hands the screen straight to the first in line.  How    *)
(* often the holder nests, generations and exits are the business of the   *)
(* modules that implement this one (GemUpdateLock, GemCalls).              *)
(***************************************************************************)
EXTENDS GemFifo

CONSTANTS Clients, NONE

VARIABLES
    holder,  \* the client that has the screen, or NONE
    line     \* the clients waiting for it, oldest first

Init == holder = NONE /\ line = <<>>

Take(c) ==
    /\ holder = NONE
    /\ line = <<>>
    /\ holder' = c
    /\ UNCHANGED line

Join(c) ==
    /\ holder \notin {NONE, c}
    /\ ~Listed(line, c)
    /\ line' = Append(line, c)
    /\ UNCHANGED holder

Release ==
    /\ holder # NONE
    /\ IF line = <<>>
       THEN holder' = NONE /\ UNCHANGED line
       ELSE holder' = Head(line) /\ line' = Tail(line)

GiveUp(c) ==
    /\ Listed(line, c)
    /\ line' = Without(line, c)
    /\ UNCHANGED holder

Next ==
    \/ \E c \in Clients : Take(c) \/ Join(c) \/ GiveUp(c)
    \/ Release

Spec == Init /\ [][Next]_<<holder, line>>
=============================================================================
