--------------------------- MODULE GemPendingLists ---------------------------
(***************************************************************************)
(* What the pending lists promise: one sequence of channels per list, no   *)
(* channel on two of them, additions at the end, and removals that leave   *)
(* the others in order of arrival.                                         *)
(***************************************************************************)
EXTENDS GemFifo

CONSTANTS Channels, Lists, NONE

VARIABLES lists, popped

Init ==
    /\ lists = [l \in Lists |-> <<>>]
    /\ popped = NONE

Add(l, c) ==
    /\ \A k \in Lists : ~Listed(lists[k], c)
    /\ lists' = [lists EXCEPT ![l] = Append(@, c)]
    /\ UNCHANGED popped

Take(l) ==
    /\ lists[l] # <<>>
    /\ popped' = Head(lists[l])
    /\ lists' = [lists EXCEPT ![l] = Tail(@)]

TakeNothing(l) ==
    /\ lists[l] = <<>>
    /\ popped' = NONE
    /\ UNCHANGED lists

Leave(l, c) ==
    /\ lists' = [lists EXCEPT ![l] = Without(@, c)]
    /\ UNCHANGED popped

Next ==
    \E l \in Lists :
        \/ Take(l)
        \/ TakeNothing(l)
        \/ \E c \in Channels : Add(l, c) \/ Leave(l, c)

Spec == Init /\ [][Next]_<<lists, popped>>
=============================================================================
