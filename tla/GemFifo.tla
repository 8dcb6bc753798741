------------------------------- MODULE GemFifo -------------------------------
(***************************************************************************)
(* What a list of parked channels (GEM_PENDING_LIST) stands for: a         *)
(* sequence of channels, oldest first.  Every list of the pending machinery*)
(* - the READY list, the WIND_UPDATE waiters, each PD's readers and writers*)
(* - is one of these; GemPendingLinks shows that the links in the slots    *)
(* implement them.                                                         *)
(***************************************************************************)
EXTENDS Naturals, Sequences

\* A channel is somewhere on the list.
Listed(list, c) == \E i \in DOMAIN list : list[i] = c

\* gem_pending_list_remove: the list without one channel.  The others keep
\* their order of arrival; a channel that is not listed changes nothing.
Without(list, c) ==
    LET at == CHOOSE i \in DOMAIN list : list[i] = c
    IN  IF \E i \in DOMAIN list : list[i] = c
        THEN [i \in 1 .. Len(list) - 1 |->
                 IF i < at THEN list[i] ELSE list[i + 1]]
        ELSE list

\* No channel is listed twice: a channel has one slot and the slot one link.
NoRepeats(list) == \A i, j \in DOMAIN list : list[i] = list[j] => i = j
=============================================================================
