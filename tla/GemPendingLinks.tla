--------------------------- MODULE GemPendingLinks ---------------------------
(***************************************************************************)
(* The intrusive lists of gem_pending.c.  A slot has one "next" byte, a    *)
(* list has a head and a tail, and both hold channel numbers; channel zero *)
(* is real, so the null link is NoSlot.  A slot can be on one list at a time,*)
(* and it is its callers who see to that: they append only a slot they have*)
(* just parked, or one they have just popped or removed.                   *)
(***************************************************************************)
EXTENDS GemFifo, FiniteSets

CONSTANTS
    Slots,  \* the slots
    Lists,     \* the lists: READY, WIND_UPDATE waiters, readers, writers
    NoSlot       \* GEM_PENDING_NONE

ASSUME NoneIsNoChannel == NoSlot \notin Slots
ASSUME FiniteChannels == IsFiniteSet(Slots)

VARIABLES
    next,    \* the "next" byte of each slot
    head,    \* head of each list
    tail,    \* tail of each list
    popped   \* what the last gem_pending_list_pop returned

linkVars == <<next, head, tail, popped>>

LinksInit ==
    /\ next = [c \in Slots |-> NoSlot]
    /\ head = [l \in Lists |-> NoSlot]
    /\ tail = [l \in Lists |-> NoSlot]
    /\ popped = NoSlot

----------------------------------------------------------------------------
(* Reading a list: the channels met by following the links from its head.  *)
(* The bound on the length only matters for links that would form a cycle. *)

ChainFrom(first, link) ==
    LET met[n \in 1 .. Cardinality(Slots) + 1] ==
            IF n = 1 THEN first
            ELSE IF met[n - 1] = NoSlot THEN NoSlot ELSE link[met[n - 1]]
    IN  [n \in {m \in DOMAIN met : met[m] # NoSlot} |-> met[n]]

Chain(l) == ChainFrom(head[l], next)

OnSomeList(c) == \E l \in Lists : Listed(Chain(l), c)

----------------------------------------------------------------------------
(* Operations *)

\* Mutant: the channel is linked in at the head.
AppendAtHead(l, c) ==
    /\ ~OnSomeList(c)
    /\ next' = [next EXCEPT ![c] = head[l]]
    /\ head' = [head EXCEPT ![l] = c]
    /\ tail' = IF tail[l] = NoSlot THEN [tail EXCEPT ![l] = c] ELSE tail
    /\ UNCHANGED popped

\* gem_pending_list_append
ListAppend(l, c) ==
    /\ ~OnSomeList(c)
    /\ LET cleared == [next EXCEPT ![c] = NoSlot]
       IN  IF tail[l] # NoSlot
           THEN /\ next' = [cleared EXCEPT ![tail[l]] = c]
                /\ UNCHANGED head
           ELSE /\ next' = cleared
                /\ head' = [head EXCEPT ![l] = c]
    /\ tail' = [tail EXCEPT ![l] = c]
    /\ UNCHANGED popped

\* gem_pending_list_pop; an empty list answers NoSlot.
ListPop(l) ==
    /\ popped' = head[l]
    /\ IF head[l] = NoSlot
       THEN UNCHANGED <<next, head, tail>>
       ELSE /\ head' = [head EXCEPT ![l] = next[head[l]]]
            /\ tail' = IF next[head[l]] = NoSlot
                       THEN [tail EXCEPT ![l] = NoSlot] ELSE tail
            /\ next' = [next EXCEPT ![head[l]] = NoSlot]

\* The channel before c on the list, NoSlot when c is its head.
Previous(l, c) ==
    IF head[l] = c THEN NoSlot
    ELSE CHOOSE p \in Slots : Listed(Chain(l), p) /\ next[p] = c

\* Mutant: removing the last channel leaves the tail on it.
RemoveKeepsTail(l, c) ==
    /\ IF ~Listed(Chain(l), c)
       THEN UNCHANGED <<next, head, tail>>
       ELSE LET p == Previous(l, c)
            IN  /\ IF p = NoSlot
                   THEN /\ head' = [head EXCEPT ![l] = next[c]]
                        /\ next' = [next EXCEPT ![c] = NoSlot]
                   ELSE /\ next' = [next EXCEPT ![p] = next[c], ![c] = NoSlot]
                        /\ UNCHANGED head
                /\ UNCHANGED tail
    /\ UNCHANGED popped

\* gem_pending_list_remove, from wherever the channel is on the list; a
\* channel that is not on it is not touched.
ListRemove(l, c) ==
    /\ IF ~Listed(Chain(l), c)
       THEN UNCHANGED <<next, head, tail>>
       ELSE LET p == Previous(l, c)
            IN  /\ IF p = NoSlot
                   THEN /\ head' = [head EXCEPT ![l] = next[c]]
                        /\ next' = [next EXCEPT ![c] = NoSlot]
                   ELSE /\ next' = [next EXCEPT ![p] = next[c], ![c] = NoSlot]
                        /\ UNCHANGED head
                /\ tail' = IF tail[l] = c THEN [tail EXCEPT ![l] = p] ELSE tail
    /\ UNCHANGED popped

\* gem_pending_clear of a slot that has been taken off its list.
SlotClear(c) ==
    /\ ~OnSomeList(c)
    /\ next' = [next EXCEPT ![c] = NoSlot]
    /\ UNCHANGED <<head, tail, popped>>

LinksNext ==
    \/ \E l \in Lists, c \in Slots : ListAppend(l, c)
    \/ \E l \in Lists : ListPop(l)
    \/ \E l \in Lists, c \in Slots : ListRemove(l, c)
    \/ \E c \in Slots : SlotClear(c)

LinksSpec == LinksInit /\ [][LinksNext]_linkVars

----------------------------------------------------------------------------
(* Properties *)

LinksTyped ==
    /\ next \in [Slots -> Slots \cup {NoSlot}]
    /\ head \in [Lists -> Slots \cup {NoSlot}]
    /\ tail \in [Lists -> Slots \cup {NoSlot}]
    /\ popped \in Slots \cup {NoSlot}

\* Links and list ends name channels or nothing.  They never form a cycle or
\* join two lists, the tail is the last channel reached from the head, and a
\* slot on no list has no link left that could drag others along when it is
\* appended again.
WellLinked ==
    /\ LinksTyped
    /\ \A l \in Lists :
          /\ NoRepeats(Chain(l))
          /\ Chain(l) = <<>> => tail[l] = NoSlot
          /\ Chain(l) # <<>> =>
                /\ tail[l] = Chain(l)[Len(Chain(l))]
                /\ next[tail[l]] = NoSlot
    /\ \A l, k \in Lists, c \in Slots :
          Listed(Chain(l), c) /\ Listed(Chain(k), c) => l = k
    /\ \A c \in Slots : ~OnSomeList(c) => next[c] = NoSlot

\* The links implement plain sequences: what follows is the promise of
\* gem_pending.h ("append and remove keep arrival order"), and every
\* operation on the links is that operation on the sequences.
Sequences ==
    INSTANCE GemPendingLists
        WITH Channels <- Slots, NONE <- NoSlot, lists <- [l \in Lists |-> Chain(l)]

ImplementsSequences == Sequences!Spec
=============================================================================
