--------------------------- MODULE GemCallsProofs ---------------------------
(***************************************************************************)
(* Proofs about GemCalls: what clients park is safe, the pump runs dry and *)
(* serves in order, and the screen lock is the plain one of ScreenLock.    *)
(*                                                                         *)
(* The inductive invariant IInv says of a state of the resident that it is *)
(* Good: a channel is on just the lists its slot says (Linked), on each    *)
(* once; a parked call has a target (Targeted); calls and targets are of   *)
(* the present PDs (Current); owner, depth and line agree (LockSound).     *)
(* CallSafety counts links with a recursive function; IInv does without,   *)
(* and LinksAre computes the count from it.                                *)
(*                                                                         *)
(* A request handler is a chain of helpers, so most lemmas relate a state  *)
(* s in the middle of a handler to a later one t.  Runs(s, t): parked      *)
(* calls are finished, none is made, nobody overtakes (Ordered), and a     *)
(* queue that changed has been pumped dry (Dry).  Runs is transitive, so   *)
(* the proof of a handler follows its calls.  Deaths free slots as well,   *)
(* and have relations of their own (Swept, Dropped, Ended).  In the middle *)
(* of a completion a channel is Loose: on no list, though its slot says    *)
(* otherwise.  Moved is what every action does to the resident, and from   *)
(* it the properties of steps follow.                                      *)
(*                                                                         *)
(* Loops over channels are recursive functions.  What one turn keeps, all  *)
(* turns keep (Turns, by the least turn that would not).                   *)
(*                                                                         *)
(* All is proved for clients that make no REINIT call: a second APPL_INIT  *)
(* with a bad XBUF detaches the PD and leaves its parked calls behind      *)
(* (gem_aes_resident.c:967), so with it CallSafety does not hold.          *)
(***************************************************************************)
EXTENDS GemCalls, GemPendingLinks, GemFifoProofs, FiniteSetTheorems, SequenceTheorems,
        WellFoundedInduction, TLAPS

----------------------------------------------------------------------------
(* Lists *)

\* The list rest is the list without its head c.
Shorter(list, rest, c) ==
    /\ \A x : Listed(rest, x) <=> x # c /\ Listed(list, x)
    /\ \A a, b : Before(list, a, b) => b # c /\ (a # c => Before(rest, a, b))

\* Without its head a list names the others, in their order.
LEMMA TailListed ==
    ASSUME NEW S, NEW list \in Seq(S), NoRepeats(list), list # <<>>
    PROVE  /\ Head(list) \in S /\ Listed(list, Head(list))
           /\ Tail(list) \in Seq(S) /\ NoRepeats(Tail(list))
           /\ Len(list) \in Nat /\ Len(Tail(list)) = Len(list) - 1
           /\ Shorter(list, Tail(list), Head(list))
<1> DEFINE n == Len(list)
           rest == Tail(list)
           h == Head(list)
<1>1. n \in Nat /\ DOMAIN list = 1 .. n /\ n # 0
  BY LenProperties, EmptySeq
<1>2. h = list[1] /\ 1 \in 1 .. n
  BY <1>1
<1>3. /\ h \in S /\ rest \in Seq(S) /\ Len(rest) = n - 1
      /\ \A i \in 1 .. n - 1 : rest[i] = list[i + 1]
  BY HeadTailProperties
<1>4. DOMAIN rest = 1 .. n - 1
  BY <1>3, LenProperties
<1> HIDE DEF n, rest, h
<1>5. \A i, j \in 1 .. n : list[i] = list[j] => i = j
  BY <1>1 DEF NoRepeats
<1>6. \A i \in 1 .. n - 1 : i + 1 \in 1 .. n /\ i + 1 # 1
  BY <1>1
<1>7. \A i \in 1 .. n : i = 1 \/ (i - 1 \in 1 .. n - 1 /\ rest[i - 1] = list[i])
  BY <1>1, <1>3
<1>8. NoRepeats(rest)
  <2>1. ASSUME NEW i \in 1 .. n - 1, NEW j \in 1 .. n - 1, rest[i] = rest[j]
        PROVE  i = j
    <3>1. list[i + 1] = list[j + 1]
      BY <1>3, <2>1
    <3>2. i + 1 = j + 1
      BY <1>5, <1>6, <3>1
    <3> QED BY <3>2
  <2> QED BY <1>4, <2>1 DEF NoRepeats
<1>9. ASSUME NEW x PROVE Listed(rest, x) <=> x # h /\ Listed(list, x)
  <2>1. ASSUME NEW i \in 1 .. n - 1, rest[i] = x PROVE x # h /\ Listed(list, x)
    <3>1. list[i + 1] = x /\ i + 1 \in 1 .. n /\ i + 1 # 1
      BY <1>3, <1>6, <2>1
    <3> QED BY <1>1, <1>2, <1>5, <3>1 DEF Listed
  <2>2. ASSUME NEW i \in 1 .. n, list[i] = x, x # h PROVE Listed(rest, x)
    BY <1>2, <1>4, <1>7, <2>2 DEF Listed
  <2> QED BY <1>1, <1>4, <2>1, <2>2 DEF Listed
<1>10. ASSUME NEW a, NEW b, Before(list, a, b)
       PROVE  b # h /\ (a # h => Before(rest, a, b))
  <2>1. PICK i \in 1 .. n, j \in 1 .. n : i < j /\ list[i] = a /\ list[j] = b
    BY <1>1, <1>10 DEF Before
  <2>2. j # 1
    BY <2>1
  <2>3. b # h
    BY <1>2, <1>5, <2>1, <2>2
  <2>4. ASSUME a # h PROVE Before(rest, a, b)
    <3>1. i # 1
      BY <1>2, <2>1, <2>4
    <3>2. i - 1 \in 1 .. n - 1 /\ j - 1 \in 1 .. n - 1 /\ i - 1 < j - 1
      BY <1>1, <2>1, <2>2, <3>1
    <3>3. rest[i - 1] = a /\ rest[j - 1] = b
      BY <1>7, <2>1, <2>2, <3>1
    <3> QED BY <1>4, <3>2, <3>3 DEF Before
  <2> QED BY <2>3, <2>4
<1>11. Listed(list, h)
  BY <1>1, <1>2 DEF Listed
<1> QED BY <1>1, <1>3, <1>8, <1>9, <1>10, <1>11 DEF n, rest, h, Shorter

----------------------------------------------------------------------------
(* Turns of a loop *)

\* The recursive function of QueueProgress satisfies its equation.
LEMMA PumpTurns ==
    ASSUME NEW s, NEW t
    PROVE  \E turn :
              /\ turn = [i \in 0 .. ChannelCount |->
                            IF i = 0 THEN s ELSE PumpOnce(turn[i - 1], t)]
              /\ QueueProgress(s, t) = turn[ChannelCount]
<1> DEFINE Is(f, n) == f = [i \in 0 .. n |-> IF i = 0 THEN s ELSE PumpOnce(f[i - 1], t)]
           P == {n \in 0 .. ChannelCount : \E f : Is(f, n)}
<1>1. 0 \in P
  <2>1. Is([i \in 0 .. 0 |-> s], 0)
    OBVIOUS
  <2>2. 0 \in 0 .. ChannelCount
    BY ChannelsAssumption
  <2> HIDE DEF Is
  <2> QED BY <2>1, <2>2
<1>2. ASSUME NEW n \in 1 .. ChannelCount, n - 1 \in P PROVE n \in P
  <2>1. PICK f : Is(f, n - 1)
    BY <1>2
  <2> DEFINE g == [i \in 0 .. n |-> IF i = n THEN PumpOnce(f[n - 1], t) ELSE f[i]]
  <2>2. Is(g, n)
    BY <2>1, ChannelsAssumption
  <2>3. n \in 0 .. ChannelCount
    BY ChannelsAssumption
  <2> HIDE DEF Is, g
  <2> QED BY <2>2, <2>3
<1>3. ChannelCount \in P
  <2> HIDE DEF P
  <2> QED BY <1>1, <1>2, Turns, ChannelsAssumption
<1>4. PICK f : Is(f, ChannelCount)
  BY <1>3
<1>5. QueueProgress(s, t) = (CHOOSE g : Is(g, ChannelCount))[ChannelCount]
  BY DEF QueueProgress, Repeat
<1>6. Is(CHOOSE g : Is(g, ChannelCount), ChannelCount)
  <2> HIDE DEF Is
  <2> QED BY <1>4
<1> QED BY <1>5, <1>6

----------------------------------------------------------------------------
(* The invariant *)

SlotRecords == [state : SlotStates, op : Operations, target : Channels \cup {NONE},
          len : Nat, gen : 0 .. MaxGeneration, tgen : 0 .. MaxGeneration,
          result : {"none", "done", "failed"}]

States == [gen : [Channels -> 0 .. MaxGeneration], queue : [Channels -> 0 .. QueueBytes],
           readers : [Channels -> Seq(Channels)], writers : [Channels -> Seq(Channels)],
           slot : [Channels -> SlotRecords], ready : Seq(Channels),
           owner : Channels \cup {NONE}, depth : 0 .. MaxDepth, line : Seq(Channels)]

Waiting(s, c) == s.slot[c].state = "WAITING"

\* No list names a channel twice.
NobodyTwice(s) ==
    /\ NoRepeats(s.ready) /\ NoRepeats(s.line)
    /\ \A t \in Channels : NoRepeats(s.readers[t]) /\ NoRepeats(s.writers[t])

\* A channel is on just the lists that its slot says.
LinkedAt(s, c) ==
    /\ Listed(s.ready, c) <=> s.slot[c].state = "READY"
    /\ Listed(s.line, c) <=> Parked(s, c, "UPDATE")
    /\ \A t \in Channels :
          /\ Listed(s.readers[t], c) <=> Parked(s, c, "READ") /\ s.slot[c].target = t
          /\ Listed(s.writers[t], c) <=> Parked(s, c, "WRITE") /\ s.slot[c].target = t

Linked(s) == \A c \in Channels : LinkedAt(s, c)

\* A parked call has a target: its own channel, unless it reads or writes.
Targeted(s) ==
    \A c \in Channels : Waiting(s, c) =>
        /\ s.slot[c].op # "none" /\ s.slot[c].target \in Channels
        /\ s.slot[c].op \in {"EVENT", "FORM", "UPDATE"} => s.slot[c].target = c

\* A held call is of the PD attached now, and so is what it is parked for.
Current(s) ==
    \A c \in Channels :
        /\ s.slot[c].state # "FREE" => s.slot[c].gen = s.gen[c] /\ s.gen[c] # 0
        /\ Waiting(s, c) =>
              s.slot[c].tgen = s.gen[s.slot[c].target] /\ s.slot[c].tgen # 0

LockSound(s) ==
    /\ s.owner = NONE <=> s.depth = 0
    /\ s.owner # NONE => s.gen[s.owner] # 0 /\ ~Listed(s.line, s.owner)

Good(s) ==
    NobodyTwice(s) /\ Linked(s) /\ Targeted(s) /\ Current(s) /\ LockSound(s)

FormsHold(s) == \A c \in Channels : Parked(s, c, "FORM") => s.owner = c
NeverIdle(s) == s.owner = NONE => s.line = <<>>

IInv ==
    /\ conn \in [Channels -> 0 .. MaxGeneration]
    /\ nextGen \in 1 .. MaxGeneration + 1
    /\ phase \in {"idle", "poll"}
    /\ aes \in States /\ Good(aes) /\ FormsHold(aes) /\ NeverIdle(aes)
    /\ \A c \in Channels : aes.slot[c].state # "FREE" => conn[c] = aes.gen[c]

\* What completing a call changes.
Completed(s, t, c, r) ==
    /\ t.gen = s.gen /\ t.queue = s.queue
    /\ t.readers = s.readers /\ t.writers = s.writers
    /\ t.owner = s.owner /\ t.depth = s.depth /\ t.line = s.line
    /\ t.ready = Append(s.ready, c)
    /\ t.slot[c].state = "READY" /\ t.slot[c].gen = s.slot[c].gen
    /\ t.slot[c].op = "none" /\ t.slot[c].result = r
    /\ \A x \in Channels : x # c => t.slot[x] = s.slot[x]

\* Complete changes one slot and the READY list.
LEMMA CompleteIs ==
    ASSUME NEW s \in States, NEW c \in Channels, NEW r \in {"done", "failed"},
           NEW t, t = Complete(s, c, r)
    PROVE  t \in States /\ Completed(s, t, c, r)
<1> DEFINE p == Finished(s.slot[c], r)
<1>1. s.slot \in [Channels -> SlotRecords] /\ s.ready \in Seq(Channels) /\ s.slot[c] \in SlotRecords
  BY DEF States
<1>2. p \in SlotRecords /\ p.state = "READY" /\ p.gen = s.slot[c].gen
      /\ p.op = "none" /\ p.result = r
  <2>1. FreeSlot \in SlotRecords /\ FreeSlot.op = "none"
    BY SizesAssumption DEF SlotRecords, SlotStates, Operations, FreeSlot
  <2>2. s.slot[c].gen \in 0 .. MaxGeneration
    BY <1>1 DEF SlotRecords
  <2>3. p = [FreeSlot EXCEPT !.state = "READY", !.gen = s.slot[c].gen, !.result = r]
    BY DEF Finished
  <2> HIDE DEF p
  <2> QED BY <2>1, <2>2, <2>3 DEF SlotRecords, SlotStates
<1> HIDE DEF p
<1>3. t = [s EXCEPT !.slot[c] = p, !.ready = Append(@, c)]
  BY DEF Complete, p
<1>4. Append(s.ready, c) \in Seq(Channels)
  BY <1>1, AppendProperties
<1>5. [s.slot EXCEPT ![c] = p] \in [Channels -> SlotRecords]
  BY <1>1, <1>2
<1>6. t = [s EXCEPT !.slot = [s.slot EXCEPT ![c] = p], !.ready = Append(s.ready, c)]
  BY <1>3 DEF States
<1>7. t \in States
  BY <1>4, <1>5, <1>6 DEF States
<1>8. t.slot = [s.slot EXCEPT ![c] = p] /\ t.ready = Append(s.ready, c)
      /\ t.gen = s.gen /\ t.queue = s.queue
      /\ t.readers = s.readers /\ t.writers = s.writers
      /\ t.owner = s.owner /\ t.depth = s.depth /\ t.line = s.line
  BY <1>6 DEF States
<1> QED BY <1>1, <1>2, <1>7, <1>8 DEF Completed

\* In the middle of a handler one channel may be on no list whatever its slot
\* says; Nowhere and Loose are about that channel.
Nowhere(s, c) ==
    /\ ~Listed(s.ready, c) /\ ~Listed(s.line, c)
    /\ \A t \in Channels : ~Listed(s.readers[t], c) /\ ~Listed(s.writers[t], c)

Loose(s, c) ==
    /\ NobodyTwice(s) /\ Nowhere(s, c)
    /\ \A x \in Channels \ {c} : LinkedAt(s, x)
    /\ Targeted(s) /\ Current(s) /\ LockSound(s)

\* Completing a loose call gives a good state again.
LEMMA LooseCompletes ==
    ASSUME NEW s \in States, NEW c \in Channels, Loose(s, c), s.slot[c].state # "FREE",
           NEW r \in {"done", "failed"}, NEW t, t = Complete(s, c, r)
    PROVE  Good(t)
<1>1. /\ t \in States
      /\ t.gen = s.gen /\ t.queue = s.queue
      /\ t.readers = s.readers /\ t.writers = s.writers
      /\ t.owner = s.owner /\ t.depth = s.depth /\ t.line = s.line
      /\ t.ready = Append(s.ready, c)
      /\ t.slot[c].state = "READY" /\ t.slot[c].gen = s.slot[c].gen
      /\ t.slot[c].op = "none" /\ t.slot[c].result = r
      /\ \A x \in Channels : x # c => t.slot[x] = s.slot[x]
  <2>1. t \in States /\ Completed(s, t, c, r)
    BY CompleteIs
  <2> QED BY <2>1 DEF Completed
<1>2. s.ready \in Seq(Channels) /\ NoRepeats(s.ready) /\ ~Listed(s.ready, c)
  BY DEF States, Loose, NobodyTwice, Nowhere
<1>3. NoRepeats(t.ready) /\ \A x : Listed(t.ready, x) <=> x = c \/ Listed(s.ready, x)
  <2>1. NoRepeats(Append(s.ready, c)) /\ Longer(s.ready, Append(s.ready, c), c)
    BY <1>2, AppendListed
  <2>2. NoRepeats(t.ready) /\ Longer(s.ready, t.ready, c)
    BY <1>1, <2>1
  <2> QED BY <2>2 DEF Longer
<1>4. NobodyTwice(t)
  BY <1>1, <1>3 DEF NobodyTwice, Loose
<1>5. Linked(t)
  <2>1. LinkedAt(t, c)
    BY <1>1, <1>3 DEF LinkedAt, Parked, Loose, Nowhere
  <2>2. ASSUME NEW x \in Channels, x # c PROVE LinkedAt(t, x)
    <3>1. t.slot[x] = s.slot[x] /\ LinkedAt(s, x)
      BY <1>1, <2>2 DEF Loose
    <3>2. Listed(t.ready, x) <=> Listed(s.ready, x)
      BY <1>3, <2>2
    <3> QED BY <1>1, <3>1, <3>2 DEF LinkedAt, Parked
  <2> QED BY <2>1, <2>2 DEF Linked
<1>6. Targeted(t)
  BY <1>1 DEF Targeted, Waiting, Loose
<1>7. Current(t)
  BY <1>1 DEF Current, Waiting, Loose
<1>8. LockSound(t)
  BY <1>1 DEF LockSound, Loose
<1> QED BY <1>4, <1>5, <1>6, <1>7, <1>8 DEF Good

\* A waiting call that is on no list can be completed as it is.
LEMMA UnlistedLoose ==
    ASSUME NEW s \in States, Good(s), NEW c \in Channels, Waiting(s, c),
           s.slot[c].op \in {"EVENT", "FORM"}
    PROVE  Loose(s, c)
<1>1. Nowhere(s, c)
  BY DEF Good, Linked, LinkedAt, Parked, Waiting, Nowhere
<1> QED BY <1>1 DEF Good, Linked, Loose

----------------------------------------------------------------------------
(* What a handler does to the calls that are held *)

\* Inside a handler a call is finished or swept; none is made.
SlotsGo(s, t) ==
    \A c \in Channels :
        \/ t.slot[c] = s.slot[c]
        \/ Waiting(s, c) /\ t.slot[c].state = "READY"
        \/ t.slot[c] = FreeSlot

\* From the list old to the list new nobody overtakes: whoever was behind a
\* channel that waits still is behind it, or was not served.
Fair(old, new, t) ==
    \A a, b \in Channels :
        Before(old, a, b) /\ Waiting(t, a) =>
            IF Waiting(t, b) THEN Before(new, a, b) ELSE t.slot[b].result # "done"

Ordered(s, t) ==
    \A x \in Channels :
        Fair(s.readers[x], t.readers[x], t) /\ Fair(s.writers[x], t.writers[x], t)

\* A list is fair to itself while all on it wait.
LEMMA FairSame ==
    ASSUME NEW list, NEW t, \A b \in Channels : Listed(list, b) => Waiting(t, b)
    PROVE  Fair(list, list, t)
BY DEF Fair, Before, Listed

\* Nobody overtakes in two fair steps, one after the other.
LEMMA FairTrans ==
    ASSUME NEW s, NEW t, NEW u, SlotsGo(t, u),
           NEW old, NEW mid, NEW new, Fair(old, mid, t), Fair(mid, new, u)
    PROVE  Fair(old, new, u)
<1>1. SUFFICES ASSUME NEW a \in Channels, NEW b \in Channels, Before(old, a, b), Waiting(u, a)
               PROVE  IF Waiting(u, b) THEN Before(new, a, b) ELSE u.slot[b].result # "done"
  BY DEF Fair
<1>2. \A c \in Channels : Waiting(u, c) => Waiting(t, c)
  BY DEF SlotsGo, Waiting, FreeSlot
<1>3. CASE Waiting(t, b)
  <2>1. Before(mid, a, b)
    BY <1>1, <1>2, <1>3 DEF Fair
  <2> QED BY <1>1, <2>1 DEF Fair
<1>4. CASE ~Waiting(t, b)
  <2>1. t.slot[b].result # "done"
    BY <1>1, <1>2, <1>4 DEF Fair
  <2>2. u.slot[b] = t.slot[b] \/ u.slot[b] = FreeSlot
    BY <1>4 DEF SlotsGo
  <2>3. u.slot[b].result # "done"
    BY <2>1, <2>2 DEF FreeSlot
  <2> QED BY <1>2, <1>4, <2>3
<1> QED BY <1>3, <1>4

\* The same for all the lists of all queues.
LEMMA OrderedTrans ==
    ASSUME NEW s, NEW t, NEW u, SlotsGo(t, u), Ordered(s, t), Ordered(t, u)
    PROVE  Ordered(s, u)
BY FairTrans DEF Ordered

\* Finished or swept calls stay so.
LEMMA SlotsGoTrans ==
    ASSUME NEW s, NEW t, NEW u, SlotsGo(s, t), SlotsGo(t, u)
    PROVE  SlotsGo(s, u)
<1>1. SUFFICES ASSUME NEW c \in Channels
               PROVE  \/ u.slot[c] = s.slot[c]
                      \/ Waiting(s, c) /\ u.slot[c].state = "READY"
                      \/ u.slot[c] = FreeSlot
  BY DEF SlotsGo
<1>2. /\ \/ t.slot[c] = s.slot[c]
         \/ Waiting(s, c) /\ t.slot[c].state = "READY"
         \/ t.slot[c] = FreeSlot
      /\ \/ u.slot[c] = t.slot[c]
         \/ Waiting(t, c) /\ u.slot[c].state = "READY"
         \/ u.slot[c] = FreeSlot
  BY DEF SlotsGo
<1> QED BY <1>2 DEF Waiting, FreeSlot

\* The pump: only reads and writes are finished, and the lock is left alone.
Pumped(s, t) ==
    /\ t.gen = s.gen /\ t.owner = s.owner /\ t.depth = s.depth /\ t.line = s.line
    /\ \A c \in Channels :
          t.slot[c] = s.slot[c] \/ (/\ Waiting(s, c) /\ s.slot[c].op \in {"READ", "WRITE"}
                                    /\ t.slot[c].state = "READY")
    /\ Ordered(s, t)

\* The pump makes no calls.
LEMMA PumpedSlots ==
    ASSUME NEW s, NEW t, Pumped(s, t)
    PROVE  SlotsGo(s, t)
BY DEF Pumped, SlotsGo

\* A turn of the pump that does nothing.
LEMMA PumpedSame ==
    ASSUME NEW s, Linked(s),
           NEW t, t.gen = s.gen, t.owner = s.owner, t.depth = s.depth,
           t.line = s.line, t.slot = s.slot, t.readers = s.readers, t.writers = s.writers
    PROVE  Pumped(s, t)
<1>1. ASSUME NEW x \in Channels
      PROVE  Fair(s.readers[x], t.readers[x], t) /\ Fair(s.writers[x], t.writers[x], t)
  <2>1. \A b \in Channels : Listed(s.readers[x], b) \/ Listed(s.writers[x], b) => Waiting(t, b)
    BY DEF Linked, LinkedAt, Parked, Waiting
  <2> QED BY <2>1, FairSame
<1>2. Ordered(s, t)
  BY <1>1 DEF Ordered
<1> QED BY <1>2 DEF Pumped

\* The turns of the pump, one after the other.
LEMMA PumpedTrans ==
    ASSUME NEW s, NEW t, NEW u, Pumped(s, t), Pumped(t, u)
    PROVE  Pumped(s, u)
<1>1. SlotsGo(s, t) /\ SlotsGo(t, u)
  BY PumpedSlots
<1>2. Ordered(s, u)
  BY <1>1, OrderedTrans DEF Pumped
<1>3. ASSUME NEW c \in Channels
      PROVE  u.slot[c] = s.slot[c] \/ (/\ Waiting(s, c) /\ s.slot[c].op \in {"READ", "WRITE"}
                                       /\ u.slot[c].state = "READY")
  BY DEF Pumped, Waiting
<1> QED BY <1>2, <1>3 DEF Pumped

----------------------------------------------------------------------------
(* Taking a channel off its list *)

\* The list rest is the list without c, wherever c was on it.
Removed(list, rest, c) ==
    /\ NoRepeats(rest)
    /\ \A x \in Channels : Listed(rest, x) <=> x # c /\ Listed(list, x)
    /\ \A a, b : a # c /\ b # c /\ Before(list, a, b) => Before(rest, a, b)

\* A list without the channel is left alone.
LEMMA RemovedSame ==
    ASSUME NEW list, NoRepeats(list), NEW c, ~Listed(list, c)
    PROVE  Removed(list, list, c)
BY DEF Removed

\* Taking the head is removing it.
LEMMA RemovedTail ==
    ASSUME NEW S, NEW list \in Seq(S), NoRepeats(list), list # <<>>
    PROVE  Removed(list, Tail(list), Head(list))
<1>1. NoRepeats(Tail(list)) /\ Shorter(list, Tail(list), Head(list))
  BY TailListed
<1> QED BY <1>1 DEF Removed, Shorter

\* Without removes its channel.
LEMMA RemovedWithout ==
    ASSUME NEW list \in Seq(Channels), NoRepeats(list), NEW c
    PROVE  Without(list, c) \in Seq(Channels) /\ Removed(list, Without(list, c), c)
<1>1. /\ Without(list, c) \in Seq(Channels) /\ NoRepeats(Without(list, c))
      /\ \A x \in Channels : Listed(Without(list, c), x) <=> x # c /\ Listed(list, x)
  BY WithoutListed
<1>2. \A a, b : a # c /\ b # c /\ Before(list, a, b) => Before(Without(list, c), a, b)
  BY WithoutBefore
<1> QED BY <1>1, <1>2 DEF Removed

\* From s to v nothing happens but that c leaves the lists; the queues and
\* the lock are another matter.
Loosened(s, v, c) ==
    /\ v.gen = s.gen /\ v.slot = s.slot
    /\ Removed(s.ready, v.ready, c) /\ Removed(s.line, v.line, c)
    /\ \A y \in Channels :
          Removed(s.readers[y], v.readers[y], c) /\ Removed(s.writers[y], v.writers[y], c)

\* Whoever is taken off its one list is loose.
LEMMA LoosenedLoose ==
    ASSUME NEW s, Good(s), NEW v, NEW c \in Channels, Loosened(s, v, c), LockSound(v)
    PROVE  Loose(v, c)
<1>1. NobodyTwice(v) /\ Nowhere(v, c)
  BY DEF Loosened, Removed, NobodyTwice, Nowhere
<1>2. ASSUME NEW x \in Channels \ {c} PROVE LinkedAt(v, x)
  <2>1. LinkedAt(s, x)
    BY DEF Good, Linked
  <2>2. /\ Listed(v.ready, x) <=> Listed(s.ready, x)
        /\ Listed(v.line, x) <=> Listed(s.line, x)
        /\ \A y \in Channels : /\ Listed(v.readers[y], x) <=> Listed(s.readers[y], x)
                               /\ Listed(v.writers[y], x) <=> Listed(s.writers[y], x)
    BY <1>2 DEF Loosened, Removed
  <2>3. v.slot = s.slot
    BY DEF Loosened
  <2> QED BY <2>1, <2>2, <2>3 DEF LinkedAt, Parked
<1>3. Targeted(v) /\ Current(v)
  BY DEF Loosened, Good, Targeted, Current, Waiting
<1> QED BY <1>1, <1>2, <1>3 DEF Loose

\* c heads what it is on, or is on none: nobody parked is before it.
First(s, c) ==
    \A y \in Channels, a \in Channels :
        ~Before(s.readers[y], a, c) /\ ~Before(s.writers[y], a, c)

\* Taking c away is fair if c goes unserved or nobody was before it.
LEMMA LoosenedOrdered ==
    ASSUME NEW s, NEW v, NEW c \in Channels, Loosened(s, v, c),
           NEW t, Good(t), t.readers = v.readers, t.writers = v.writers,
           ~Waiting(t, c), t.slot[c].result # "done" \/ First(s, c)
    PROVE  Ordered(s, t)
<1>1. SUFFICES ASSUME NEW y \in Channels, NEW old, NEW new,
                      \/ old = s.readers[y] /\ new = t.readers[y]
                      \/ old = s.writers[y] /\ new = t.writers[y],
                      NEW a \in Channels, NEW b \in Channels, Before(old, a, b), Waiting(t, a)
               PROVE  IF Waiting(t, b) THEN Before(new, a, b) ELSE t.slot[b].result # "done"
  BY DEF Ordered, Fair
<1>2. a # c /\ Removed(old, new, c)
  BY <1>1 DEF Loosened
<1>3. CASE b = c
  BY <1>1, <1>3 DEF First
<1>4. CASE b # c
  <2>1. Before(new, a, b)
    BY <1>1, <1>2, <1>4 DEF Removed
  <2>2. Listed(new, b)
    BY <2>1 DEF Before, Listed
  <2>3. Waiting(t, b)
    BY <1>1, <2>2 DEF Good, Linked, LinkedAt, Parked, Waiting
  <2> QED BY <2>1, <2>3
<1> QED BY <1>3, <1>4

----------------------------------------------------------------------------
(* The pump *)

\* The pump of one queue leaves the other queues and their lists alone.
Elsewhere(s, t, x) ==
    \A y \in Channels \ {x} :
        /\ t.queue[y] = s.queue[y]
        /\ t.readers[y] = s.readers[y] /\ t.writers[y] = s.writers[y]

\* Those parked on the queue of x.
Queued(s, x) ==
    {c \in Channels : Listed(s.readers[x], c) \/ Listed(s.writers[x], c)}

\* Somebody parked on the queue of x is served.
Served(s, t, x) ==
    /\ t \in States /\ Good(t) /\ Pumped(s, t) /\ Elsewhere(s, t, x)
    /\ \E h \in Queued(s, x) : Queued(t, x) = Queued(s, x) \ {h}

\* Serving the first of a list and finishing its call, with all it keeps.
LEMMA ServedFirst ==
    ASSUME NEW s \in States, Good(s), NEW x \in Channels, NEW h \in Queued(s, x), First(s, h),
           NEW v \in States, Loosened(s, v, h), Elsewhere(s, v, x),
           v.owner = s.owner, v.depth = s.depth, v.line = s.line,
           NEW t, t = Complete(v, h, "done")
    PROVE  Served(s, t, x)
<1>1. h \in Channels /\ (Parked(s, h, "READ") \/ Parked(s, h, "WRITE"))
  BY DEF Queued, Good, Linked, LinkedAt
<1>2. v.gen = s.gen /\ v.slot = s.slot
  BY DEF Loosened
<1>3. LockSound(v)
  BY <1>2 DEF Good, LockSound
<1>4. Loose(v, h)
  BY <1>1, <1>3, LoosenedLoose
<1>5. v.slot[h].state # "FREE"
  BY <1>1, <1>2 DEF Parked
<1>6. t \in States /\ Good(t) /\ Completed(v, t, h, "done")
  BY <1>1, <1>4, <1>5, LooseCompletes, CompleteIs
<1>7. /\ t.gen = s.gen /\ t.queue = v.queue /\ t.readers = v.readers /\ t.writers = v.writers
      /\ t.owner = s.owner /\ t.depth = s.depth /\ t.line = s.line
      /\ t.slot[h].state = "READY"
      /\ \A c \in Channels : c # h => t.slot[c] = s.slot[c]
  BY <1>2, <1>6 DEF Completed
<1>8. Pumped(s, t)
  <2>1. Ordered(s, t)
    BY <1>1, <1>6, <1>7, LoosenedOrdered DEF Waiting
  <2>2. Waiting(s, h) /\ s.slot[h].op \in {"READ", "WRITE"}
    BY <1>1 DEF Parked, Waiting
  <2> QED BY <1>7, <2>1, <2>2 DEF Pumped
<1>9. Elsewhere(s, t, x)
  BY <1>7 DEF Elsewhere
<1>10. Queued(t, x) = Queued(s, x) \ {h}
  BY <1>7 DEF Queued, Loosened, Removed
<1> QED BY <1>6, <1>8, <1>9, <1>10 DEF Served

\* What the head of one list is on besides.
LEMMA HeadIsFirst ==
    ASSUME NEW s \in States, Good(s), NEW x \in Channels, NEW h \in Channels,
           \/ s.readers[x] # <<>> /\ h = Head(s.readers[x])
           \/ s.writers[x] # <<>> /\ h = Head(s.writers[x])
    PROVE  h \in Queued(s, x) /\ First(s, h)
<1>1. s.readers \in [Channels -> Seq(Channels)] /\ s.writers \in [Channels -> Seq(Channels)]
  BY DEF States
<1>2. \A y \in Channels : NoRepeats(s.readers[y]) /\ NoRepeats(s.writers[y])
  BY DEF Good, NobodyTwice
<1>3. CASE s.readers[x] # <<>> /\ h = Head(s.readers[x])
  <2>1. Listed(s.readers[x], h) /\ Shorter(s.readers[x], Tail(s.readers[x]), h)
    BY <1>1, <1>2, <1>3, TailListed
  <2>2. Parked(s, h, "READ") /\ s.slot[h].target = x
    BY <2>1 DEF Good, Linked, LinkedAt
  <2>3. \A y \in Channels : ~Listed(s.writers[y], h) /\ (y # x => ~Listed(s.readers[y], h))
    BY <2>2 DEF Good, Linked, LinkedAt, Parked
  <2> QED BY <2>1, <2>3 DEF Queued, First, Shorter, Before, Listed
<1>4. CASE s.writers[x] # <<>> /\ h = Head(s.writers[x])
  <2>1. Listed(s.writers[x], h) /\ Shorter(s.writers[x], Tail(s.writers[x]), h)
    BY <1>1, <1>2, <1>4, TailListed
  <2>2. Parked(s, h, "WRITE") /\ s.slot[h].target = x
    BY <2>1 DEF Good, Linked, LinkedAt
  <2>3. \A y \in Channels : ~Listed(s.readers[y], h) /\ (y # x => ~Listed(s.writers[y], h))
    BY <2>2 DEF Good, Linked, LinkedAt, Parked
  <2> QED BY <2>1, <2>3 DEF Queued, First, Shorter, Before, Listed
<1> QED BY <1>3, <1>4

\* One turn of the pump serves somebody, or nobody can be served.
LEMMA PumpOnceServes ==
    ASSUME NEW s \in States, Good(s), NEW x \in Channels
    PROVE  \/ Served(s, PumpOnce(s, x), x) /\ HeadCanGo(s, x)
           \/ PumpOnce(s, x) = s /\ ~HeadCanGo(s, x)
<1> DEFINE r == Head(s.readers[x])
           w == Head(s.writers[x])
<1>1. /\ s.readers \in [Channels -> Seq(Channels)] /\ s.writers \in [Channels -> Seq(Channels)]
      /\ s.queue \in [Channels -> 0 .. QueueBytes] /\ s.slot \in [Channels -> SlotRecords]
      /\ s.queue[x] \in 0 .. QueueBytes
      /\ s.readers[x] \in Seq(Channels) /\ s.writers[x] \in Seq(Channels)
  BY DEF States
<1>2. /\ NoRepeats(s.ready) /\ NoRepeats(s.line)
      /\ \A y \in Channels : NoRepeats(s.readers[y]) /\ NoRepeats(s.writers[y])
  BY DEF Good, NobodyTwice
<1>3. CASE s.readers[x] # <<>> /\ s.slot[r].len <= s.queue[x]
  <2> DEFINE v == [s EXCEPT !.readers[x] = Tail(s.readers[x]), !.queue[x] = @ - s.slot[r].len]
  <2>1. PumpOnce(s, x) = Complete(v, r, "done")
    BY <1>3 DEF PumpOnce
  <2>2. r \in Channels /\ r \in Queued(s, x) /\ First(s, r)
    <3>1. r \in Channels
      BY <1>1, <1>2, <1>3, TailListed
    <3> QED BY <1>3, <3>1, HeadIsFirst
  <2>3. Parked(s, r, "READ") /\ s.slot[r].target = x
    <3>1. Listed(s.readers[x], r)
      BY <1>1, <1>2, <1>3, TailListed
    <3> QED BY <2>2, <3>1 DEF Good, Linked, LinkedAt
  <2>4. s.queue[x] - s.slot[r].len \in 0 .. QueueBytes
    <3>1. s.slot[r].len \in Nat /\ s.slot[r].len <= s.queue[x]
      BY <1>1, <1>3, <2>2 DEF SlotRecords
    <3> HIDE DEF r
    <3> QED BY <1>1, <3>1, SizesAssumption
  <2>5. Tail(s.readers[x]) \in Seq(Channels)
    BY <1>1, <1>2, <1>3, TailListed
  <2>6. /\ v \in States
        /\ v.gen = s.gen /\ v.slot = s.slot /\ v.writers = s.writers /\ v.ready = s.ready
        /\ v.owner = s.owner /\ v.depth = s.depth /\ v.line = s.line
        /\ v.readers = [s.readers EXCEPT ![x] = Tail(s.readers[x])]
        /\ v.queue = [s.queue EXCEPT ![x] = s.queue[x] - s.slot[r].len]
    <3> HIDE DEF r
    <3>1. v = [s EXCEPT !.readers = [s.readers EXCEPT ![x] = Tail(s.readers[x])],
                        !.queue = [s.queue EXCEPT ![x] = s.queue[x] - s.slot[r].len]]
      BY DEF States
    <3> HIDE DEF v
    <3> QED BY <1>1, <2>4, <2>5, <3>1 DEF States
  <2> HIDE DEF v
  <2>7. Elsewhere(s, v, x)
    BY <1>1, <2>6 DEF Elsewhere
  <2>8. Loosened(s, v, r)
    <3>1. Removed(s.readers[x], v.readers[x], r)
      BY <1>1, <1>2, <1>3, <2>6, RemovedTail
    <3>2. /\ ~Listed(s.ready, r) /\ ~Listed(s.line, r)
          /\ \A y \in Channels : ~Listed(s.writers[y], r) /\ (y # x => ~Listed(s.readers[y], r))
      BY <2>2, <2>3 DEF Good, Linked, LinkedAt, Parked
    <3>3. \A y \in Channels : Removed(s.readers[y], v.readers[y], r)
      BY <1>1, <1>2, <2>6, <3>1, <3>2, RemovedSame
    <3> HIDE DEF r
    <3> QED BY <1>2, <2>6, <3>2, <3>3, RemovedSame DEF Loosened
  <2>9. Served(s, PumpOnce(s, x), x)
    BY <2>1, <2>2, <2>6, <2>7, <2>8, ServedFirst
  <2> QED BY <1>3, <2>9 DEF HeadCanGo
<1>4. CASE /\ ~(s.readers[x] # <<>> /\ s.slot[r].len <= s.queue[x])
           /\ s.writers[x] # <<>> /\ s.slot[w].len <= QueueBytes - s.queue[x]
  <2> DEFINE v == [s EXCEPT !.writers[x] = Tail(s.writers[x]), !.queue[x] = @ + s.slot[w].len]
  <2>1. PumpOnce(s, x) = Complete(v, w, "done")
    BY <1>4 DEF PumpOnce
  <2>2. w \in Channels /\ w \in Queued(s, x) /\ First(s, w)
    <3>1. w \in Channels
      BY <1>1, <1>2, <1>4, TailListed
    <3> QED BY <1>4, <3>1, HeadIsFirst
  <2>3. Parked(s, w, "WRITE") /\ s.slot[w].target = x
    <3>1. Listed(s.writers[x], w)
      BY <1>1, <1>2, <1>4, TailListed
    <3> QED BY <2>2, <3>1 DEF Good, Linked, LinkedAt
  <2>4. s.queue[x] + s.slot[w].len \in 0 .. QueueBytes
    <3>1. s.slot[w].len \in Nat /\ s.slot[w].len <= QueueBytes - s.queue[x]
      BY <1>1, <1>4, <2>2 DEF SlotRecords
    <3>2. PICK q \in 0 .. QueueBytes, l \in Nat : q = s.queue[x] /\ l = s.slot[w].len
      BY <1>1, <3>1
    <3>3. q + l \in 0 .. QueueBytes
      BY <1>4, <3>2, SizesAssumption
    <3> QED BY <3>2, <3>3
  <2>5. Tail(s.writers[x]) \in Seq(Channels)
    BY <1>1, <1>2, <1>4, TailListed
  <2>6. /\ v \in States
        /\ v.gen = s.gen /\ v.slot = s.slot /\ v.readers = s.readers /\ v.ready = s.ready
        /\ v.owner = s.owner /\ v.depth = s.depth /\ v.line = s.line
        /\ v.writers = [s.writers EXCEPT ![x] = Tail(s.writers[x])]
        /\ v.queue = [s.queue EXCEPT ![x] = s.queue[x] + s.slot[w].len]
    <3> HIDE DEF w
    <3>1. v = [s EXCEPT !.writers = [s.writers EXCEPT ![x] = Tail(s.writers[x])],
                        !.queue = [s.queue EXCEPT ![x] = s.queue[x] + s.slot[w].len]]
      BY DEF States
    <3> HIDE DEF v
    <3> QED BY <1>1, <2>4, <2>5, <3>1 DEF States
  <2> HIDE DEF v
  <2>7. Elsewhere(s, v, x)
    BY <1>1, <2>6 DEF Elsewhere
  <2>8. Loosened(s, v, w)
    <3>1. Removed(s.writers[x], v.writers[x], w)
      BY <1>1, <1>2, <1>4, <2>6, RemovedTail
    <3>2. /\ ~Listed(s.ready, w) /\ ~Listed(s.line, w)
          /\ \A y \in Channels : ~Listed(s.readers[y], w) /\ (y # x => ~Listed(s.writers[y], w))
      BY <2>2, <2>3 DEF Good, Linked, LinkedAt, Parked
    <3>3. \A y \in Channels : Removed(s.writers[y], v.writers[y], w)
      BY <1>1, <1>2, <2>6, <3>1, <3>2, RemovedSame
    <3> HIDE DEF w
    <3> QED BY <1>2, <2>6, <3>2, <3>3, RemovedSame DEF Loosened
  <2>9. Served(s, PumpOnce(s, x), x)
    BY <2>1, <2>2, <2>6, <2>7, <2>8, ServedFirst
  <2> QED BY <1>4, <2>9 DEF HeadCanGo
<1>5. CASE /\ ~(s.readers[x] # <<>> /\ s.slot[r].len <= s.queue[x])
           /\ ~(s.writers[x] # <<>> /\ s.slot[w].len <= QueueBytes - s.queue[x])
  BY <1>5 DEF PumpOnce, HeadCanGo
<1> QED BY <1>3, <1>4, <1>5

\* Dry: where the queue or its lists are not as they were, the pump has run
\* until nobody could go on.
Dry(s, t) ==
    \A x \in Channels :
        \/ /\ t.queue[x] = s.queue[x]
           /\ t.readers[x] = s.readers[x] /\ t.writers[x] = s.writers[x]
        \/ ~HeadCanGo(t, x)

\* gem_resident_queue_progress serves as many as are parked if it must, so
\* its cap of one pass per channel is enough to run dry.
LEMMA QueueProgressRunsDry ==
    ASSUME NEW s \in States, Good(s), NEW x \in Channels
    PROVE  LET t == QueueProgress(s, x)
           IN  /\ t \in States /\ Good(t) /\ Pumped(s, t) /\ Elsewhere(s, t, x)
               /\ ~HeadCanGo(t, x)
<1>1. PICK turn :
         /\ turn = [i \in 0 .. ChannelCount |->
                       IF i = 0 THEN s ELSE PumpOnce(turn[i - 1], x)]
         /\ QueueProgress(s, x) = turn[ChannelCount]
  BY PumpTurns
<1>2. turn[0] = s /\ \A i \in 1 .. ChannelCount : turn[i] = PumpOnce(turn[i - 1], x)
  BY <1>1, ChannelsAssumption
<1> DEFINE Fits(i) ==
              /\ turn[i] \in States /\ Good(turn[i]) /\ Pumped(s, turn[i]) /\ Elsewhere(s, turn[i], x)
              /\ \/ ~HeadCanGo(turn[i], x)
                 \/ Cardinality(Queued(turn[i], x)) + i <= ChannelCount
           P == {i \in 0 .. ChannelCount : Fits(i)}
<1>3. \A u : IsFiniteSet(Queued(u, x)) /\ Cardinality(Queued(u, x)) \in Nat
             /\ Cardinality(Queued(u, x)) <= ChannelCount
  <2>1. /\ IsFiniteSet(0 .. ChannelCount - 1) /\ Cardinality(0 .. ChannelCount - 1) = ChannelCount
    <3>1. ChannelCount - 1 \in Int /\ 0 \in Int /\ ChannelCount \in Nat
      BY ChannelsAssumption
    <3> QED BY <3>1, FS_Interval
  <2>2. \A u : Queued(u, x) \in SUBSET (0 .. ChannelCount - 1)
    BY ChannelsAssumption DEF Queued
  <2> QED BY <2>1, <2>2, FS_Subset, FS_CardinalityType
<1>4. 0 \in P
  <2>1. Pumped(s, s)
    BY PumpedSame DEF Good
  <2>2. Elsewhere(s, s, x)
    BY DEF Elsewhere
  <2>3. Cardinality(Queued(s, x)) + 0 <= ChannelCount
    BY <1>3
  <2> QED BY <1>2, <2>1, <2>2, <2>3, ChannelsAssumption
<1>5. ASSUME NEW i \in 1 .. ChannelCount, i - 1 \in P PROVE i \in P
  <2> DEFINE u == turn[i - 1]
             v == turn[i]
  <2>1. /\ u \in States /\ Good(u) /\ Pumped(s, u) /\ Elsewhere(s, u, x)
        /\ ~HeadCanGo(u, x) \/ Cardinality(Queued(u, x)) + (i - 1) <= ChannelCount
    BY <1>5
  <2>2. v = PumpOnce(u, x)
    BY <1>2
  <2>3. i \in 0 .. ChannelCount
    BY ChannelsAssumption
  <2> HIDE DEF u, v
  <2>4. (Served(u, v, x) /\ HeadCanGo(u, x)) \/ (v = u /\ ~HeadCanGo(u, x))
    BY <2>1, <2>2, PumpOnceServes
  <2>5. CASE v = u /\ ~HeadCanGo(u, x)
    BY <2>1, <2>3, <2>5 DEF u, v
  <2>6. CASE Served(u, v, x) /\ HeadCanGo(u, x)
    <3>1. PICK h \in Queued(u, x) : Queued(v, x) = Queued(u, x) \ {h}
      BY <2>6 DEF Served
    <3>2. Cardinality(Queued(v, x)) = Cardinality(Queued(u, x)) - 1
      BY <1>3, <3>1, FS_RemoveElement
    <3>4. Cardinality(Queued(v, x)) + i <= ChannelCount
      BY <1>3, <2>1, <2>6, <3>2, ChannelsAssumption
    <3>5. Pumped(s, v) /\ Elsewhere(s, v, x)
      <4>1. Pumped(u, v) /\ Elsewhere(u, v, x)
        BY <2>6 DEF Served
      <4>2. Pumped(s, v)
        BY <2>1, <4>1, PumpedTrans
      <4> QED BY <2>1, <4>1, <4>2 DEF Elsewhere
    <3>6. v \in States /\ Good(v)
      BY <2>6 DEF Served
    <3> QED BY <2>3, <3>4, <3>5, <3>6 DEF v
  <2> QED BY <2>4, <2>5, <2>6
<1>6. ChannelCount \in P
  <2> HIDE DEF P
  <2> QED BY <1>4, <1>5, Turns, ChannelsAssumption
<1>7. ASSUME HeadCanGo(turn[ChannelCount], x) PROVE FALSE
  <2> DEFINE u == turn[ChannelCount]
  <2>1. Cardinality(Queued(u, x)) = 0
    BY <1>3, <1>6, <1>7, ChannelsAssumption
  <2>2. Queued(u, x) = {}
    BY <1>3, <2>1, FS_EmptySet
  <2>3. \/ u.readers[x] # <<>> /\ Head(u.readers[x]) \in Channels
        \/ u.writers[x] # <<>> /\ Head(u.writers[x]) \in Channels
    <3>1. u.readers[x] \in Seq(Channels) /\ u.writers[x] \in Seq(Channels)
      BY <1>6 DEF States
    <3> QED BY <1>7, <3>1, HeadTailProperties DEF HeadCanGo
  <2>4. u \in States /\ Good(u)
    BY <1>6
  <2> HIDE DEF u
  <2> QED BY <2>2, <2>3, <2>4, HeadIsFirst
<1> QED BY <1>1, <1>6, <1>7

\* Heads that could not go on still cannot while their queue and lists stay.
LEMMA StillStuck ==
    ASSUME NEW s, NEW t \in States, Good(t), SlotsGo(s, t), NEW x \in Channels,
           t.queue[x] = s.queue[x], t.readers[x] = s.readers[x], t.writers[x] = s.writers[x],
           ~HeadCanGo(s, x)
    PROVE  ~HeadCanGo(t, x)
<1>1. t.readers[x] \in Seq(Channels) /\ t.writers[x] \in Seq(Channels)
      /\ NoRepeats(t.readers[x]) /\ NoRepeats(t.writers[x])
  BY DEF States, Good, NobodyTwice
<1>2. ASSUME NEW list \in {t.readers[x], t.writers[x]}, list # <<>>
      PROVE  t.slot[Head(list)] = s.slot[Head(list)]
  <2>1. Head(list) \in Channels /\ Listed(list, Head(list))
    BY <1>1, <1>2, TailListed
  <2>2. Waiting(t, Head(list))
    BY <2>1 DEF Good, Linked, LinkedAt, Parked, Waiting
  <2> QED BY <2>1, <2>2 DEF SlotsGo, Waiting, FreeSlot
<1> QED BY <1>2 DEF HeadCanGo

\* Queues that were pumped dry stay dry in later pieces of a handler.
LEMMA DryTrans ==
    ASSUME NEW s, NEW t, NEW u \in States, Good(u), SlotsGo(t, u), Dry(s, t), Dry(t, u)
    PROVE  Dry(s, u)
<1>1. SUFFICES ASSUME NEW x \in Channels, HeadCanGo(u, x)
               PROVE  /\ u.queue[x] = s.queue[x]
                      /\ u.readers[x] = s.readers[x] /\ u.writers[x] = s.writers[x]
  BY DEF Dry
<1>2. /\ u.queue[x] = t.queue[x]
      /\ u.readers[x] = t.readers[x] /\ u.writers[x] = t.writers[x]
  BY <1>1 DEF Dry
<1>3. HeadCanGo(t, x)
  BY <1>1, <1>2, StillStuck
<1> QED BY <1>2, <1>3 DEF Dry

\* The recursive function of Deliver satisfies its equation.
LEMMA DeliverTurns ==
    ASSUME NEW s, NEW pds
    PROVE  LET filled == [s EXCEPT !.queue =
                             [d \in Channels |->
                                 IF d \in pds THEN @[d] + MessageBytes ELSE @[d]]]
           IN  \E after :
                  /\ after = [n \in 0 .. ChannelCount |->
                        IF n = 0 THEN filled
                        ELSE IF n - 1 \in Channels
                        THEN IF n - 1 \in pds THEN QueueProgress(after[n - 1], n - 1)
                             ELSE after[n - 1]
                        ELSE after[n - 1]]
                  /\ Deliver(s, pds) = after[ChannelCount]
<1> DEFINE filled == [s EXCEPT !.queue =
                         [d \in Channels |->
                             IF d \in pds THEN @[d] + MessageBytes ELSE @[d]]]
           Turn(f, n) == IF n = 0 THEN filled
                         ELSE IF n - 1 \in Channels
                         THEN IF n - 1 \in pds THEN QueueProgress(f[n - 1], n - 1)
                              ELSE f[n - 1]
                         ELSE f[n - 1]
           Is(f, m) == f = [n \in 0 .. m |-> Turn(f, n)]
           P == {m \in 0 .. ChannelCount : \E f : Is(f, m)}
<1>1. 0 \in P
  <2>1. Is([n \in 0 .. 0 |-> filled], 0)
    OBVIOUS
  <2>2. 0 \in 0 .. ChannelCount
    BY ChannelsAssumption
  <2> HIDE DEF Is
  <2> QED BY <2>1, <2>2
<1>2. ASSUME NEW m \in 1 .. ChannelCount, m - 1 \in P PROVE m \in P
  <2>1. PICK f : Is(f, m - 1)
    BY <1>2
  <2> DEFINE g == [n \in 0 .. m |-> IF n = m THEN Turn(f, m) ELSE f[n]]
  <2>2. Is(g, m)
    <3> HIDE DEF filled
    <3> QED BY <2>1, ChannelsAssumption
  <2>3. m \in 0 .. ChannelCount
    BY ChannelsAssumption
  <2> HIDE DEF Is, g
  <2> QED BY <2>2, <2>3
<1>3. ChannelCount \in P
  <2> HIDE DEF P
  <2> QED BY <1>1, <1>2, Turns, ChannelsAssumption
<1>4. PICK f : Is(f, ChannelCount)
  BY <1>3
<1>5. Deliver(s, pds) = (CHOOSE g : Is(g, ChannelCount))[ChannelCount]
  BY DEF Deliver, ForEachChannel
<1>6. Is(CHOOSE g : Is(g, ChannelCount), ChannelCount)
  <2> HIDE DEF Is
  <2> QED BY <1>4
<1> QED BY <1>5, <1>6

\* gem_resident_window_apply_effects: every queue it fills runs dry, and what
\* one pump leaves stuck the next ones do not free.
LEMMA DeliverRunsDry ==
    ASSUME NEW s \in States, Good(s), NEW pds \in SUBSET Channels, RoomFor(s, pds)
    PROVE  LET t == Deliver(s, pds)
           IN  t \in States /\ Good(t) /\ Pumped(s, t) /\ Dry(s, t)
<1> DEFINE queues == [d \in Channels |->
                         IF d \in pds THEN s.queue[d] + MessageBytes ELSE s.queue[d]]
<1>1. PICK filled : filled = [s EXCEPT !.queue = queues]
  OBVIOUS
<1>2. PICK after :
         /\ after = [n \in 0 .. ChannelCount |->
               IF n = 0 THEN filled
               ELSE IF n - 1 \in Channels
               THEN IF n - 1 \in pds THEN QueueProgress(after[n - 1], n - 1) ELSE after[n - 1]
               ELSE after[n - 1]]
         /\ Deliver(s, pds) = after[ChannelCount]
  BY <1>1, DeliverTurns
<1>3. queues \in [Channels -> 0 .. QueueBytes]
  <2>1. ASSUME NEW d \in Channels
        PROVE  (IF d \in pds THEN s.queue[d] + MessageBytes ELSE s.queue[d]) \in 0 .. QueueBytes
    <3>1. PICK q \in 0 .. QueueBytes : q = s.queue[d]
      BY DEF States
    <3>2. d \in pds => MessageBytes <= QueueBytes - q
      BY <3>1 DEF RoomFor
    <3>3. d \in pds => q + MessageBytes \in 0 .. QueueBytes
      BY <3>2, SizesAssumption
    <3> QED BY <3>1, <3>3
  <2> QED BY <2>1
<1>4. /\ filled \in States
      /\ filled.gen = s.gen /\ filled.owner = s.owner /\ filled.depth = s.depth
      /\ filled.line = s.line /\ filled.slot = s.slot /\ filled.ready = s.ready
      /\ filled.readers = s.readers /\ filled.writers = s.writers
      /\ \A d \in Channels \ pds : filled.queue[d] = s.queue[d]
  <2>1. filled.queue = queues
    BY <1>1 DEF States
  <2>2. \A d \in Channels \ pds : filled.queue[d] = s.queue[d]
    BY <2>1
  <2> HIDE DEF queues
  <2> QED BY <1>1, <1>3, <2>2 DEF States
<1> HIDE DEF queues
<1>5. Good(filled)
  BY <1>4 DEF Good, NobodyTwice, Linked, LinkedAt, Parked, Targeted, Current, LockSound, Waiting
<1>6. Pumped(s, filled)
  BY <1>4, PumpedSame DEF Good
<1> DEFINE Same(u, d) == /\ u.queue[d] = filled.queue[d]
                         /\ u.readers[d] = filled.readers[d] /\ u.writers[d] = filled.writers[d]
           Done(u, n) ==
              /\ u \in States /\ Good(u) /\ Pumped(s, u)
              /\ \A d \in Channels :
                    IF d \in pds /\ d < n THEN ~HeadCanGo(u, d) ELSE Same(u, d)
           P == {n \in 0 .. ChannelCount : Done(after[n], n)}
<1>7. 0 \in P
  <2>1. after[0] = filled
    BY <1>2, ChannelsAssumption
  <2>2. \A d \in Channels : ~(d < 0)
    BY ChannelsAssumption
  <2>3. 0 \in 0 .. ChannelCount
    BY ChannelsAssumption
  <2> QED BY <1>4, <1>5, <1>6, <2>1, <2>2, <2>3
<1>8. ASSUME NEW n \in 1 .. ChannelCount, n - 1 \in P PROVE n \in P
  <2>1. PICK u, v, x : u = after[n - 1] /\ v = after[n] /\ x = n - 1
    OBVIOUS
  <2>2. Done(u, x)
    BY <1>8, <2>1
  <2>3. v = IF x \in Channels
            THEN IF x \in pds THEN QueueProgress(u, x) ELSE u
            ELSE u
    BY <1>2, <2>1, ChannelsAssumption
  <2>4. \A d \in Channels : d < n <=> d < x \/ d = x
    BY <2>1, ChannelsAssumption
  <2>5. n \in 0 .. ChannelCount
    BY ChannelsAssumption
  <2>6. CASE x \in pds
    <3>1. /\ v \in States /\ Good(v) /\ Pumped(u, v) /\ Elsewhere(u, v, x)
          /\ ~HeadCanGo(v, x)
      BY <2>2, <2>3, <2>6, QueueProgressRunsDry
    <3>2. Pumped(s, v)
      BY <2>2, <3>1, PumpedTrans
    <3>3. ASSUME NEW d \in Channels
          PROVE  IF d \in pds /\ d < n THEN ~HeadCanGo(v, d) ELSE Same(v, d)
      <4>1. CASE d = x
        BY <2>4, <2>6, <3>1, <4>1
      <4>2. CASE d # x
        <5>1. v.queue[d] = u.queue[d] /\ v.readers[d] = u.readers[d] /\ v.writers[d] = u.writers[d]
          BY <3>1, <4>2 DEF Elsewhere
        <5>2. ~HeadCanGo(u, d) => ~HeadCanGo(v, d)
          BY <3>1, <5>1, PumpedSlots, StillStuck
        <5> QED BY <2>2, <2>4, <4>2, <5>1, <5>2
      <4> QED BY <4>1, <4>2
    <3> QED BY <2>1, <2>5, <3>1, <3>2, <3>3
  <2>7. CASE x \notin pds
    <3>1. v = u
      BY <2>3, <2>7
    <3>2. \A d \in Channels : d \in pds /\ d < n <=> d \in pds /\ d < x
      BY <2>4, <2>7
    <3>3. Done(v, n)
      BY <2>2, <3>1, <3>2
    <3> QED BY <2>1, <2>5, <3>3
  <2> QED BY <2>6, <2>7
<1>9. ChannelCount \in P
  <2> HIDE DEF P
  <2> QED BY <1>7, <1>8, Turns, ChannelsAssumption
<1>10. \A d \in Channels : d < ChannelCount
  BY ChannelsAssumption
<1>11. Dry(s, after[ChannelCount])
  BY <1>4, <1>9, <1>10 DEF Dry
<1> QED BY <1>2, <1>9, <1>11

\* What a burst of messages does, delivered or refused.
LEMMA PostRunsDry ==
    ASSUME NEW s \in States, Good(s), NEW pds \in SUBSET Channels
    PROVE  LET t == Post(s, pds)
           IN  t \in States /\ Good(t) /\ Pumped(s, t) /\ Dry(s, t)
<1>1. Pumped(s, s)
  BY PumpedSame DEF Good
<1>2. Dry(s, s)
  BY DEF Dry
<1> QED BY <1>1, <1>2, DeliverRunsDry DEF Post

----------------------------------------------------------------------------
(* Handlers *)

\* What every piece of a handler does short of a death: attached PDs stay,
\* some parked calls are finished, nobody overtakes and the pump runs dry.
Runs(s, t) ==
    /\ t.gen = s.gen
    /\ \A c \in Channels :
          t.slot[c] = s.slot[c] \/ (Waiting(s, c) /\ t.slot[c].state = "READY")
    /\ Ordered(s, t) /\ Dry(s, t)

LockSame(s, t) == t.owner = s.owner /\ t.depth = s.depth /\ t.line = s.line

\* A handler that lets nobody die only finishes calls.
LEMMA RunsSlotsGo ==
    ASSUME NEW s, NEW t, Runs(s, t)
    PROVE  SlotsGo(s, t)
BY DEF Runs, SlotsGo

\* Pieces of a handler, one after the other.
LEMMA RunsTrans ==
    ASSUME NEW s, NEW t, NEW u \in States, Good(u), Runs(s, t), Runs(t, u)
    PROVE  Runs(s, u)
<1>1. SlotsGo(t, u)
  BY RunsSlotsGo
<1>2. Ordered(s, u) /\ Dry(s, u)
  BY <1>1, OrderedTrans, DryTrans DEF Runs
<1>3. \A c \in Channels :
         u.slot[c] = s.slot[c] \/ (Waiting(s, c) /\ u.slot[c].state = "READY")
  BY DEF Runs, Waiting
<1> QED BY <1>2, <1>3 DEF Runs

\* The pump is such a piece, and it leaves the lock alone.
LEMMA PumpedRuns ==
    ASSUME NEW s, NEW t, Pumped(s, t), Dry(s, t)
    PROVE  Runs(s, t) /\ LockSame(s, t)
BY DEF Pumped, Runs, LockSame

\* Calls that stay, or are finished, without a queue or its lists changing.
LEMMA QuietRuns ==
    ASSUME NEW s, NEW t, Good(t), t.gen = s.gen,
           t.queue = s.queue, t.readers = s.readers, t.writers = s.writers,
           \A c \in Channels :
              t.slot[c] = s.slot[c] \/ (Waiting(s, c) /\ t.slot[c].state = "READY")
    PROVE  Runs(s, t)
<1>1. Dry(s, t)
  BY DEF Dry
<1>2. \A x \in Channels : Fair(s.readers[x], t.readers[x], t) /\ Fair(s.writers[x], t.writers[x], t)
  <2>1. \A x, b \in Channels : Listed(t.readers[x], b) \/ Listed(t.writers[x], b) => Waiting(t, b)
    BY DEF Good, Linked, LinkedAt, Parked, Waiting
  <2> QED BY <2>1, FairSame
<1> QED BY <1>1, <1>2 DEF Runs, Ordered

\* An event wait or a form that is answered.
LEMMA AnswerRuns ==
    ASSUME NEW s \in States, Good(s), NEW c \in Channels, Waiting(s, c),
           s.slot[c].op \in {"EVENT", "FORM"}, NEW r \in {"done", "failed"},
           NEW t, t = Complete(s, c, r)
    PROVE  /\ t \in States /\ Good(t) /\ Runs(s, t) /\ LockSame(s, t)
           /\ t.slot[c].state = "READY"
           /\ t.queue = s.queue /\ \A x \in Channels \ {c} : t.slot[x] = s.slot[x]
<1>1. Loose(s, c)
  BY UnlistedLoose
<1>2. t \in States /\ Good(t) /\ Completed(s, t, c, r)
  BY <1>1, LooseCompletes, CompleteIs DEF Waiting
<1> QED BY <1>2, QuietRuns DEF Completed, LockSame

----------------------------------------------------------------------------
(* The update lock *)

\* The lock is let go and goes to the first in line.
Hands(s, t) ==
    /\ s.owner # NONE
    /\ IF s.line = <<>> THEN t.owner = NONE /\ t.line = s.line
       ELSE t.owner = Head(s.line) /\ t.line = Tail(s.line)

\* Who waits in line is a live waiter, so no head is ever dropped as stale.
LEMMA NoHeadIsStale ==
    ASSUME NEW s \in States, Good(s)
    PROVE  Repeat(DropStaleHead, s, ChannelCount) = s
<1>1. DropStaleHead(s) = s
  <2>1. CASE s.line = <<>>
    BY <2>1 DEF DropStaleHead
  <2>2. CASE s.line # <<>>
    <3>1. Head(s.line) \in Channels /\ Listed(s.line, Head(s.line))
      BY <2>2, TailListed DEF States, Good, NobodyTwice
    <3>2. LiveWaiter(s, Head(s.line))
      BY <3>1 DEF Good, Linked, LinkedAt, Current, Parked, LiveWaiter
    <3> QED BY <3>2 DEF DropStaleHead
  <2> QED BY <2>1, <2>2
<1> DEFINE Is(f) == f = [i \in 0 .. ChannelCount |-> IF i = 0 THEN s ELSE DropStaleHead(f[i - 1])]
<1>2. Is([i \in 0 .. ChannelCount |-> s])
  <2>1. \A i \in 0 .. ChannelCount : i # 0 => i - 1 \in 0 .. ChannelCount
    BY ChannelsAssumption
  <2> QED BY <1>1, <2>1
<1>3. PICK f : f = CHOOSE g : Is(g)
  OBVIOUS
<1>4. Repeat(DropStaleHead, s, ChannelCount) = f[ChannelCount]
  BY <1>3 DEF Repeat
<1>5. Is(f)
  <2> HIDE DEF Is
  <2> QED BY <1>2, <1>3
<1> DEFINE P == {i \in 0 .. ChannelCount : f[i] = s}
<1>6. 0 \in P
  BY <1>5, ChannelsAssumption
<1>7. ASSUME NEW i \in 1 .. ChannelCount, i - 1 \in P PROVE i \in P
  BY <1>1, <1>5, <1>7, ChannelsAssumption
<1>8. ChannelCount \in P
  <2> HIDE DEF P
  <2> QED BY <1>6, <1>7, Turns, ChannelsAssumption
<1> QED BY <1>4, <1>8

\* gem_resident_update_progress: a free lock goes to the first in line.
LEMMA ProgressHandsOn ==
    ASSUME NEW s \in States, Good(s)
    PROVE  LET t == UpdateProgress(s)
           IN  /\ t \in States /\ Good(t) /\ NeverIdle(t) /\ Runs(s, t)
               /\ t.queue = s.queue /\ t.readers = s.readers /\ t.writers = s.writers
               /\ \A c \in Channels : t.slot[c] = s.slot[c] \/ Parked(s, c, "UPDATE")
               /\ IF s.line = <<>> \/ s.owner # NONE THEN t = s
                  ELSE t.owner = Head(s.line) /\ t.line = Tail(s.line)
<1>1. Runs(s, s)
  BY QuietRuns
<1>2. CASE s.line = <<>> \/ s.owner # NONE
  <2>1. UpdateProgress(s) = s
    BY <1>2, NoHeadIsStale DEF UpdateProgress
  <2> QED BY <1>1, <1>2, <2>1 DEF NeverIdle
<1>3. CASE s.line # <<>> /\ s.owner = NONE
  <2> DEFINE h == Head(s.line)
             v == [s EXCEPT !.owner = h, !.depth = 1, !.line = Tail(@)]
             t == Complete(v, h, "done")
  <2>1. UpdateProgress(s) = t
    BY <1>3, NoHeadIsStale DEF UpdateProgress
  <2>2. /\ h \in Channels /\ Listed(s.line, h) /\ Tail(s.line) \in Seq(Channels)
        /\ Removed(s.line, Tail(s.line), h)
    BY <1>3, TailListed, RemovedTail DEF States, Good, NobodyTwice
  <2>3. /\ v \in States
        /\ v.gen = s.gen /\ v.slot = s.slot /\ v.ready = s.ready /\ v.queue = s.queue
        /\ v.readers = s.readers /\ v.writers = s.writers
        /\ v.owner = h /\ v.depth = 1 /\ v.line = Tail(s.line)
    <3>1. 1 \in 0 .. MaxDepth
      BY SizesAssumption
    <3> HIDE DEF h
    <3> QED BY <2>2, <3>1 DEF States
  <2> HIDE DEF v
  <2>4. Parked(s, h, "UPDATE")
    BY <2>2 DEF Good, Linked, LinkedAt
  <2>5. Loosened(s, v, h)
    <3>1. /\ ~Listed(s.ready, h)
          /\ \A y \in Channels : ~Listed(s.readers[y], h) /\ ~Listed(s.writers[y], h)
      BY <2>2, <2>4 DEF Good, Linked, LinkedAt, Parked
    <3>2. NoRepeats(s.ready) /\ \A y \in Channels : NoRepeats(s.readers[y]) /\ NoRepeats(s.writers[y])
      BY DEF Good, NobodyTwice
    <3> HIDE DEF h
    <3> QED BY <2>2, <2>3, <3>1, <3>2, RemovedSame DEF Loosened
  <2>6. LockSound(v)
    <3>1. v.gen[h] # 0
      BY <2>2, <2>3, <2>4 DEF Good, Current, Parked
    <3>2. ~Listed(v.line, h)
      BY <2>2, <2>3 DEF Removed
    <3>3. h # NONE
      BY <2>2, ChannelsAssumption
    <3> HIDE DEF h
    <3> QED BY <2>3, <3>1, <3>2, <3>3 DEF LockSound
  <2>7. t \in States /\ Good(t) /\ Completed(v, t, h, "done")
    <3>1. Loose(v, h) /\ v.slot[h].state # "FREE"
      BY <2>2, <2>3, <2>4, <2>5, <2>6, LoosenedLoose DEF Parked
    <3> HIDE DEF h
    <3> QED BY <2>2, <2>3, <3>1, LooseCompletes, CompleteIs
  <2> HIDE DEF t, h
  <2>8. /\ t.gen = s.gen /\ t.queue = s.queue /\ t.readers = s.readers /\ t.writers = s.writers
        /\ t.owner = h /\ t.line = Tail(s.line)
        /\ t.slot[h].state = "READY" /\ \A c \in Channels : c # h => t.slot[c] = s.slot[c]
    BY <2>3, <2>7 DEF Completed
  <2>9. Runs(s, t)
    BY <2>4, <2>7, <2>8, QuietRuns DEF Parked, Waiting
  <2>10. NeverIdle(t)
    BY <2>2, <2>8, ChannelsAssumption DEF NeverIdle
  <2> QED BY <1>3, <2>1, <2>4, <2>7, <2>8, <2>9, <2>10 DEF h
<1> QED BY <1>2, <1>3

\* Ending an update: the others keep what they have, and the lock stays, or
\* its holder c hands it on.
Releases(s, t, c) ==
    /\ t \in States /\ Good(t) /\ NeverIdle(t) /\ Runs(s, t)
    /\ (t.owner = s.owner /\ t.line = s.line) \/ (s.owner = c /\ Hands(s, t))

\* END_UPDATE lets go of a level, and of the lock at the last one.
LEMMA EndUpdateReleases ==
    ASSUME NEW s \in States, Good(s), NeverIdle(s), NEW c \in Channels
    PROVE  LET t == EndUpdate(s, c)
           IN  /\ Releases(s, t, c)
               /\ t.queue = s.queue /\ t.readers = s.readers /\ t.writers = s.writers
               /\ \A x \in Channels : t.slot[x] = s.slot[x] \/ Parked(s, x, "UPDATE")
<1>1. Runs(s, s)
  BY QuietRuns
<1>2. CASE s.owner # c
  BY <1>1, <1>2 DEF EndUpdate, Releases
<1>3. CASE s.owner = c
  <2> DEFINE n == IF s.depth > 1 THEN s.depth - 1 ELSE 0
             o == IF s.depth > 1 THEN s.owner ELSE NONE
             v == [s EXCEPT !.depth = n, !.owner = o]
  <2>1. c # NONE
    BY ChannelsAssumption
  <2>2. n \in 0 .. MaxDepth /\ (n = 0 <=> o = NONE) /\ o \in Channels \cup {NONE}
    <3>1. s.depth \in 0 .. MaxDepth
      BY DEF States
    <3> QED BY <1>3, <2>1, <3>1, SizesAssumption
  <2>3. v = IF s.depth > 1 THEN [s EXCEPT !.depth = s.depth - 1]
            ELSE [s EXCEPT !.depth = 0, !.owner = NONE]
    BY <1>3 DEF States
  <2>4. EndUpdate(s, c) = UpdateProgress(v)
    BY <1>3, <2>3 DEF EndUpdate
  <2> HIDE DEF n
  <2>5. /\ v \in States
        /\ v.gen = s.gen /\ v.slot = s.slot /\ v.ready = s.ready /\ v.queue = s.queue
        /\ v.readers = s.readers /\ v.writers = s.writers /\ v.line = s.line
        /\ v.owner = o /\ v.depth = n
    <3> HIDE DEF o
    <3> QED BY <2>2 DEF States
  <2> HIDE DEF v
  <2>6. Good(v)
    <3>1. NobodyTwice(v) /\ Linked(v) /\ Targeted(v) /\ Current(v)
      BY <2>5 DEF Good, NobodyTwice, Linked, LinkedAt, Parked, Targeted, Current, Waiting
    <3>2. LockSound(v)
      BY <1>3, <2>2, <2>5 DEF Good, LockSound
    <3> QED BY <3>1, <3>2 DEF Good
  <2>7. Runs(s, v)
    BY <2>5, <2>6, QuietRuns
  <2> DEFINE t == UpdateProgress(v)
  <2>8. /\ t \in States /\ Good(t) /\ NeverIdle(t) /\ Runs(v, t)
        /\ t.queue = v.queue /\ t.readers = v.readers /\ t.writers = v.writers
        /\ \A x \in Channels : t.slot[x] = v.slot[x] \/ Parked(v, x, "UPDATE")
        /\ IF v.line = <<>> \/ v.owner # NONE THEN t = v
           ELSE t.owner = Head(v.line) /\ t.line = Tail(v.line)
    BY <2>5, <2>6, ProgressHandsOn
  <2> HIDE DEF t
  <2>9. Runs(s, t)
    BY <2>7, <2>8, RunsTrans
  <2>10. (t.owner = s.owner /\ t.line = s.line) \/ (s.owner = c /\ Hands(s, t))
    <3>1. CASE s.depth > 1
      BY <1>3, <2>1, <2>5, <2>8, <3>1
    <3>2. CASE ~(s.depth > 1)
      BY <1>3, <2>1, <2>5, <2>8, <3>2 DEF Hands
    <3> QED BY <3>1, <3>2
  <2>11. \A x \in Channels : t.slot[x] = s.slot[x] \/ Parked(s, x, "UPDATE")
    BY <2>5, <2>8 DEF Parked
  <2> QED BY <2>4, <2>5, <2>8, <2>9, <2>10, <2>11 DEF Releases, t
<1> QED BY <1>2, <1>3

\* The wind-down of a form: redraw, pump, and end of update.
LEMMA WindDownReleases ==
    ASSUME NEW s \in States, Good(s), NeverIdle(s), NEW c \in Channels, Parked(s, c, "FORM"),
           NEW pds \in SUBSET Channels
    PROVE  LET t == WindDown(s, c, pds).state
           IN  Releases(s, t, c) /\ t.slot[c] = s.slot[c]
<1>1. PICK u : u = IF s.slot[c].len = 1 /\ (~(s.slot[c].len = 1) \/ RoomFor(s, pds))
                   THEN Deliver(s, pds) ELSE s
  OBVIOUS
<1>2. WindDown(s, c, pds).state = EndUpdate(u, c)
  BY <1>1 DEF WindDown
<1>3. u \in States /\ Good(u) /\ Pumped(s, u) /\ Dry(s, u)
  <2>1. Pumped(s, s) /\ Dry(s, s)
    BY PumpedSame DEF Good, Dry
  <2> QED BY <1>1, <2>1, DeliverRunsDry
<1>4. Runs(s, u) /\ LockSame(s, u)
  BY <1>3, PumpedRuns
<1>5. NeverIdle(u)
  BY <1>4 DEF NeverIdle, LockSame
<1>6. u.slot[c] = s.slot[c]
  BY <1>3 DEF Pumped, Parked
<1> DEFINE t == EndUpdate(u, c)
<1>7. Releases(u, t, c) /\ (t.slot[c] = u.slot[c] \/ Parked(u, c, "UPDATE"))
  BY <1>3, <1>5, EndUpdateReleases
<1> HIDE DEF t
<1>8. t.slot[c] = s.slot[c]
  BY <1>6, <1>7 DEF Parked
<1>9. Runs(s, t)
  BY <1>4, <1>7, RunsTrans DEF Releases
<1>10. (t.owner = s.owner /\ t.line = s.line) \/ (s.owner = c /\ Hands(s, t))
  BY <1>4, <1>7 DEF Releases, Hands, LockSame
<1> QED BY <1>2, <1>7, <1>8, <1>9, <1>10 DEF t, Releases

\* gem_resident_form_complete.
LEMMA SettleReleases ==
    ASSUME NEW s \in States, Good(s), NeverIdle(s), NEW c \in Channels, Parked(s, c, "FORM"),
           NEW pds \in SUBSET Channels
    PROVE  LET t == Settle(s, c, pds)
           IN  Releases(s, t, c) /\ ~Waiting(t, c)
<1>1. PICK u, r : /\ u = WindDown(s, c, pds).state
                  /\ r = IF WindDown(s, c, pds).drawn THEN "done" ELSE "failed"
  OBVIOUS
<1>2. Settle(s, c, pds) = Complete(u, c, r)
  BY <1>1 DEF Settle
<1>3. Releases(s, u, c) /\ u.slot[c] = s.slot[c]
  BY <1>1, WindDownReleases
<1>4. u \in States /\ Good(u) /\ Waiting(u, c) /\ u.slot[c].op \in {"EVENT", "FORM"}
  BY <1>3 DEF Releases, Parked, Waiting
<1> DEFINE t == Complete(u, c, r)
<1>5. /\ t \in States /\ Good(t) /\ Runs(u, t) /\ LockSame(u, t)
      /\ t.slot[c].state = "READY"
  BY <1>1, <1>4, AnswerRuns
<1> HIDE DEF t
<1>6. Runs(s, t)
  BY <1>3, <1>5, RunsTrans DEF Releases
<1>7. NeverIdle(t) /\ ((t.owner = s.owner /\ t.line = s.line) \/ (s.owner = c /\ Hands(s, t)))
  BY <1>3, <1>5 DEF Releases, NeverIdle, Hands, LockSame
<1> QED BY <1>2, <1>5, <1>6, <1>7 DEF t, Releases, Waiting

----------------------------------------------------------------------------
(* Event waits *)

\* A message wait that the queue could already answer.
Unserved(s, c) ==
    Parked(s, c, "EVENT") /\ s.slot[c].len = 1 /\ s.queue[c] >= MessageBytes

\* Bytes go into a queue, or out of it, and the pump runs.
Refilled(s, x, n) == [s EXCEPT !.queue[x] = n]

\* Bytes come or go, and the pump makes the state good and dry again.
LEMMA RefillRuns ==
    ASSUME NEW s \in States, Good(s), NEW c \in Channels, NEW n \in 0 .. QueueBytes
    PROVE  LET t == QueueProgress(Refilled(s, c, n), c)
           IN  /\ t \in States /\ Good(t) /\ Pumped(s, t) /\ Dry(s, t) /\ Elsewhere(s, t, c)
<1> DEFINE v == Refilled(s, c, n)
<1>1. v = [s EXCEPT !.queue = [s.queue EXCEPT ![c] = n]]
  BY DEF States, Refilled
<1> HIDE DEF v
<1>2. /\ v \in States
      /\ v.gen = s.gen /\ v.slot = s.slot /\ v.ready = s.ready
      /\ v.readers = s.readers /\ v.writers = s.writers
      /\ v.owner = s.owner /\ v.depth = s.depth /\ v.line = s.line
      /\ v.queue = [s.queue EXCEPT ![c] = n]
  BY <1>1 DEF States
<1>3. Good(v)
  BY <1>2 DEF Good, NobodyTwice, Linked, LinkedAt, Parked, Targeted, Current, LockSound, Waiting
<1>4. Pumped(s, v) /\ Elsewhere(s, v, c)
  BY <1>2, PumpedSame DEF Good, Elsewhere, States
<1> DEFINE t == QueueProgress(v, c)
<1>5. t \in States /\ Good(t) /\ Pumped(v, t) /\ Elsewhere(v, t, c) /\ ~HeadCanGo(t, c)
  BY <1>2, <1>3, QueueProgressRunsDry
<1> HIDE DEF t
<1>6. Pumped(s, t) /\ Elsewhere(s, t, c)
  BY <1>4, <1>5, PumpedTrans DEF Elsewhere
<1>7. Dry(s, t)
  BY <1>5, <1>6 DEF Dry, Elsewhere
<1> QED BY <1>5, <1>6, <1>7 DEF t, v

\* Taking a message is such a change.
LEMMA TakeMessageRuns ==
    ASSUME NEW s \in States, Good(s), NEW c \in Channels, s.queue[c] >= MessageBytes
    PROVE  LET t == TakeMessage(s, c)
           IN  /\ t \in States /\ Good(t) /\ Pumped(s, t) /\ Dry(s, t) /\ Elsewhere(s, t, c)
<1>1. PICK n \in 0 .. QueueBytes : n = s.queue[c] - MessageBytes
  <2>1. PICK q \in 0 .. QueueBytes : q = s.queue[c]
    BY DEF States
  <2>2. q - MessageBytes \in 0 .. QueueBytes
    BY <2>1, SizesAssumption
  <2> QED BY <2>1, <2>2
<1>2. TakeMessage(s, c) = QueueProgress(Refilled(s, c, n), c)
  BY <1>1 DEF TakeMessage, Refilled
<1> QED BY <1>2, RefillRuns

\* One wait: answered from the queue, from what has fired, or not at all.
LEMMA EventCompleteServes ==
    ASSUME NEW s \in States, Good(s), NEW c \in Channels, NEW fired
    PROVE  LET t == EventComplete(s, c, fired)
           IN  /\ t \in States /\ Good(t) /\ Runs(s, t) /\ LockSame(s, t)
               /\ ~Unserved(t, c)
               /\ \A x \in Channels \ {c} : t.queue[x] = s.queue[x]
<1>1. Runs(s, s)
  BY QuietRuns
<1>2. CASE ~Parked(s, c, "EVENT")
  BY <1>1, <1>2 DEF EventComplete, Unserved, LockSame
<1>3. CASE Parked(s, c, "EVENT") /\ ~(s.slot[c].len = 1 /\ s.queue[c] >= MessageBytes)
           /\ c \notin fired
  BY <1>1, <1>3 DEF EventComplete, Unserved, LockSame
<1>4. CASE Parked(s, c, "EVENT") /\ ~(s.slot[c].len = 1 /\ s.queue[c] >= MessageBytes)
           /\ c \in fired
  <2> DEFINE t == Complete(s, c, "done")
  <2>1. EventComplete(s, c, fired) = t
    BY <1>4 DEF EventComplete
  <2>2. /\ t \in States /\ Good(t) /\ Runs(s, t) /\ LockSame(s, t)
        /\ t.slot[c].state = "READY" /\ t.queue = s.queue
    BY <1>4, AnswerRuns DEF Parked, Waiting
  <2> HIDE DEF t
  <2> QED BY <2>1, <2>2 DEF Unserved, Parked, t
<1>5. CASE Parked(s, c, "EVENT") /\ s.slot[c].len = 1 /\ s.queue[c] >= MessageBytes
  <2> DEFINE u == TakeMessage(s, c)
             t == Complete(u, c, "done")
  <2>1. EventComplete(s, c, fired) = t
    BY <1>5 DEF EventComplete
  <2>2. /\ u \in States /\ Good(u) /\ Pumped(s, u) /\ Dry(s, u) /\ Elsewhere(s, u, c)
    BY <1>5, TakeMessageRuns
  <2> HIDE DEF u
  <2>3. Runs(s, u) /\ LockSame(s, u)
    BY <2>2, PumpedRuns
  <2>4. u.slot[c] = s.slot[c]
    BY <1>5, <2>2 DEF Pumped, Parked
  <2>5. /\ t \in States /\ Good(t) /\ Runs(u, t) /\ LockSame(u, t)
        /\ t.slot[c].state = "READY" /\ t.queue = u.queue
    BY <1>5, <2>2, <2>4, AnswerRuns DEF Parked, Waiting
  <2> HIDE DEF t
  <2>6. Runs(s, t)
    BY <2>3, <2>5, RunsTrans
  <2>7. LockSame(s, t) /\ \A x \in Channels \ {c} : t.queue[x] = s.queue[x]
    BY <2>2, <2>3, <2>5 DEF LockSame, Elsewhere
  <2> QED BY <2>1, <2>5, <2>6, <2>7 DEF Unserved, Parked, t
<1> QED BY <1>2, <1>3, <1>4, <1>5

\* The recursive function of EventProgress satisfies its equation.
LEMMA EventTurns ==
    ASSUME NEW s, NEW fired
    PROVE  \E after :
              /\ after = [n \in 0 .. ChannelCount |->
                    IF n = 0 THEN s
                    ELSE IF n - 1 \in Channels THEN EventComplete(after[n - 1], n - 1, fired)
                    ELSE after[n - 1]]
              /\ EventProgress(s, fired) = after[ChannelCount]
<1> DEFINE Turn(f, n) == IF n = 0 THEN s
                         ELSE IF n - 1 \in Channels THEN EventComplete(f[n - 1], n - 1, fired)
                         ELSE f[n - 1]
           Is(f, m) == f = [n \in 0 .. m |-> Turn(f, n)]
           P == {m \in 0 .. ChannelCount : \E f : Is(f, m)}
<1>1. 0 \in P
  <2>1. Is([n \in 0 .. 0 |-> s], 0)
    OBVIOUS
  <2>2. 0 \in 0 .. ChannelCount
    BY ChannelsAssumption
  <2> HIDE DEF Is
  <2> QED BY <2>1, <2>2
<1>2. ASSUME NEW m \in 1 .. ChannelCount, m - 1 \in P PROVE m \in P
  <2>1. PICK f : Is(f, m - 1)
    BY <1>2
  <2> DEFINE g == [n \in 0 .. m |-> IF n = m THEN Turn(f, m) ELSE f[n]]
  <2>2. Is(g, m)
    BY <2>1, ChannelsAssumption
  <2>3. m \in 0 .. ChannelCount
    BY ChannelsAssumption
  <2> HIDE DEF Is, g
  <2> QED BY <2>2, <2>3
<1>3. ChannelCount \in P
  <2> HIDE DEF P
  <2> QED BY <1>1, <1>2, Turns, ChannelsAssumption
<1>4. PICK f : Is(f, ChannelCount)
  BY <1>3
<1>5. EventProgress(s, fired) = (CHOOSE g : Is(g, ChannelCount))[ChannelCount]
  BY DEF EventProgress, ForEachChannel
<1>6. Is(CHOOSE g : Is(g, ChannelCount), ChannelCount)
  <2> HIDE DEF Is
  <2> QED BY <1>4
<1> QED BY <1>5, <1>6

\* gem_resident_event_progress: what its turn leaves of a wait, the turns of
\* the others leave as it is, so no message wait is left unserved.
LEMMA EventProgressServes ==
    ASSUME NEW s \in States, Good(s), NEW fired
    PROVE  LET t == EventProgress(s, fired)
           IN  /\ t \in States /\ Good(t) /\ Runs(s, t) /\ LockSame(s, t)
               /\ \A c \in Channels : ~Unserved(t, c)
<1>1. PICK after :
         /\ after = [n \in 0 .. ChannelCount |->
               IF n = 0 THEN s
               ELSE IF n - 1 \in Channels THEN EventComplete(after[n - 1], n - 1, fired)
               ELSE after[n - 1]]
         /\ EventProgress(s, fired) = after[ChannelCount]
  BY EventTurns
<1> DEFINE Done(u, n) ==
              /\ u \in States /\ Good(u) /\ Runs(s, u) /\ LockSame(s, u)
              /\ \A c \in Channels : c < n => ~Unserved(u, c)
           P == {n \in 0 .. ChannelCount : Done(after[n], n)}
<1>2. 0 \in P
  <2>1. after[0] = s
    BY <1>1, ChannelsAssumption
  <2>2. \A d \in Channels : ~(d < 0)
    BY ChannelsAssumption
  <2>3. 0 \in 0 .. ChannelCount
    BY ChannelsAssumption
  <2>4. Runs(s, s) /\ LockSame(s, s)
    BY QuietRuns DEF LockSame
  <2> QED BY <2>1, <2>2, <2>3, <2>4
<1>3. ASSUME NEW n \in 1 .. ChannelCount, n - 1 \in P PROVE n \in P
  <2>1. PICK u, v, x : u = after[n - 1] /\ v = after[n] /\ x = n - 1
    OBVIOUS
  <2>2. Done(u, x)
    BY <1>3, <2>1
  <2>3. v = IF x \in Channels THEN EventComplete(u, x, fired) ELSE u
    BY <1>1, <2>1, ChannelsAssumption
  <2>4. \A d \in Channels : d < n <=> d < x \/ d = x
    BY <2>1, ChannelsAssumption
  <2>5. n \in 0 .. ChannelCount
    BY ChannelsAssumption
  <2>6. CASE x \in Channels
    <3>1. /\ v \in States /\ Good(v) /\ Runs(u, v) /\ LockSame(u, v)
          /\ ~Unserved(v, x)
          /\ \A y \in Channels \ {x} : v.queue[y] = u.queue[y]
      BY <2>2, <2>3, <2>6, EventCompleteServes
    <3>2. Runs(s, v) /\ LockSame(s, v)
      BY <2>2, <3>1, RunsTrans DEF LockSame
    <3>3. ASSUME NEW d \in Channels, d < n PROVE ~Unserved(v, d)
      <4>1. CASE d = x
        BY <3>1, <4>1
      <4>2. CASE d # x
        <5>1. ~Unserved(u, d)
          BY <2>2, <2>4, <3>3, <4>2
        <5>2. v.slot[d] = u.slot[d] \/ v.slot[d].state = "READY"
          BY <3>1 DEF Runs
        <5> QED BY <3>1, <4>2, <5>1, <5>2 DEF Unserved, Parked
      <4> QED BY <4>1, <4>2
    <3> QED BY <2>1, <2>5, <3>1, <3>2, <3>3
  <2>7. CASE x \notin Channels
    <3>1. Done(v, n)
      BY <2>2, <2>3, <2>4, <2>7
    <3> QED BY <2>1, <2>5, <3>1
  <2> QED BY <2>6, <2>7
<1>4. ChannelCount \in P
  <2> HIDE DEF P
  <2> QED BY <1>2, <1>3, Turns, ChannelsAssumption
<1>5. \A d \in Channels : d < ChannelCount
  BY ChannelsAssumption
<1> QED BY <1>1, <1>4, <1>5

----------------------------------------------------------------------------
(* The sweep of a dying channel *)

Freed(s, c) == [s EXCEPT !.slot[c] = FreeSlot]

\* A channel that is on no list can be cleared.
LEMMA LooseFrees ==
    ASSUME NEW s \in States, NEW c \in Channels, Loose(s, c),
           NEW t, t = Freed(s, c)
    PROVE  /\ t \in States /\ Good(t)
           /\ t.gen = s.gen /\ t.queue = s.queue /\ t.ready = s.ready
           /\ t.readers = s.readers /\ t.writers = s.writers
           /\ t.owner = s.owner /\ t.depth = s.depth /\ t.line = s.line
           /\ t.slot[c] = FreeSlot /\ \A x \in Channels \ {c} : t.slot[x] = s.slot[x]
<1>1. FreeSlot \in SlotRecords
  BY SizesAssumption DEF SlotRecords, SlotStates, Operations, FreeSlot
<1>2. t = [s EXCEPT !.slot = [s.slot EXCEPT ![c] = FreeSlot]]
  BY DEF States, Freed
<1>3. [s.slot EXCEPT ![c] = FreeSlot] \in [Channels -> SlotRecords]
  BY <1>1 DEF States
<1>4. /\ t \in States
      /\ t.gen = s.gen /\ t.queue = s.queue /\ t.ready = s.ready
      /\ t.readers = s.readers /\ t.writers = s.writers
      /\ t.owner = s.owner /\ t.depth = s.depth /\ t.line = s.line
      /\ t.slot[c] = FreeSlot /\ \A x \in Channels \ {c} : t.slot[x] = s.slot[x]
  BY <1>2, <1>3 DEF States
<1>5. NobodyTwice(t) /\ LockSound(t)
  BY <1>4 DEF Loose, NobodyTwice, LockSound
<1>6. Linked(t)
  <2>1. FreeSlot.state = "FREE"
    BY DEF FreeSlot
  <2>2. LinkedAt(t, c)
    BY <1>4, <2>1 DEF Loose, Nowhere, LinkedAt, Parked
  <2>3. \A x \in Channels \ {c} : LinkedAt(t, x)
    BY <1>4 DEF Loose, LinkedAt, Parked
  <2> QED BY <2>2, <2>3 DEF Linked
<1>7. Targeted(t) /\ Current(t)
  <2>1. FreeSlot.state = "FREE"
    BY DEF FreeSlot
  <2> QED BY <1>4, <2>1 DEF Loose, Targeted, Current, Waiting
<1> QED BY <1>4, <1>5, <1>6, <1>7 DEF Good

\* A parked call that is unlinked is on no list.
LEMMA UnlinkLoosens ==
    ASSUME NEW s \in States, Good(s), NEW c \in Channels, Waiting(s, c)
    PROVE  LET u == Unlink(s, c)
           IN  /\ u \in States /\ Loosened(s, u, c)
               /\ u.queue = s.queue /\ u.owner = s.owner /\ u.depth = s.depth
               /\ u.line = IF s.slot[c].op = "UPDATE" THEN Without(s.line, c) ELSE s.line
               /\ \A y \in Channels :
                     y # s.slot[c].target \/ s.slot[c].op \in {"EVENT", "FORM", "UPDATE"} =>
                        u.readers[y] = s.readers[y] /\ u.writers[y] = s.writers[y]
<1> DEFINE u == Unlink(s, c)
<1>1. PICK op, x : op = s.slot[c].op /\ x = s.slot[c].target
  OBVIOUS
<1>2. x \in Channels /\ op \in {"UPDATE", "READ", "WRITE", "EVENT", "FORM"}
  <2>1. s.slot[c].op \in Operations
    BY DEF States, SlotRecords
  <2> QED BY <1>1, <2>1 DEF Good, Targeted, Operations
<1>3. /\ NoRepeats(s.ready) /\ NoRepeats(s.line)
      /\ \A y \in Channels : NoRepeats(s.readers[y]) /\ NoRepeats(s.writers[y])
  BY DEF Good, NobodyTwice
<1>4. /\ s.line \in Seq(Channels)
      /\ s.readers \in [Channels -> Seq(Channels)] /\ s.writers \in [Channels -> Seq(Channels)]
  BY DEF States
<1>5. /\ ~Listed(s.ready, c)
      /\ op # "UPDATE" => ~Listed(s.line, c)
      /\ \A y \in Channels : /\ op # "READ" \/ y # x => ~Listed(s.readers[y], c)
                             /\ op # "WRITE" \/ y # x => ~Listed(s.writers[y], c)
  BY <1>1 DEF Good, Linked, LinkedAt, Parked, Waiting
<1>6. CASE op = "UPDATE"
  <2>1. u = [s EXCEPT !.line = Without(s.line, c)]
    BY <1>1, <1>6 DEF Unlink
  <2>2. Without(s.line, c) \in Seq(Channels) /\ Removed(s.line, Without(s.line, c), c)
    BY <1>3, <1>4, RemovedWithout
  <2> HIDE DEF u
  <2>3. /\ u \in States /\ u.gen = s.gen /\ u.slot = s.slot /\ u.ready = s.ready
        /\ u.readers = s.readers /\ u.writers = s.writers /\ u.line = Without(s.line, c)
        /\ u.queue = s.queue /\ u.owner = s.owner /\ u.depth = s.depth
    BY <2>1, <2>2 DEF States
  <2>4. Loosened(s, u, c)
    BY <1>3, <1>5, <1>6, <2>2, <2>3, RemovedSame DEF Loosened
  <2> QED BY <1>1, <1>6, <2>3, <2>4 DEF u
<1>7. CASE op = "READ"
  <2>1. u = [s EXCEPT !.readers = [s.readers EXCEPT ![x] = Without(s.readers[x], c)]]
    BY <1>1, <1>7 DEF Unlink, States
  <2>2. Without(s.readers[x], c) \in Seq(Channels) /\ Removed(s.readers[x], Without(s.readers[x], c), c)
    BY <1>2, <1>3, <1>4, RemovedWithout
  <2> HIDE DEF u
  <2>3. /\ u \in States /\ u.gen = s.gen /\ u.slot = s.slot /\ u.ready = s.ready
        /\ u.readers = [s.readers EXCEPT ![x] = Without(s.readers[x], c)]
        /\ u.writers = s.writers /\ u.line = s.line
        /\ u.queue = s.queue /\ u.owner = s.owner /\ u.depth = s.depth
    BY <1>4, <2>1, <2>2 DEF States
  <2>4. \A y \in Channels : Removed(s.readers[y], u.readers[y], c)
    BY <1>3, <1>4, <1>5, <2>2, <2>3, RemovedSame
  <2>5. Loosened(s, u, c)
    BY <1>3, <1>5, <1>7, <2>3, <2>4, RemovedSame DEF Loosened
  <2> QED BY <1>1, <1>4, <1>7, <2>3, <2>5 DEF u
<1>8. CASE op = "WRITE"
  <2>1. u = [s EXCEPT !.writers = [s.writers EXCEPT ![x] = Without(s.writers[x], c)]]
    BY <1>1, <1>8 DEF Unlink, States
  <2>2. Without(s.writers[x], c) \in Seq(Channels) /\ Removed(s.writers[x], Without(s.writers[x], c), c)
    BY <1>2, <1>3, <1>4, RemovedWithout
  <2> HIDE DEF u
  <2>3. /\ u \in States /\ u.gen = s.gen /\ u.slot = s.slot /\ u.ready = s.ready
        /\ u.writers = [s.writers EXCEPT ![x] = Without(s.writers[x], c)]
        /\ u.readers = s.readers /\ u.line = s.line
        /\ u.queue = s.queue /\ u.owner = s.owner /\ u.depth = s.depth
    BY <1>4, <2>1, <2>2 DEF States
  <2>4. \A y \in Channels : Removed(s.writers[y], u.writers[y], c)
    BY <1>3, <1>4, <1>5, <2>2, <2>3, RemovedSame
  <2>5. Loosened(s, u, c)
    BY <1>3, <1>5, <1>8, <2>3, <2>4, RemovedSame DEF Loosened
  <2> QED BY <1>1, <1>4, <1>8, <2>3, <2>5 DEF u
<1>9. CASE op \in {"EVENT", "FORM"}
  <2>1. u = s
    BY <1>1, <1>9 DEF Unlink
  <2>2. Loosened(s, s, c)
    BY <1>3, <1>5, <1>9, RemovedSame DEF Loosened
  <2> QED BY <1>1, <1>9, <2>1, <2>2
<1> QED BY <1>2, <1>6, <1>7, <1>8, <1>9

\* What the turn of channel c in the sweep of channel d does.
Swept(s, t, d, c) ==
    /\ t \in States /\ Good(t)
    /\ t.gen = s.gen /\ t.queue = s.queue /\ t.owner = s.owner /\ t.depth = s.depth
    /\ SlotsGo(s, t) /\ Ordered(s, t)
    /\ \A x \in Channels \ {c} : t.slot[x] = s.slot[x]
    /\ IF c = d THEN t.slot[c].state = "FREE"
       ELSE Waiting(t, c) => t.slot[c].target # d
    /\ t.line = IF c = d /\ Parked(s, c, "UPDATE") THEN Without(s.line, c) ELSE s.line
    /\ \A y \in Channels \ {d} :
          c # d \/ Parked(s, c, "FORM") =>
             t.readers[y] = s.readers[y] /\ t.writers[y] = s.writers[y]

\* One turn of the sweep, for a channel that is not swept yet.
LEMMA SweepTurn ==
    ASSUME NEW s \in States, Good(s), NEW d \in Channels, NEW c \in Channels
    PROVE  Swept(s, Sweep(s, d, c), d, c)
<1> DEFINE t == Sweep(s, d, c)
<1>1. CASE Waiting(s, c) /\ (c = d \/ s.slot[c].target = d)
  <2> DEFINE u == Unlink(s, c)
  <2>1. /\ u \in States /\ Loosened(s, u, c)
        /\ u.queue = s.queue /\ u.owner = s.owner /\ u.depth = s.depth
        /\ u.line = IF s.slot[c].op = "UPDATE" THEN Without(s.line, c) ELSE s.line
        /\ \A y \in Channels :
              y # s.slot[c].target \/ s.slot[c].op \in {"EVENT", "FORM", "UPDATE"} =>
                 u.readers[y] = s.readers[y] /\ u.writers[y] = s.writers[y]
    BY <1>1, UnlinkLoosens
  <2>2. t = IF c = d THEN Freed(u, c) ELSE Complete(u, c, "failed")
    BY <1>1 DEF Sweep, Waiting, Freed
  <2> HIDE DEF t, u
  <2>3. u.gen = s.gen /\ u.slot = s.slot
    BY <2>1 DEF Loosened
  <2>4. Loose(u, c)
    <3>1. LockSound(u)
      <4>1. u.owner # NONE => ~Listed(u.line, u.owner)
        BY <2>1 DEF Loosened, Removed, Good, LockSound, States
      <4> QED BY <2>1, <2>3, <4>1 DEF Good, LockSound
    <3> QED BY <2>1, <3>1, LoosenedLoose
  <2>5. /\ t \in States /\ Good(t)
        /\ t.gen = s.gen /\ t.queue = s.queue /\ t.owner = s.owner /\ t.depth = s.depth
        /\ t.readers = u.readers /\ t.writers = u.writers /\ t.line = u.line
        /\ \A x \in Channels \ {c} : t.slot[x] = s.slot[x]
        /\ IF c = d THEN t.slot[c] = FreeSlot
           ELSE t.slot[c].state = "READY" /\ t.slot[c].result = "failed"
    <3>1. CASE c = d
      BY <2>1, <2>2, <2>3, <2>4, <3>1, LooseFrees
    <3>2. CASE c # d
      <4>1. u.slot[c].state # "FREE"
        BY <1>1, <2>3 DEF Waiting
      <4>2. t \in States /\ Good(t) /\ Completed(u, t, c, "failed")
        BY <2>1, <2>2, <2>4, <3>2, <4>1, LooseCompletes, CompleteIs
      <4> QED BY <2>1, <2>3, <3>2, <4>2 DEF Completed
    <3> QED BY <3>1, <3>2
  <2>6. ~Waiting(t, c) /\ t.slot[c].result # "done"
    BY <2>5 DEF Waiting, FreeSlot
  <2>7. SlotsGo(s, t)
    BY <1>1, <2>5 DEF SlotsGo
  <2>8. Ordered(s, t)
    BY <2>1, <2>5, <2>6, LoosenedOrdered
  <2>9. t.line = IF c = d /\ Parked(s, c, "UPDATE") THEN Without(s.line, c) ELSE s.line
    BY <1>1, <2>1, <2>5 DEF Good, Targeted, Waiting, Parked
  <2>10. \A y \in Channels \ {d} :
            c # d \/ Parked(s, c, "FORM") =>
               t.readers[y] = s.readers[y] /\ t.writers[y] = s.writers[y]
    BY <1>1, <2>1, <2>5 DEF Parked
  <2>11. c = d => t.slot[c].state = "FREE"
    BY <2>5 DEF FreeSlot
  <2> QED BY <2>5, <2>6, <2>7, <2>8, <2>9, <2>10, <2>11 DEF Swept, t
<1>2. CASE s.slot[c].state = "READY" /\ c = d
  <2> DEFINE u == [s EXCEPT !.ready = Without(@, c)]
  <2>1. t = Freed(u, c)
    BY <1>2 DEF Sweep, States, Freed
  <2>2. /\ NoRepeats(s.ready) /\ NoRepeats(s.line)
        /\ \A y \in Channels : NoRepeats(s.readers[y]) /\ NoRepeats(s.writers[y])
    BY DEF Good, NobodyTwice
  <2>3. Without(s.ready, c) \in Seq(Channels) /\ Removed(s.ready, Without(s.ready, c), c)
    BY <2>2, RemovedWithout DEF States
  <2> HIDE DEF t
  <2>4. /\ u \in States /\ u.gen = s.gen /\ u.slot = s.slot /\ u.ready = Without(s.ready, c)
        /\ u.readers = s.readers /\ u.writers = s.writers /\ u.line = s.line
        /\ u.queue = s.queue /\ u.owner = s.owner /\ u.depth = s.depth
    BY <2>3 DEF States
  <2> HIDE DEF u
  <2>5. Loosened(s, u, c)
    <3>1. /\ ~Listed(s.line, c)
          /\ \A y \in Channels : ~Listed(s.readers[y], c) /\ ~Listed(s.writers[y], c)
      BY <1>2 DEF Good, Linked, LinkedAt, Parked
    <3> QED BY <2>2, <2>3, <2>4, <3>1, RemovedSame DEF Loosened
  <2>6. LockSound(u)
    BY <2>4 DEF Good, LockSound
  <2>7. Loose(u, c)
    BY <2>5, <2>6, LoosenedLoose
  <2>8. /\ t \in States /\ Good(t)
        /\ t.gen = s.gen /\ t.queue = s.queue /\ t.owner = s.owner /\ t.depth = s.depth
        /\ t.readers = s.readers /\ t.writers = s.writers /\ t.line = s.line
        /\ t.slot[c] = FreeSlot /\ \A x \in Channels \ {c} : t.slot[x] = s.slot[x]
    BY <2>1, <2>4, <2>7, LooseFrees
  <2>9. SlotsGo(s, t)
    BY <2>8 DEF SlotsGo
  <2>10. FreeSlot.state = "FREE" /\ FreeSlot.result = "none"
    BY DEF FreeSlot
  <2>11. Ordered(s, t)
    BY <2>4, <2>5, <2>8, <2>10, LoosenedOrdered DEF Waiting
  <2>12. ~Parked(s, c, "UPDATE")
    BY <1>2 DEF Parked
  <2> QED BY <1>2, <2>8, <2>9, <2>10, <2>11, <2>12 DEF Swept, t
<1>3. CASE /\ ~(Waiting(s, c) /\ (c = d \/ s.slot[c].target = d))
           /\ ~(s.slot[c].state = "READY" /\ c = d)
  <2>1. t = s
    BY <1>3 DEF Sweep, Waiting
  <2>2. Runs(s, s)
    BY QuietRuns
  <2>3. SlotsGo(s, s) /\ Ordered(s, s)
    BY <2>2, RunsSlotsGo DEF Runs
  <2>4. c = d => s.slot[c].state = "FREE"
    BY <1>3 DEF Waiting, States, SlotRecords, SlotStates
  <2>5. ~(c = d /\ Parked(s, c, "UPDATE"))
    BY <1>3 DEF Waiting, Parked
  <2> HIDE DEF t
  <2> QED BY <1>3, <2>1, <2>3, <2>4, <2>5 DEF Swept, t
<1> QED BY <1>1, <1>2, <1>3

Emptied(s, d) == [s EXCEPT !.queue[d] = 0, !.readers[d] = <<>>, !.writers[d] = <<>>]

\* The recursive function of Drop satisfies its equation.
LEMMA SweepTurns ==
    ASSUME NEW s, NEW d
    PROVE  \E after :
              /\ after = [n \in 0 .. ChannelCount |->
                    IF n = 0 THEN s
                    ELSE IF n - 1 \in Channels THEN Sweep(after[n - 1], d, n - 1)
                    ELSE after[n - 1]]
              /\ Drop(s, d) = Emptied(after[ChannelCount], d)
<1> DEFINE Turn(f, n) == IF n = 0 THEN s
                         ELSE IF n - 1 \in Channels THEN Sweep(f[n - 1], d, n - 1)
                         ELSE f[n - 1]
           Is(f, m) == f = [n \in 0 .. m |-> Turn(f, n)]
           P == {m \in 0 .. ChannelCount : \E f : Is(f, m)}
<1>1. 0 \in P
  <2>1. Is([n \in 0 .. 0 |-> s], 0)
    OBVIOUS
  <2>2. 0 \in 0 .. ChannelCount
    BY ChannelsAssumption
  <2> HIDE DEF Is
  <2> QED BY <2>1, <2>2
<1>2. ASSUME NEW m \in 1 .. ChannelCount, m - 1 \in P PROVE m \in P
  <2>1. PICK f : Is(f, m - 1)
    BY <1>2
  <2> DEFINE g == [n \in 0 .. m |-> IF n = m THEN Turn(f, m) ELSE f[n]]
  <2>2. Is(g, m)
    BY <2>1, ChannelsAssumption
  <2>3. m \in 0 .. ChannelCount
    BY ChannelsAssumption
  <2> HIDE DEF Is, g
  <2> QED BY <2>2, <2>3
<1>3. ChannelCount \in P
  <2> HIDE DEF P
  <2> QED BY <1>1, <1>2, Turns, ChannelsAssumption
<1>4. PICK f : Is(f, ChannelCount)
  BY <1>3
<1>5. Drop(s, d) = Emptied((CHOOSE g : Is(g, ChannelCount))[ChannelCount], d)
  BY DEF Drop, ForEachChannel, Emptied
<1>6. Is(CHOOSE g : Is(g, ChannelCount), ChannelCount)
  <2> HIDE DEF Is
  <2> QED BY <1>4
<1> QED BY <1>5, <1>6

\* What the sweep of channel d leaves.
Dropped(s, t, d) ==
    /\ t \in States /\ Good(t)
    /\ t.gen = s.gen /\ t.owner = s.owner /\ t.depth = s.depth
    /\ SlotsGo(s, t) /\ Ordered(s, t)
    /\ t.slot[d].state = "FREE"
    /\ \A x \in Channels : Waiting(t, x) => t.slot[x].target # d
    /\ t.line = IF Parked(s, d, "UPDATE") THEN Without(s.line, d) ELSE s.line
    /\ t.readers[d] = <<>> /\ t.writers[d] = <<>>
    /\ \A y \in Channels \ {d} :
          /\ t.queue[y] = s.queue[y]
          /\ Parked(s, d, "FORM") =>
                t.readers[y] = s.readers[y] /\ t.writers[y] = s.writers[y]

\* A queue that nobody is parked for has empty lists.
LEMMA Deserted ==
    ASSUME NEW s \in States, Good(s), NEW d \in Channels,
           \A x \in Channels : Waiting(s, x) => s.slot[x].target # d
    PROVE  s.readers[d] = <<>> /\ s.writers[d] = <<>>
<1>1. \A c \in Channels : ~Listed(s.readers[d], c) /\ ~Listed(s.writers[d], c)
  BY DEF Good, Linked, LinkedAt, Parked, Waiting
<1>2. /\ s.readers[d] \in Seq(Channels) /\ s.writers[d] \in Seq(Channels)
      /\ NoRepeats(s.readers[d]) /\ NoRepeats(s.writers[d])
  BY DEF States, Good, NobodyTwice
<1> QED BY <1>1, <1>2, TailListed

\* After the sweep nothing of the dying channel is left, and nothing on its queue.
LEMMA DropSweeps ==
    ASSUME NEW s \in States, Good(s), NEW d \in Channels
    PROVE  Dropped(s, Drop(s, d), d)
<1>1. PICK after :
         /\ after = [n \in 0 .. ChannelCount |->
               IF n = 0 THEN s
               ELSE IF n - 1 \in Channels THEN Sweep(after[n - 1], d, n - 1)
               ELSE after[n - 1]]
         /\ Drop(s, d) = Emptied(after[ChannelCount], d)
  BY SweepTurns
<1> DEFINE Done(u, n) ==
              /\ u \in States /\ Good(u)
              /\ u.gen = s.gen /\ u.queue = s.queue /\ u.owner = s.owner /\ u.depth = s.depth
              /\ SlotsGo(s, u) /\ Ordered(s, u)
              /\ \A x \in Channels :
                    IF x < n
                    THEN IF x = d THEN u.slot[x].state = "FREE"
                         ELSE Waiting(u, x) => u.slot[x].target # d
                    ELSE u.slot[x] = s.slot[x]
              /\ u.line = IF d < n /\ Parked(s, d, "UPDATE") THEN Without(s.line, d) ELSE s.line
              /\ \A y \in Channels \ {d} : Parked(s, d, "FORM") =>
                    u.readers[y] = s.readers[y] /\ u.writers[y] = s.writers[y]
           P == {n \in 0 .. ChannelCount : Done(after[n], n)}
<1>2. 0 \in P
  <2>1. after[0] = s
    BY <1>1, ChannelsAssumption
  <2>2. \A x \in Channels : ~(x < 0)
    BY ChannelsAssumption
  <2>3. 0 \in 0 .. ChannelCount
    BY ChannelsAssumption
  <2>4. SlotsGo(s, s) /\ Ordered(s, s)
    <3>1. Runs(s, s)
      BY QuietRuns
    <3> QED BY <3>1, RunsSlotsGo DEF Runs
  <2>5. Done(s, 0)
    BY <2>2, <2>4
  <2> QED BY <2>1, <2>3, <2>5
<1>3. ASSUME NEW n \in 1 .. ChannelCount, n - 1 \in P PROVE n \in P
  <2>1. PICK u, v, x : u = after[n - 1] /\ v = after[n] /\ x = n - 1
    OBVIOUS
  <2>2. Done(u, x)
    BY <1>3, <2>1
  <2>3. v = IF x \in Channels THEN Sweep(u, d, x) ELSE u
    BY <1>1, <2>1, ChannelsAssumption
  <2>4. (\A y \in Channels : y < n <=> y < x \/ y = x) /\ ~(x < x)
    BY <2>1, ChannelsAssumption
  <2>5. n \in 0 .. ChannelCount
    BY ChannelsAssumption
  <2>6. CASE x \in Channels
    <3>1. Swept(u, v, d, x)
      BY <2>2, <2>3, <2>6, SweepTurn
    <3>2. v \in States /\ Good(v) /\ SlotsGo(u, v) /\ Ordered(u, v)
          /\ v.gen = u.gen /\ v.queue = u.queue /\ v.owner = u.owner /\ v.depth = u.depth
      BY <3>1 DEF Swept
    <3>3. SlotsGo(s, v) /\ Ordered(s, v)
      BY <2>2, <3>2, SlotsGoTrans, OrderedTrans
    <3>4. ASSUME NEW y \in Channels
          PROVE  IF y < n
                 THEN IF y = d THEN v.slot[y].state = "FREE"
                      ELSE Waiting(v, y) => v.slot[y].target # d
                 ELSE v.slot[y] = s.slot[y]
      <4>1. CASE y = x
        BY <2>4, <3>1, <4>1 DEF Swept
      <4>2. CASE y # x
        <5>1. v.slot[y] = u.slot[y]
          BY <3>1, <4>2 DEF Swept
        <5> QED BY <2>2, <2>4, <4>2, <5>1 DEF Waiting
      <4> QED BY <4>1, <4>2
    <3>5. u.slot[x] = s.slot[x]
      BY <2>2, <2>4, <2>6
    <3>6. v.line = IF d < n /\ Parked(s, d, "UPDATE") THEN Without(s.line, d) ELSE s.line
      BY <2>2, <2>4, <3>1, <3>5 DEF Swept, Parked
    <3>7. ASSUME NEW y \in Channels \ {d}, Parked(s, d, "FORM")
          PROVE  v.readers[y] = s.readers[y] /\ v.writers[y] = s.writers[y]
      <4>1. x # d \/ Parked(u, x, "FORM")
        BY <3>5, <3>7 DEF Parked
      <4>2. v.readers[y] = u.readers[y] /\ v.writers[y] = u.writers[y]
        BY <3>1, <4>1 DEF Swept
      <4> QED BY <2>2, <3>7, <4>2
    <3>8. Done(v, n)
      BY <2>2, <3>2, <3>3, <3>4, <3>6, <3>7
    <3> QED BY <2>1, <2>5, <3>8
  <2>7. CASE x \notin Channels
    <3>1. Done(v, n)
      BY <2>2, <2>3, <2>4, <2>7
    <3> QED BY <2>1, <2>5, <3>1
  <2> QED BY <2>6, <2>7
<1>4. ChannelCount \in P
  <2> HIDE DEF P
  <2> QED BY <1>2, <1>3, Turns, ChannelsAssumption
<1>5. \A x \in Channels : x < ChannelCount
  BY ChannelsAssumption
<1>6. PICK u : u = after[ChannelCount]
  OBVIOUS
<1>7. /\ u \in States /\ Good(u)
      /\ u.gen = s.gen /\ u.queue = s.queue /\ u.owner = s.owner /\ u.depth = s.depth
      /\ SlotsGo(s, u) /\ Ordered(s, u)
      /\ u.slot[d].state = "FREE" /\ \A x \in Channels : Waiting(u, x) => u.slot[x].target # d
      /\ u.line = IF Parked(s, d, "UPDATE") THEN Without(s.line, d) ELSE s.line
      /\ \A y \in Channels \ {d} : Parked(s, d, "FORM") =>
            u.readers[y] = s.readers[y] /\ u.writers[y] = s.writers[y]
  BY <1>4, <1>5, <1>6 DEF Waiting
<1>8. u.readers[d] = <<>> /\ u.writers[d] = <<>>
  BY <1>7, Deserted
<1> DEFINE t == Drop(s, d)
<1>9. t = [u EXCEPT !.queue = [u.queue EXCEPT ![d] = 0], !.readers = [u.readers EXCEPT ![d] = <<>>],
                    !.writers = [u.writers EXCEPT ![d] = <<>>]]
  BY <1>1, <1>6, <1>7 DEF States, Emptied
<1> HIDE DEF t
<1>10. /\ t.gen = u.gen /\ t.slot = u.slot /\ t.ready = u.ready /\ t.line = u.line
       /\ t.owner = u.owner /\ t.depth = u.depth
       /\ t.readers = u.readers /\ t.writers = u.writers
       /\ t.queue = [u.queue EXCEPT ![d] = 0]
  BY <1>7, <1>8, <1>9 DEF States
<1>11. t \in States
  <2>1. 0 \in 0 .. QueueBytes
    BY SizesAssumption
  <2> QED BY <1>7, <1>8, <1>9, <2>1, EmptySeq DEF States
<1>12. Good(t)
  BY <1>7, <1>10 DEF Good, NobodyTwice, Linked, LinkedAt, Parked, Targeted, Current, LockSound, Waiting
<1>13. SlotsGo(s, t) /\ Ordered(s, t)
  BY <1>7, <1>10 DEF SlotsGo, Ordered, Fair, Waiting
<1>14. \A y \in Channels \ {d} : t.queue[y] = s.queue[y]
  BY <1>7, <1>10 DEF States
<1> QED BY <1>7, <1>8, <1>10, <1>11, <1>12, <1>13, <1>14 DEF Dropped, Waiting, t

----------------------------------------------------------------------------
(* The end of a PD *)

\* What channel c, letting go or dying, can do to the lock: nothing, hand it
\* on, or leave the line.
LockLeft(s, t, c) ==
    \/ t.owner = s.owner /\ t.line = s.line
    \/ s.owner = c /\ Hands(s, t)
    \/ /\ Parked(s, c, "UPDATE")
       /\ t.owner = s.owner /\ t.line = Without(s.line, c)

\* The rest of gem_resident_detach, for a channel that is swept.
LEMMA DetachLeaves ==
    ASSUME NEW s \in States, Good(s), NeverIdle(s), NEW c \in Channels,
           s.slot[c].state = "FREE",
           \A x \in Channels : Waiting(s, x) => s.slot[x].target # c,
           NEW pds \in SUBSET Channels
    PROVE  LET t == Detach(s, c, pds)
           IN  /\ t \in States /\ Good(t) /\ NeverIdle(t)
               /\ SlotsGo(s, t) /\ Ordered(s, t) /\ Dry(s, t)
               /\ t.slot[c].state = "FREE"
               /\ \A x \in Channels \ {c} : t.gen[x] = s.gen[x]
               /\ (t.owner = s.owner /\ t.line = s.line) \/ (s.owner = c /\ Hands(s, t))
<1> DEFINE p == Post(s, pds)
           r == IF p.owner = c THEN [p EXCEPT !.owner = NONE, !.depth = 0] ELSE p
           u == UpdateProgress(r)
           t == [u EXCEPT !.gen[c] = 0, !.queue[c] = 0, !.readers[c] = <<>>, !.writers[c] = <<>>]
<1>1. Detach(s, c, pds) = t
  BY DEF Detach
<1>2. p \in States /\ Good(p) /\ Runs(s, p) /\ LockSame(s, p)
  BY PostRunsDry, PumpedRuns
<1> HIDE DEF p
<1>3. /\ r \in States
      /\ r.gen = p.gen /\ r.slot = p.slot /\ r.ready = p.ready /\ r.queue = p.queue
      /\ r.readers = p.readers /\ r.writers = p.writers /\ r.line = p.line
      /\ IF p.owner = c THEN r.owner = NONE /\ r.depth = 0
         ELSE r.owner = p.owner /\ r.depth = p.depth
  <2>1. 0 \in 0 .. MaxDepth
    BY SizesAssumption
  <2> QED BY <1>2, <2>1 DEF States
<1> HIDE DEF r
<1>4. Good(r)
  <2>1. NobodyTwice(r) /\ Linked(r) /\ Targeted(r) /\ Current(r)
    BY <1>2, <1>3 DEF Good, NobodyTwice, Linked, LinkedAt, Parked, Targeted, Current, Waiting
  <2>2. LockSound(r)
    BY <1>2, <1>3 DEF Good, LockSound
  <2> QED BY <2>1, <2>2 DEF Good
<1>5. Runs(s, r)
  <2>1. Runs(p, r)
    BY <1>3, <1>4, QuietRuns
  <2> QED BY <1>2, <1>3, <1>4, <2>1, RunsTrans
<1>6. /\ u \in States /\ Good(u) /\ NeverIdle(u) /\ Runs(r, u)
      /\ IF r.line = <<>> \/ r.owner # NONE THEN u = r
         ELSE u.owner = Head(r.line) /\ u.line = Tail(r.line)
  BY <1>3, <1>4, ProgressHandsOn
<1> HIDE DEF u
<1>7. Runs(s, u)
  BY <1>5, <1>6, RunsTrans
<1>8. u.slot[c].state = "FREE" /\ \A x \in Channels : Waiting(u, x) => u.slot[x].target # c
  BY <1>7 DEF Runs, Waiting
<1>9. u.readers[c] = <<>> /\ u.writers[c] = <<>>
  BY <1>6, <1>8, Deserted
<1>10. (u.owner = s.owner /\ u.line = s.line) \/ (s.owner = c /\ Hands(s, u))
  <2>1. p.owner = s.owner /\ p.line = s.line
    BY <1>2 DEF LockSame
  <2>2. c # NONE
    BY ChannelsAssumption
  <2> QED BY <1>3, <1>6, <2>1, <2>2 DEF Hands, NeverIdle
<1>11. u.owner # c
  <2>1. CASE r.line = <<>> \/ r.owner # NONE
    <3>1. r.owner # c
      BY <1>3, ChannelsAssumption
    <3> QED BY <1>6, <2>1, <3>1
  <2>2. CASE ~(r.line = <<>> \/ r.owner # NONE)
    <3>1. Listed(r.line, Head(r.line)) /\ Head(r.line) \in Channels
      BY <1>3, <1>4, <2>2, TailListed DEF States, Good, NobodyTwice
    <3>2. Waiting(r, Head(r.line))
      BY <1>4, <3>1 DEF Good, Linked, LinkedAt, Parked, Waiting
    <3>3. ~Waiting(r, c)
      BY <1>5 DEF Runs, Waiting
    <3> QED BY <1>6, <2>2, <3>2, <3>3
  <2> QED BY <2>1, <2>2
<1>12. t = [u EXCEPT !.gen = [u.gen EXCEPT ![c] = 0], !.queue = [u.queue EXCEPT ![c] = 0]]
  <2>1. t = [u EXCEPT !.gen = [u.gen EXCEPT ![c] = 0], !.queue = [u.queue EXCEPT ![c] = 0],
                      !.readers = [u.readers EXCEPT ![c] = <<>>],
                      !.writers = [u.writers EXCEPT ![c] = <<>>]]
    BY <1>6 DEF States
  <2>2. [u.readers EXCEPT ![c] = <<>>] = u.readers /\ [u.writers EXCEPT ![c] = <<>>] = u.writers
    BY <1>6, <1>9 DEF States
  <2> HIDE DEF t
  <2> QED BY <1>6, <2>1, <2>2 DEF States
<1> HIDE DEF t
<1>13. /\ t \in States
       /\ t.slot = u.slot /\ t.ready = u.ready /\ t.line = u.line
       /\ t.owner = u.owner /\ t.depth = u.depth
       /\ t.readers = u.readers /\ t.writers = u.writers
       /\ t.gen = [u.gen EXCEPT ![c] = 0] /\ t.queue = [u.queue EXCEPT ![c] = 0]
  <2>1. 0 \in 0 .. QueueBytes /\ 0 \in 0 .. MaxGeneration
    BY SizesAssumption
  <2> QED BY <1>6, <1>12, <2>1 DEF States
<1>14. \A x \in Channels \ {c} : t.gen[x] = u.gen[x] /\ t.queue[x] = u.queue[x]
  BY <1>6, <1>13 DEF States
<1>15. Good(t)
  <2>1. NobodyTwice(t) /\ Linked(t) /\ Targeted(t)
    BY <1>6, <1>13 DEF Good, NobodyTwice, Linked, LinkedAt, Parked, Targeted, Waiting
  <2>2. Current(t)
    BY <1>6, <1>8, <1>13, <1>14 DEF Good, Current, Targeted, Waiting
  <2>3. LockSound(t)
    <3>1. t.owner # NONE => t.gen[t.owner] = u.gen[u.owner]
      BY <1>6, <1>11, <1>13, <1>14 DEF States
    <3> QED BY <1>6, <1>13, <3>1 DEF Good, LockSound
  <2> QED BY <2>1, <2>2, <2>3 DEF Good
<1>16. SlotsGo(s, t) /\ Ordered(s, t)
  <2>1. SlotsGo(s, u) /\ Ordered(s, u)
    BY <1>7, RunsSlotsGo DEF Runs
  <2> QED BY <1>13, <2>1 DEF SlotsGo, Ordered, Fair, Waiting
<1>17. Dry(s, t)
  <2>1. ASSUME NEW x \in Channels, HeadCanGo(t, x)
        PROVE  /\ t.queue[x] = s.queue[x]
               /\ t.readers[x] = s.readers[x] /\ t.writers[x] = s.writers[x]
    <3>1. x # c
      BY <1>9, <1>13, <2>1 DEF HeadCanGo
    <3>2. HeadCanGo(u, x)
      BY <1>13, <1>14, <2>1, <3>1 DEF HeadCanGo
    <3> QED BY <1>7, <1>13, <1>14, <3>1, <3>2 DEF Runs, Dry
  <2> QED BY <2>1 DEF Dry
<1>18. \A x \in Channels \ {c} : t.gen[x] = s.gen[x]
  BY <1>7, <1>14 DEF Runs
<1>19. NeverIdle(t)
  BY <1>6, <1>13 DEF NeverIdle
<1>20. (t.owner = s.owner /\ t.line = s.line) \/ (s.owner = c /\ Hands(s, t))
  BY <1>10, <1>13 DEF Hands
<1>21. t.slot[c].state = "FREE"
  BY <1>8, <1>13
<1> HIDE DEF Detach
<1> QED BY <1>1, <1>13, <1>15, <1>16, <1>17, <1>18, <1>19, <1>20, <1>21

\* A queue whose bytes changed has been pumped dry.
Calm(s, t) == \A x \in Channels : t.queue[x] # s.queue[x] => ~HeadCanGo(t, x)

\* What follows a calm piece of a handler, and is dry, keeps it calm.
LEMMA CalmDry ==
    ASSUME NEW s, NEW t, NEW u \in States, Good(u), SlotsGo(t, u), Calm(s, t), Dry(t, u)
    PROVE  Calm(s, u)
<1>1. SUFFICES ASSUME NEW x \in Channels, u.queue[x] # s.queue[x], HeadCanGo(u, x)
               PROVE  FALSE
  BY DEF Calm
<1>2. /\ u.queue[x] = t.queue[x]
      /\ u.readers[x] = t.readers[x] /\ u.writers[x] = t.writers[x]
  BY <1>1 DEF Dry
<1>3. ~HeadCanGo(t, x)
  BY <1>1, <1>2 DEF Calm
<1> QED BY <1>1, <1>2, <1>3, StillStuck

\* What the end of channel c leaves.
Ended(s, t, c) ==
    /\ t \in States /\ Good(t) /\ NeverIdle(t)
    /\ SlotsGo(s, t) /\ Ordered(s, t) /\ Calm(s, t)
    /\ t.slot[c].state = "FREE"
    /\ \A x \in Channels \ {c} : t.gen[x] = s.gen[x]
    /\ LockLeft(s, t, c)

\* A channel without an open form is swept and detached.
LEMMA QuietEnd ==
    ASSUME NEW s \in States, Good(s), NeverIdle(s), NEW c \in Channels, ~Parked(s, c, "FORM"),
           NEW pds \in SUBSET Channels
    PROVE  Ended(s, Detach(Drop(s, c), c, pds), c)
<1> DEFINE d == Drop(s, c)
           t == Detach(d, c, pds)
<1>1. Dropped(s, d, c)
  BY DropSweeps
<1> HIDE DEF d
<1>2. NeverIdle(d) /\ (Parked(s, c, "UPDATE") => s.owner # NONE /\ s.owner # c)
  <2>1. Parked(s, c, "UPDATE") => Listed(s.line, c) /\ s.line # <<>>
    BY EmptySeq DEF Good, Linked, LinkedAt, Listed
  <2> QED BY <1>1, <2>1 DEF Dropped, NeverIdle, Good, LockSound
<1>3. /\ t \in States /\ Good(t) /\ NeverIdle(t)
      /\ SlotsGo(d, t) /\ Ordered(d, t) /\ Dry(d, t)
      /\ t.slot[c].state = "FREE"
      /\ \A x \in Channels \ {c} : t.gen[x] = d.gen[x]
      /\ (t.owner = d.owner /\ t.line = d.line) \/ (d.owner = c /\ Hands(d, t))
  BY <1>1, <1>2, DetachLeaves DEF Dropped
<1> HIDE DEF t
<1>4. SlotsGo(s, t) /\ Ordered(s, t)
  BY <1>1, <1>3, SlotsGoTrans, OrderedTrans DEF Dropped
<1>5. Calm(s, t)
  <2>1. Calm(s, d)
    BY <1>1 DEF Dropped, Calm, HeadCanGo
  <2> QED BY <1>3, <2>1, CalmDry
<1>6. LockLeft(s, t, c)
  BY <1>1, <1>2, <1>3 DEF Dropped, LockLeft, Hands
<1>7. \A x \in Channels \ {c} : t.gen[x] = s.gen[x]
  BY <1>1, <1>3 DEF Dropped
<1> QED BY <1>3, <1>4, <1>5, <1>6, <1>7 DEF Ended, t, d

\* One with an open form is wound down first, and left there if the redraw
\* is refused.
LEMMA FormEnd ==
    ASSUME NEW s \in States, Good(s), NeverIdle(s), NEW c \in Channels, Parked(s, c, "FORM"),
           NEW alertPds \in SUBSET Channels, NEW pds \in SUBSET Channels,
           NEW d, d = Drop(WindDown(s, c, alertPds).state, c),
           NEW t \in {d, Detach(d, c, pds)}
    PROVE  Ended(s, t, c)
<1>1. PICK w : w = WindDown(s, c, alertPds).state
  OBVIOUS
<1>2. Releases(s, w, c) /\ w.slot[c] = s.slot[c]
  BY <1>1, WindDownReleases
<1>3. w \in States /\ Good(w) /\ NeverIdle(w) /\ SlotsGo(s, w) /\ Ordered(s, w) /\ Dry(s, w)
      /\ w.gen = s.gen /\ Parked(w, c, "FORM")
  BY <1>2, RunsSlotsGo DEF Releases, Runs, Parked
<1>4. Dropped(w, d, c)
  BY <1>1, <1>3, DropSweeps
<1>5. d \in States /\ Good(d) /\ SlotsGo(w, d) /\ Ordered(w, d)
      /\ d.gen = w.gen /\ d.slot[c].state = "FREE"
      /\ d.owner = w.owner /\ d.line = w.line
  BY <1>3, <1>4 DEF Dropped, Parked
<1>6. Dry(w, d)
  BY <1>3, <1>4 DEF Dropped, Dry, HeadCanGo
<1>7. NeverIdle(d)
  BY <1>3, <1>5 DEF NeverIdle
<1>8. SlotsGo(s, d) /\ Ordered(s, d) /\ Dry(s, d)
  <2>1. SlotsGo(s, d) /\ Ordered(s, d)
    BY <1>3, <1>5, SlotsGoTrans, OrderedTrans
  <2> QED BY <1>3, <1>5, <1>6, <2>1, DryTrans
<1>9. (d.owner = s.owner /\ d.line = s.line) \/ (s.owner = c /\ Hands(s, d) /\ d.owner # c)
  <2>1. ASSUME Hands(s, w) PROVE w.owner # c
    <3>1. CASE s.line = <<>>
      BY <2>1, <3>1, ChannelsAssumption DEF Hands
    <3>2. CASE s.line # <<>>
      <4>1. Listed(s.line, Head(s.line))
        BY <3>2, TailListed DEF States, Good, NobodyTwice
      <4>2. ~Listed(s.line, c)
        BY DEF Good, Linked, LinkedAt, Parked
      <4> QED BY <2>1, <3>2, <4>1, <4>2 DEF Hands
    <3> QED BY <3>1, <3>2
  <2> QED BY <1>2, <1>5, <2>1 DEF Releases, Hands
<1>10. ASSUME t = d PROVE Ended(s, t, c)
  <2>1. Calm(s, d)
    BY <1>8 DEF Dry, Calm
  <2>2. LockLeft(s, d, c)
    BY <1>9 DEF LockLeft
  <2> QED BY <1>3, <1>5, <1>7, <1>8, <1>10, <2>1, <2>2 DEF Ended
<1>11. ASSUME t = Detach(d, c, pds) PROVE Ended(s, t, c)
  <2>1. /\ t \in States /\ Good(t) /\ NeverIdle(t)
        /\ SlotsGo(d, t) /\ Ordered(d, t) /\ Dry(d, t)
        /\ t.slot[c].state = "FREE"
        /\ \A x \in Channels \ {c} : t.gen[x] = d.gen[x]
        /\ (t.owner = d.owner /\ t.line = d.line) \/ (d.owner = c /\ Hands(d, t))
    BY <1>4, <1>5, <1>7, <1>11, DetachLeaves DEF Dropped
  <2>2. SlotsGo(s, t) /\ Ordered(s, t)
    BY <1>8, <2>1, SlotsGoTrans, OrderedTrans
  <2>3. Calm(s, t)
    <3>1. Calm(s, d)
      BY <1>8 DEF Dry, Calm
    <3> QED BY <2>1, <3>1, CalmDry
  <2>4. LockLeft(s, t, c)
    BY <1>9, <2>1 DEF LockLeft, Hands
  <2>5. \A x \in Channels \ {c} : t.gen[x] = s.gen[x]
    BY <1>3, <1>5, <2>1
  <2> QED BY <2>1, <2>2, <2>3, <2>4, <2>5 DEF Ended
<1> QED BY <1>10, <1>11

----------------------------------------------------------------------------
(* What an action does to the resident's state *)

\* The lock does one of the things that ScreenLock allows, or nothing.
LockMoves(s, t) ==
    \/ t.owner = s.owner /\ t.line = s.line
    \/ \E c \in Channels :
          s.owner = NONE /\ s.line = <<>> /\ t.owner = c /\ t.line = s.line
    \/ \E c \in Channels :
          /\ s.owner \notin {NONE, c} /\ ~Listed(s.line, c)
          /\ t.line = Append(s.line, c) /\ t.owner = s.owner
    \/ \E c \in Channels :
          Listed(s.line, c) /\ t.line = Without(s.line, c) /\ t.owner = s.owner
    \/ Hands(s, t)

Moved(s, t) ==
    /\ t \in States /\ Good(t) /\ FormsHold(t) /\ NeverIdle(t)
    /\ Ordered(s, t) /\ Calm(s, t) /\ LockMoves(s, t)

\* Handlers that leave the lock alone.
LEMMA RunsMoved ==
    ASSUME NEW s, FormsHold(s), NeverIdle(s),
           NEW t \in States, Good(t), Runs(s, t), LockSame(s, t)
    PROVE  Moved(s, t)
<1>1. FormsHold(t) /\ NeverIdle(t)
  BY DEF FormsHold, NeverIdle, Runs, LockSame, Parked
<1>2. Ordered(s, t) /\ Calm(s, t)
  BY DEF Runs, Dry, Calm
<1>3. LockMoves(s, t)
  BY DEF LockSame, LockMoves
<1> QED BY <1>1, <1>2, <1>3 DEF Moved

\* Nothing happens to the resident.
LEMMA SameMoved ==
    ASSUME NEW s \in States, Good(s), FormsHold(s), NeverIdle(s)
    PROVE  Moved(s, s)
BY QuietRuns, RunsMoved DEF LockSame

\* Handlers that let go of the lock.
LEMMA ReleasesMoved ==
    ASSUME NEW s, FormsHold(s), NEW c, NEW t, Releases(s, t, c), ~Parked(t, c, "FORM")
    PROVE  Moved(s, t)
<1>1. t \in States /\ Good(t) /\ NeverIdle(t) /\ Ordered(s, t) /\ Calm(s, t)
  BY DEF Releases, Runs, Dry, Calm
<1>2. LockMoves(s, t)
  BY DEF Releases, LockMoves
<1>3. FormsHold(t)
  BY DEF FormsHold, Releases, Runs, Parked
<1> QED BY <1>1, <1>2, <1>3 DEF Moved

\* Deaths.
LEMMA EndedMoved ==
    ASSUME NEW s, Linked(s), FormsHold(s), NEW c \in Channels, NEW t, Ended(s, t, c)
    PROVE  Moved(s, t)
<1>1. t \in States /\ Good(t) /\ NeverIdle(t) /\ Ordered(s, t) /\ Calm(s, t)
  BY DEF Ended
<1>2. LockMoves(s, t)
  BY DEF Ended, LockLeft, LockMoves, Linked, LinkedAt
<1>3. FormsHold(t)
  BY DEF FormsHold, Ended, SlotsGo, LockLeft, Parked, FreeSlot
<1> QED BY <1>1, <1>2, <1>3 DEF Moved

----------------------------------------------------------------------------
(* Parking a call *)

\* The list new is the list old, with c behind it if it joins.
Joined(old, new, c, joins) ==
    /\ NoRepeats(new)
    /\ \A x \in Channels : Listed(new, x) <=> Listed(old, x) \/ (joins /\ x = c)
    /\ \A a, b : Before(old, a, b) => Before(new, a, b)

\* Nobody joins the list.
LEMMA JoinedSame ==
    ASSUME NEW list, NoRepeats(list), NEW c
    PROVE  Joined(list, list, c, FALSE)
BY DEF Joined

\* Somebody joins it at the end.
LEMMA JoinedAppend ==
    ASSUME NEW list \in Seq(Channels), NoRepeats(list), NEW c \in Channels, ~Listed(list, c)
    PROVE  Append(list, c) \in Seq(Channels) /\ Joined(list, Append(list, c), c, TRUE)
<1>1. /\ Append(list, c) \in Seq(Channels) /\ NoRepeats(Append(list, c))
      /\ Longer(list, Append(list, c), c)
  BY AppendListed
<1> QED BY <1>1 DEF Joined, Longer

\* gem_pending_park, and the list that the call is put on.
Parks(s, t, c, op, target) ==
    /\ t.gen = s.gen /\ t.queue = s.queue /\ t.ready = s.ready
    /\ t.slot[c].state = "WAITING" /\ t.slot[c].op = op /\ t.slot[c].target = target
    /\ t.slot[c].gen = s.gen[c] /\ t.slot[c].tgen = s.gen[target]
    /\ \A x \in Channels \ {c} : t.slot[x] = s.slot[x]
    /\ Joined(s.line, t.line, c, op = "UPDATE")
    /\ \A y \in Channels :
          /\ Joined(s.readers[y], t.readers[y], c, op = "READ" /\ y = target)
          /\ Joined(s.writers[y], t.writers[y], c, op = "WRITE" /\ y = target)

\* A call that is parked on the list its slot names leaves a good state.
LEMMA ParksGood ==
    ASSUME NEW s \in States, Good(s), NEW c \in Channels, s.slot[c].state = "FREE",
           s.gen[c] # 0, NEW target \in Channels, s.gen[target] # 0,
           NEW op \in {"READ", "WRITE", "EVENT", "FORM", "UPDATE"},
           op \in {"EVENT", "FORM", "UPDATE"} => target = c,
           NEW t \in States, Parks(s, t, c, op, target), LockSound(t)
    PROVE  Good(t) /\ Ordered(s, t) /\ Calm(s, t)
<1>1. NobodyTwice(t)
  BY DEF Good, NobodyTwice, Parks, Joined
<1>2. Linked(t)
  <2>1. LinkedAt(t, c)
    <3>1. /\ ~Listed(s.ready, c) /\ ~Listed(s.line, c)
          /\ \A y \in Channels : ~Listed(s.readers[y], c) /\ ~Listed(s.writers[y], c)
      BY DEF Good, Linked, LinkedAt, Parked
    <3>2. /\ ~Listed(t.ready, c) /\ (Listed(t.line, c) <=> op = "UPDATE")
          /\ \A y \in Channels : /\ Listed(t.readers[y], c) <=> op = "READ" /\ y = target
                                 /\ Listed(t.writers[y], c) <=> op = "WRITE" /\ y = target
      BY <3>1 DEF Parks, Joined
    <3>3. t.slot[c].state = "WAITING" /\ t.slot[c].op = op /\ t.slot[c].target = target
      BY DEF Parks
    <3> QED BY <3>2, <3>3 DEF LinkedAt, Parked
  <2>2. ASSUME NEW x \in Channels, x # c PROVE LinkedAt(t, x)
    <3>1. LinkedAt(s, x) /\ t.slot[x] = s.slot[x] /\ t.ready = s.ready
      BY <2>2 DEF Good, Linked, Parks
    <3>2. /\ Listed(t.line, x) <=> Listed(s.line, x)
          /\ \A y \in Channels : /\ Listed(t.readers[y], x) <=> Listed(s.readers[y], x)
                                 /\ Listed(t.writers[y], x) <=> Listed(s.writers[y], x)
      BY <2>2 DEF Parks, Joined
    <3> QED BY <3>1, <3>2 DEF LinkedAt, Parked
  <2> QED BY <2>1, <2>2 DEF Linked
<1>3. Targeted(t) /\ Current(t)
  BY DEF Good, Targeted, Current, Parks, Waiting
<1>4. ASSUME NEW y \in Channels, NEW old, NEW new,
             \/ old = s.readers[y] /\ new = t.readers[y]
             \/ old = s.writers[y] /\ new = t.writers[y]
      PROVE  Fair(old, new, t)
  <2>1. SUFFICES ASSUME NEW a \in Channels, NEW b \in Channels, Before(old, a, b)
                 PROVE  Waiting(t, b) /\ Before(new, a, b)
    BY DEF Fair
  <2>2. Before(new, a, b)
    BY <1>4, <2>1 DEF Parks, Joined
  <2>3. Listed(new, b)
    BY <2>2 DEF Before, Listed
  <2> QED BY <1>2, <1>4, <2>2, <2>3 DEF Linked, LinkedAt, Parked, Waiting
<1>5. Ordered(s, t)
  BY <1>4 DEF Ordered
<1>6. Calm(s, t)
  BY DEF Parks, Calm
<1> QED BY <1>1, <1>2, <1>3, <1>5, <1>6 DEF Good

\* The record that Park writes.
Parking(s, u, c, op, target) ==
    /\ u \in States
    /\ u.gen = s.gen /\ u.queue = s.queue /\ u.ready = s.ready
    /\ u.readers = s.readers /\ u.writers = s.writers
    /\ u.owner = s.owner /\ u.depth = s.depth /\ u.line = s.line
    /\ u.slot[c].state = "WAITING" /\ u.slot[c].op = op /\ u.slot[c].target = target
    /\ u.slot[c].gen = s.gen[c] /\ u.slot[c].tgen = s.gen[target]
    /\ \A x \in Channels \ {c} : u.slot[x] = s.slot[x]

\* Park changes one slot.
LEMMA ParkIs ==
    ASSUME NEW s \in States, NEW c \in Channels, NEW target \in Channels,
           NEW op \in Operations, NEW len \in Nat
    PROVE  Parking(s, Park(s, c, op, target, len), c, op, target)
<1>0. PICK u : u = Park(s, c, op, target, len)
  OBVIOUS
<1> DEFINE p == [state |-> "WAITING", op |-> op, target |-> target, len |-> len,
                 gen |-> s.gen[c], tgen |-> s.gen[target], result |-> "none"]
<1>1. p \in SlotRecords /\ p.state = "WAITING" /\ p.op = op /\ p.target = target
      /\ p.gen = s.gen[c] /\ p.tgen = s.gen[target] /\ p.len = len
  <2>1. s.gen[c] \in 0 .. MaxGeneration /\ s.gen[target] \in 0 .. MaxGeneration
    BY DEF States
  <2> QED BY <2>1 DEF SlotRecords, SlotStates
<1>2. u = [s EXCEPT !.slot = [s.slot EXCEPT ![c] = p]]
  BY <1>0 DEF Park, States
<1> HIDE DEF p
<1>3. [s.slot EXCEPT ![c] = p] \in [Channels -> SlotRecords]
  BY <1>1 DEF States
<1>4. Parking(s, u, c, op, target)
  BY <1>1, <1>2, <1>3 DEF States, Parking
<1> QED BY <1>0, <1>4

----------------------------------------------------------------------------
(* The actions *)

\* What every action does.
Steps ==
    /\ Moved(aes, aes')
    /\ \A c \in Channels : aes'.slot[c].state # "FREE" => conn'[c] = aes'.gen[c]

\* Held calls that were held before are answerable on the same connections.
LEMMA HeldSteps ==
    ASSUME IInv, Moved(aes, aes'), UNCHANGED conn, aes'.gen = aes.gen,
           \A c \in Channels :
              aes'.slot[c].state # "FREE" => aes.slot[c].state # "FREE" \/ conn[c] = aes.gen[c]
    PROVE  Steps
BY DEF IInv, Steps

\* A handler that parks nothing and lets nobody die.
LEMMA RunsSteps ==
    ASSUME IInv, NEW t, t \in States, Good(t), Runs(aes, t), LockSame(aes, t),
           aes' = t, UNCHANGED conn
    PROVE  Steps
<1>1. Moved(aes, aes')
  BY RunsMoved DEF IInv
<1>2. \A c \in Channels : aes'.slot[c].state # "FREE" => aes.slot[c].state # "FREE"
  BY DEF Runs, Waiting
<1>3. aes'.gen = aes.gen
  BY DEF Runs
<1> QED BY <1>1, <1>2, <1>3, HeldSteps

\* Nothing happens to resident and connections.
LEMMA StutterSteps ==
    ASSUME IInv, aes' = aes, UNCHANGED conn
    PROVE  Steps
BY SameMoved DEF IInv, Steps

\* A new connection: its channel holds no call.
LEMMA ConnectSteps ==
    ASSUME IInv, NEW c \in Channels, Connect(c)
    PROVE  Steps
<1>1. Moved(aes, aes')
  BY SameMoved DEF IInv, Connect
<1>2. aes.slot[c].state = "FREE"
  BY DEF IInv, Good, Current, Connect
<1>3. conn' = [conn EXCEPT ![c] = nextGen] /\ aes' = aes
  BY DEF Connect
<1> QED BY <1>1, <1>2, <1>3 DEF IInv, Steps

\* A PD is attached: its channel holds no call and no lock.
LEMMA ApplInitSteps ==
    ASSUME IInv, NEW c \in Channels, ApplInit(c)
    PROVE  Steps
<1>1. aes' = [aes EXCEPT !.gen[c] = conn[c]] /\ conn' = conn /\ conn[c] # 0 /\ aes.gen[c] = 0
  BY DEF ApplInit, Handled
<1>2. aes \in States /\ Good(aes) /\ FormsHold(aes) /\ NeverIdle(aes)
  BY DEF IInv
<1>3. /\ aes' \in States
      /\ aes'.gen = [aes.gen EXCEPT ![c] = conn[c]]
      /\ aes'.queue = aes.queue /\ aes'.slot = aes.slot /\ aes'.ready = aes.ready
      /\ aes'.readers = aes.readers /\ aes'.writers = aes.writers
      /\ aes'.owner = aes.owner /\ aes'.depth = aes.depth /\ aes'.line = aes.line
  <2>1. conn[c] \in 0 .. MaxGeneration
    BY DEF IInv
  <2>2. aes' = [aes EXCEPT !.gen = [aes.gen EXCEPT ![c] = conn[c]]]
    BY <1>1, <1>2 DEF States
  <2> QED BY <1>2, <2>1, <2>2 DEF States
<1>4. \A x \in Channels \ {c} : aes'.gen[x] = aes.gen[x]
  BY <1>2, <1>3 DEF States
<1>5. aes.slot[c].state = "FREE" /\ \A x \in Channels : Waiting(aes, x) => aes.slot[x].target # c
  BY <1>1, <1>2 DEF Good, Current
<1>6. Good(aes')
  <2>1. NobodyTwice(aes') /\ Linked(aes') /\ Targeted(aes')
    BY <1>2, <1>3 DEF Good, NobodyTwice, Linked, LinkedAt, Parked, Targeted, Waiting
  <2>2. Current(aes')
    BY <1>2, <1>3, <1>4, <1>5 DEF Good, Current, Targeted, Waiting
  <2>3. LockSound(aes')
    BY <1>1, <1>2, <1>3, <1>4 DEF Good, LockSound, States
  <2> QED BY <2>1, <2>2, <2>3 DEF Good
<1>7. FormsHold(aes') /\ NeverIdle(aes')
  BY <1>2, <1>3 DEF FormsHold, NeverIdle, Parked
<1>8. Ordered(aes, aes') /\ Calm(aes, aes') /\ LockMoves(aes, aes')
  <2>1. Ordered(aes, aes)
    BY <1>2, SameMoved DEF Moved
  <2> QED BY <1>3, <2>1 DEF Ordered, Fair, Waiting, Calm, LockMoves
<1> QED BY <1>1, <1>3, <1>4, <1>5, <1>6, <1>7, <1>8 DEF IInv, Steps, Moved

\* Without REINIT a second APPL_INIT changes nothing.
LEMMA ApplInitAgainSteps ==
    ASSUME IInv, NEW c \in Channels, ApplInitAgain(c), "REINIT" \notin Used
    PROVE  Steps
<1>1. aes' = aes /\ conn' = conn
  BY DEF ApplInitAgain, Handled
<1> QED BY <1>1, StutterSteps

\* Reading and writing.
LEMMA RefillSteps ==
    ASSUME IInv, NEW c \in Channels, NEW n \in 0 .. QueueBytes,
           aes' = QueueProgress(Refilled(aes, c, n), c), UNCHANGED conn
    PROVE  Steps
<1>1. aes' \in States /\ Good(aes') /\ Pumped(aes, aes') /\ Dry(aes, aes')
  BY RefillRuns DEF IInv
<1>2. Runs(aes, aes') /\ LockSame(aes, aes')
  BY <1>1, PumpedRuns
<1> QED BY <1>1, <1>2, RunsSteps

\* A call that is parked, the lock aside.
LEMMA ParkSteps ==
    ASSUME IInv, NEW c \in Channels, CanCall(c), NEW target \in Channels, aes.gen[target] # 0,
           NEW op \in {"READ", "WRITE", "EVENT", "FORM", "UPDATE"},
           op \in {"EVENT", "FORM", "UPDATE"} => target = c,
           aes' \in States, Parks(aes, aes', c, op, target), UNCHANGED conn,
           LockSound(aes'), FormsHold(aes'), NeverIdle(aes'), LockMoves(aes, aes')
    PROVE  Steps
<1>1. /\ aes \in States /\ Good(aes) /\ aes.slot[c].state = "FREE"
      /\ aes.gen[c] # 0 /\ conn[c] = aes.gen[c]
  BY DEF IInv, CanCall
<1>2. Good(aes') /\ Ordered(aes, aes') /\ Calm(aes, aes')
  BY <1>1, ParksGood
<1>3. Moved(aes, aes')
  BY <1>2 DEF Moved
<1>4. aes'.gen = aes.gen /\ \A x \in Channels \ {c} : aes'.slot[x] = aes.slot[x]
  BY DEF Parks
<1> QED BY <1>1, <1>3, <1>4, HeldSteps

\* APPL_WRITE: the bytes go in and the pump runs, or the call is parked.
LEMMA ApplWriteSteps ==
    ASSUME IInv, NEW c \in Channels, NEW t \in Channels, NEW len \in Lengths, ApplWrite(c, t, len)
    PROVE  Steps
<1>1. CanCall(c) /\ aes.gen[t] # 0 /\ aes \in States /\ Good(aes)
      /\ FormsHold(aes) /\ NeverIdle(aes) /\ conn' = conn
  BY DEF ApplWrite, Handled, IInv
<1>2. PICK q \in 0 .. QueueBytes : q = aes.queue[t]
  BY <1>1 DEF States
<1>3. len \in 1 .. QueueBytes
  BY SizesAssumption
<1>4. CASE len <= QueueBytes - q
  <2>1. q + len \in 0 .. QueueBytes
    BY <1>2, <1>3, <1>4, SizesAssumption
  <2>2. aes' = QueueProgress(Refilled(aes, t, q + len), t)
    BY <1>2, <1>4 DEF ApplWrite, Handled, Refilled
  <2> QED BY <1>1, <2>1, <2>2, RefillSteps
<1>5. CASE ~(len <= QueueBytes - q)
  <2>1. PICK u : u = Park(aes, c, "WRITE", t, len)
    OBVIOUS
  <2>2. aes' = [u EXCEPT !.writers[t] = Append(u.writers[t], c)]
    BY <1>2, <1>5, <2>1 DEF ApplWrite, Handled
  <2>3. Parking(aes, u, c, "WRITE", t)
    <3>1. "WRITE" \in Operations /\ len \in Nat
      BY <1>3 DEF Operations
    <3> QED BY <1>1, <2>1, <3>1, ParkIs
  <2>4. /\ Append(aes.writers[t], c) \in Seq(Channels)
        /\ Joined(aes.writers[t], Append(aes.writers[t], c), c, TRUE)
    <3>1. ~Listed(aes.writers[t], c) /\ NoRepeats(aes.writers[t]) /\ aes.writers[t] \in Seq(Channels)
      BY <1>1 DEF CanCall, Good, Linked, LinkedAt, Parked, NobodyTwice, States
    <3> QED BY <3>1, JoinedAppend
  <2>5. aes' = [u EXCEPT !.writers = [u.writers EXCEPT ![t] = Append(u.writers[t], c)]]
    BY <2>2, <2>3 DEF States, Parking
  <2>6. /\ aes' \in States
        /\ aes'.gen = u.gen /\ aes'.queue = u.queue /\ aes'.ready = u.ready
        /\ aes'.slot = u.slot /\ aes'.readers = u.readers
        /\ aes'.writers = [u.writers EXCEPT ![t] = Append(u.writers[t], c)]
        /\ aes'.owner = u.owner /\ aes'.depth = u.depth /\ aes'.line = u.line
    BY <2>3, <2>4, <2>5 DEF States, Parking
  <2>7. Parks(aes, aes', c, "WRITE", t)
    <3>1. \A y \in Channels : Joined(aes.writers[y], aes'.writers[y], c, "WRITE" = "WRITE" /\ y = t)
      <4>1. ASSUME NEW y \in Channels, y # t
            PROVE  Joined(aes.writers[y], aes'.writers[y], c, FALSE)
        <5>1. aes'.writers[y] = aes.writers[y] /\ NoRepeats(aes.writers[y])
          BY <1>1, <2>3, <2>6, <4>1 DEF Parking, Good, NobodyTwice, States
        <5> QED BY <5>1, JoinedSame
      <4>2. Joined(aes.writers[t], aes'.writers[t], c, TRUE)
        <5>1. u.writers = aes.writers /\ u.writers \in [Channels -> Seq(Channels)]
          BY <1>1, <2>3 DEF States, Parking
        <5>2. aes'.writers[t] = Append(aes.writers[t], c)
          BY <2>6, <5>1
        <5> QED BY <2>4, <5>2
      <4> QED BY <4>1, <4>2 DEF Joined
    <3>2. /\ Joined(aes.line, aes'.line, c, FALSE)
          /\ \A y \in Channels : Joined(aes.readers[y], aes'.readers[y], c, FALSE)
      BY <1>1, <2>3, <2>6, JoinedSame DEF Good, NobodyTwice, Parking
    <3>3. "WRITE" # "UPDATE" /\ "WRITE" # "READ"
      OBVIOUS
    <3> QED BY <2>3, <2>6, <3>1, <3>2, <3>3 DEF Parks, Joined, Parking
  <2>8. FormsHold(aes') /\ NeverIdle(aes') /\ LockSound(aes') /\ LockMoves(aes, aes')
    BY <1>1, <2>3, <2>6 DEF FormsHold, NeverIdle, Good, LockSound, LockMoves, Parked, Parking
  <2> QED BY <1>1, <2>6, <2>7, <2>8, ParkSteps
<1> QED BY <1>4, <1>5

\* APPL_READ: the bytes come out and the pump runs, or the call is parked.
LEMMA ApplReadSteps ==
    ASSUME IInv, NEW c \in Channels, NEW t \in Channels, NEW len \in Lengths, ApplRead(c, t, len)
    PROVE  Steps
<1>1. CanCall(c) /\ aes.gen[t] # 0 /\ aes \in States /\ Good(aes)
      /\ FormsHold(aes) /\ NeverIdle(aes) /\ conn' = conn
  BY DEF ApplRead, Handled, IInv
<1>2. PICK q \in 0 .. QueueBytes : q = aes.queue[t]
  BY <1>1 DEF States
<1>3. len \in 1 .. QueueBytes
  BY SizesAssumption
<1>4. CASE len <= q
  <2>1. q - len \in 0 .. QueueBytes
    BY <1>2, <1>3, <1>4, SizesAssumption
  <2>2. aes' = QueueProgress(Refilled(aes, t, q - len), t)
    BY <1>2, <1>4 DEF ApplRead, Handled, Refilled
  <2> QED BY <1>1, <2>1, <2>2, RefillSteps
<1>5. CASE ~(len <= q)
  <2>1. PICK u : u = Park(aes, c, "READ", t, len)
    OBVIOUS
  <2>2. aes' = [u EXCEPT !.readers[t] = Append(u.readers[t], c)]
    BY <1>2, <1>5, <2>1 DEF ApplRead, Handled
  <2>3. Parking(aes, u, c, "READ", t)
    <3>1. "READ" \in Operations /\ len \in Nat
      BY <1>3 DEF Operations
    <3> QED BY <1>1, <2>1, <3>1, ParkIs
  <2>4. /\ Append(aes.readers[t], c) \in Seq(Channels)
        /\ Joined(aes.readers[t], Append(aes.readers[t], c), c, TRUE)
    <3>1. ~Listed(aes.readers[t], c) /\ NoRepeats(aes.readers[t]) /\ aes.readers[t] \in Seq(Channels)
      BY <1>1 DEF CanCall, Good, Linked, LinkedAt, Parked, NobodyTwice, States
    <3> QED BY <3>1, JoinedAppend
  <2>5. aes' = [u EXCEPT !.readers = [u.readers EXCEPT ![t] = Append(u.readers[t], c)]]
    BY <2>2, <2>3 DEF States, Parking
  <2>6. /\ aes' \in States
        /\ aes'.gen = u.gen /\ aes'.queue = u.queue /\ aes'.ready = u.ready
        /\ aes'.slot = u.slot /\ aes'.writers = u.writers
        /\ aes'.readers = [u.readers EXCEPT ![t] = Append(u.readers[t], c)]
        /\ aes'.owner = u.owner /\ aes'.depth = u.depth /\ aes'.line = u.line
    BY <2>3, <2>4, <2>5 DEF States, Parking
  <2>7. Parks(aes, aes', c, "READ", t)
    <3>1. \A y \in Channels : Joined(aes.readers[y], aes'.readers[y], c, "READ" = "READ" /\ y = t)
      <4>1. ASSUME NEW y \in Channels, y # t
            PROVE  Joined(aes.readers[y], aes'.readers[y], c, FALSE)
        <5>1. aes'.readers[y] = aes.readers[y] /\ NoRepeats(aes.readers[y])
          BY <1>1, <2>3, <2>6, <4>1 DEF Parking, Good, NobodyTwice, States
        <5> QED BY <5>1, JoinedSame
      <4>2. Joined(aes.readers[t], aes'.readers[t], c, TRUE)
        <5>1. u.readers = aes.readers /\ u.readers \in [Channels -> Seq(Channels)]
          BY <1>1, <2>3 DEF States, Parking
        <5>2. aes'.readers[t] = Append(aes.readers[t], c)
          BY <2>6, <5>1
        <5> QED BY <2>4, <5>2
      <4> QED BY <4>1, <4>2 DEF Joined
    <3>2. /\ Joined(aes.line, aes'.line, c, FALSE)
          /\ \A y \in Channels : Joined(aes.writers[y], aes'.writers[y], c, FALSE)
      BY <1>1, <2>3, <2>6, JoinedSame DEF Good, NobodyTwice, Parking
    <3>3. "READ" # "UPDATE" /\ "READ" # "WRITE"
      OBVIOUS
    <3> QED BY <2>3, <2>6, <3>1, <3>2, <3>3 DEF Parks, Joined, Parking
  <2>8. FormsHold(aes') /\ NeverIdle(aes') /\ LockSound(aes') /\ LockMoves(aes, aes')
    BY <1>1, <2>3, <2>6 DEF FormsHold, NeverIdle, Good, LockSound, LockMoves, Parked, Parking
  <2> QED BY <1>1, <2>6, <2>7, <2>8, ParkSteps
<1> QED BY <1>4, <1>5

\* EVNT_*: answered at once, or parked on no list.
LEMMA EventCallSteps ==
    ASSUME IInv, NEW c \in Channels, NEW wantsMessage \in BOOLEAN, EventCall(c, wantsMessage)
    PROVE  Steps
<1>1. CanCall(c) /\ aes \in States /\ Good(aes) /\ FormsHold(aes) /\ NeverIdle(aes)
      /\ conn' = conn /\ aes.gen[c] # 0
  BY DEF EventCall, Handled, IInv, CanCall
<1>2. \/ aes' = aes
      \/ aes.queue[c] >= MessageBytes /\ aes' = TakeMessage(aes, c)
      \/ aes' = Park(aes, c, "EVENT", c, IF wantsMessage THEN 1 ELSE 0)
  BY DEF EventCall, Handled
<1>3. CASE aes' = aes
  BY <1>1, <1>3, StutterSteps
<1>4. CASE aes.queue[c] >= MessageBytes /\ aes' = TakeMessage(aes, c)
  <2>1. aes' \in States /\ Good(aes') /\ Pumped(aes, aes') /\ Dry(aes, aes')
    BY <1>1, <1>4, TakeMessageRuns
  <2>2. Runs(aes, aes') /\ LockSame(aes, aes')
    BY <2>1, PumpedRuns
  <2> QED BY <1>1, <2>1, <2>2, RunsSteps
<1>5. CASE aes' = Park(aes, c, "EVENT", c, IF wantsMessage THEN 1 ELSE 0)
  <2>1. Parking(aes, aes', c, "EVENT", c)
    <3>1. "EVENT" \in Operations /\ (IF wantsMessage THEN 1 ELSE 0) \in Nat
      BY DEF Operations
    <3> QED BY <1>1, <1>5, <3>1, ParkIs
  <2>2. Parks(aes, aes', c, "EVENT", c)
    <3>1. /\ Joined(aes.line, aes'.line, c, FALSE)
          /\ \A y \in Channels : /\ Joined(aes.readers[y], aes'.readers[y], c, FALSE)
                                 /\ Joined(aes.writers[y], aes'.writers[y], c, FALSE)
      BY <1>1, <2>1, JoinedSame DEF Good, NobodyTwice, Parking
    <3>2. "EVENT" # "UPDATE" /\ "EVENT" # "READ" /\ "EVENT" # "WRITE"
      OBVIOUS
    <3> QED BY <2>1, <3>1, <3>2 DEF Parks, Joined, Parking
  <2>3. FormsHold(aes') /\ NeverIdle(aes') /\ LockSound(aes') /\ LockMoves(aes, aes')
    BY <1>1, <2>1 DEF FormsHold, NeverIdle, Good, LockSound, LockMoves, Parked, Parking
  <2>4. aes' \in States
    BY <2>1 DEF Parking
  <2> QED BY <1>1, <2>2, <2>3, <2>4, ParkSteps
<1> QED BY <1>2, <1>3, <1>4, <1>5

\* WIND_*: messages for the owners.
LEMMA WindowCallSteps ==
    ASSUME IInv, NEW c \in Channels, NEW pds \in SUBSET Attached, WindowCall(c, pds)
    PROVE  Steps
<1>1. pds \in SUBSET Channels /\ aes' = Post(aes, pds) /\ conn' = conn
  BY DEF WindowCall, Handled, Attached
<1>2. aes' \in States /\ Good(aes') /\ Runs(aes, aes') /\ LockSame(aes, aes')
  BY <1>1, PostRunsDry, PumpedRuns DEF IInv
<1> QED BY <1>1, <1>2, RunsSteps

\* A lock that is taken, or nested deeper.
LEMMA BeginIs ==
    ASSUME NEW s \in States, Good(s), FormsHold(s), NeverIdle(s), NEW c \in Channels,
           s.slot[c].state = "FREE", s.gen[c] # 0,
           s.owner \in {NONE, c}, s.depth < MaxDepth,
           NEW t, t = BeginUpdate(s, c)
    PROVE  /\ t \in States /\ Good(t) /\ FormsHold(t) /\ NeverIdle(t)
           /\ t.gen = s.gen /\ t.queue = s.queue /\ t.slot = s.slot /\ t.ready = s.ready
           /\ t.readers = s.readers /\ t.writers = s.writers /\ t.line = s.line
           /\ t.owner = c /\ LockMoves(s, t)
<1>1. PICK n \in 1 .. MaxDepth : n = s.depth + 1
  <2>1. PICK m \in 0 .. MaxDepth : m = s.depth
    BY DEF States
  <2>2. m + 1 \in 1 .. MaxDepth
    BY <2>1, SizesAssumption
  <2> QED BY <2>1, <2>2
<1>2. t = [s EXCEPT !.owner = c, !.depth = n]
  BY <1>1 DEF BeginUpdate
<1>3. /\ t \in States
      /\ t.gen = s.gen /\ t.queue = s.queue /\ t.slot = s.slot /\ t.ready = s.ready
      /\ t.readers = s.readers /\ t.writers = s.writers /\ t.line = s.line
      /\ t.owner = c /\ t.depth = n
  <2>1. n \in 0 .. MaxDepth
    OBVIOUS
  <2> QED BY <1>2, <2>1 DEF States
<1>4. Good(t)
  <2>1. NobodyTwice(t) /\ Linked(t) /\ Targeted(t) /\ Current(t)
    BY <1>3 DEF Good, NobodyTwice, Linked, LinkedAt, Parked, Targeted, Current, Waiting
  <2>2. LockSound(t)
    <3>1. ~Listed(s.line, c)
      BY DEF Good, Linked, LinkedAt, Parked
    <3>2. n # 0 /\ c # NONE
      BY ChannelsAssumption
    <3> QED BY <1>3, <3>1, <3>2 DEF LockSound
  <2> QED BY <2>1, <2>2 DEF Good
<1>5. FormsHold(t) /\ NeverIdle(t)
  BY <1>3, ChannelsAssumption DEF FormsHold, NeverIdle, Parked
<1>6. LockMoves(s, t)
  <2>1. CASE s.owner = c
    BY <1>3, <2>1 DEF LockMoves
  <2>2. CASE s.owner = NONE
    BY <1>3, <2>2 DEF LockMoves, NeverIdle
  <2> QED BY <2>1, <2>2
<1> QED BY <1>3, <1>4, <1>5, <1>6

\* BEG_UPDATE: the lock is taken, refused, or stood in line for.
LEMMA WindBeginSteps ==
    ASSUME IInv, NEW c \in Channels, WindBegin(c)
    PROVE  Steps
<1>1. CanCall(c) /\ aes \in States /\ Good(aes) /\ FormsHold(aes) /\ NeverIdle(aes)
      /\ conn' = conn /\ aes.gen[c] # 0 /\ aes.slot[c].state = "FREE"
  BY DEF WindBegin, Handled, IInv, CanCall
<1>2. CASE aes.owner \in {NONE, c} /\ aes.depth < MaxDepth
  <2>1. aes' = BeginUpdate(aes, c)
    BY <1>2 DEF WindBegin, Handled
  <2>2. /\ aes' \in States /\ Good(aes') /\ FormsHold(aes') /\ NeverIdle(aes')
        /\ aes'.gen = aes.gen /\ aes'.queue = aes.queue /\ aes'.slot = aes.slot
        /\ aes'.readers = aes.readers /\ aes'.writers = aes.writers /\ LockMoves(aes, aes')
    BY <1>1, <1>2, <2>1, BeginIs
  <2>3. Runs(aes, aes')
    BY <2>2, QuietRuns
  <2>4. Moved(aes, aes')
    BY <2>2, <2>3 DEF Moved, Runs, Calm
  <2> QED BY <1>1, <2>2, <2>4, HeldSteps
<1>3. CASE aes.owner \in {NONE, c} /\ ~(aes.depth < MaxDepth)
  <2>1. aes' = aes
    BY <1>3 DEF WindBegin, Handled
  <2> QED BY <1>1, <2>1, StutterSteps
<1>4. CASE aes.owner \notin {NONE, c}
  <2>1. PICK u : u = Park(aes, c, "UPDATE", c, 0)
    OBVIOUS
  <2>2. aes' = [u EXCEPT !.line = Append(u.line, c)]
    BY <1>4, <2>1 DEF WindBegin, Handled
  <2>3. Parking(aes, u, c, "UPDATE", c)
    <3>1. "UPDATE" \in Operations /\ 0 \in Nat
      BY DEF Operations
    <3> QED BY <1>1, <2>1, <3>1, ParkIs
  <2>4. ~Listed(aes.line, c) /\ NoRepeats(aes.line) /\ aes.line \in Seq(Channels)
    BY <1>1 DEF Good, Linked, LinkedAt, Parked, NobodyTwice, States
  <2>5. /\ Append(aes.line, c) \in Seq(Channels)
        /\ Joined(aes.line, Append(aes.line, c), c, TRUE)
    BY <2>4, JoinedAppend
  <2>6. /\ aes' \in States
        /\ aes'.gen = u.gen /\ aes'.queue = u.queue /\ aes'.ready = u.ready
        /\ aes'.slot = u.slot /\ aes'.readers = u.readers /\ aes'.writers = u.writers
        /\ aes'.owner = u.owner /\ aes'.depth = u.depth /\ aes'.line = Append(aes.line, c)
    BY <2>2, <2>3, <2>5 DEF States, Parking
  <2>7. Parks(aes, aes', c, "UPDATE", c)
    <3>1. \A y \in Channels : /\ Joined(aes.readers[y], aes'.readers[y], c, FALSE)
                              /\ Joined(aes.writers[y], aes'.writers[y], c, FALSE)
      BY <1>1, <2>3, <2>6, JoinedSame DEF Good, NobodyTwice, Parking
    <3>2. "UPDATE" # "READ" /\ "UPDATE" # "WRITE"
      OBVIOUS
    <3> QED BY <2>3, <2>5, <2>6, <3>1, <3>2 DEF Parks, Joined, Parking
  <2>8. LockSound(aes')
    <3>1. aes'.owner = aes.owner /\ aes'.depth = aes.depth /\ aes'.gen = aes.gen
      BY <2>3, <2>6 DEF Parking
    <3>2. aes.owner \in Channels
      BY <1>1, <1>4 DEF States
    <3>3. ~Listed(aes'.line, aes.owner)
      BY <1>1, <1>4, <2>5, <2>6, <3>2 DEF Joined, Good, LockSound
    <3> QED BY <1>1, <3>1, <3>3 DEF Good, LockSound
  <2>9. LockMoves(aes, aes')
    BY <1>4, <2>3, <2>4, <2>6 DEF LockMoves, Parking
  <2>10. FormsHold(aes') /\ NeverIdle(aes')
    BY <1>1, <1>4, <2>3, <2>6 DEF FormsHold, NeverIdle, Parked, Parking
  <2> QED BY <1>1, <2>6, <2>7, <2>8, <2>9, <2>10, ParkSteps
<1> QED BY <1>2, <1>3, <1>4

\* END_UPDATE.
LEMMA WindEndSteps ==
    ASSUME IInv, NEW c \in Channels, \/ WindEnd(c)
                                     \/ CanCall(c) /\ Handled(EndUpdate(aes, c))
    PROVE  Steps
<1>1. aes' = EndUpdate(aes, c) /\ conn' = conn /\ aes.slot[c].state = "FREE"
  BY DEF WindEnd, Handled, CanCall
<1>2. Releases(aes, aes', c)
  BY <1>1, EndUpdateReleases DEF IInv
<1>3. Runs(aes, aes')
  BY <1>2 DEF Releases
<1>4. ~Parked(aes', c, "FORM")
  BY <1>1, <1>3 DEF Runs, Waiting, Parked
<1>5. Moved(aes, aes')
  BY <1>2, <1>4, ReleasesMoved DEF IInv
<1> QED BY <1>1, <1>3, <1>5, HeldSteps DEF Runs, Waiting

\* A form or tracker begins with the lock, or gives a level back.
LEMMA FormBeginSteps ==
    ASSUME IInv, NEW c \in Channels, NEW isAlert \in BOOLEAN, FormBegin(c, isAlert)
    PROVE  Steps
<1>1. CanCall(c) /\ aes \in States /\ Good(aes) /\ FormsHold(aes) /\ NeverIdle(aes)
      /\ conn' = conn /\ aes.gen[c] # 0 /\ aes.slot[c].state = "FREE"
  BY DEF FormBegin, Handled, IInv, CanCall
<1>2. CASE ~(aes.owner \in {NONE, c} /\ aes.depth < MaxDepth)
  <2>1. Handled(EndUpdate(aes, c))
    BY <1>2 DEF FormBegin
  <2> QED BY <1>1, <2>1, WindEndSteps
<1>3. CASE aes.owner \in {NONE, c} /\ aes.depth < MaxDepth
  <2>0. PICK v : v = BeginUpdate(aes, c)
    OBVIOUS
  <2>1. PICK len \in Nat : v = BeginUpdate(aes, c) /\ aes' = Park(v, c, "FORM", c, len)
    <3>1. PICK len \in Nat : len = IF isAlert THEN 1 ELSE 0
      OBVIOUS
    <3>2. aes' = Park(v, c, "FORM", c, len)
      BY <1>3, <2>0, <3>1 DEF FormBegin, Handled
    <3> QED BY <2>0, <3>2
  <2>2. /\ v \in States /\ Good(v) /\ FormsHold(v) /\ NeverIdle(v)
        /\ v.gen = aes.gen /\ v.queue = aes.queue /\ v.slot = aes.slot /\ v.ready = aes.ready
        /\ v.readers = aes.readers /\ v.writers = aes.writers /\ v.line = aes.line
        /\ v.owner = c /\ LockMoves(aes, v)
    BY <1>1, <1>3, <2>1, BeginIs
  <2>3. Parking(v, aes', c, "FORM", c)
    <3>1. "FORM" \in Operations
      BY DEF Operations
    <3> QED BY <2>1, <2>2, <3>1, ParkIs
  <2>4. Parks(aes, aes', c, "FORM", c)
    <3>1. /\ Joined(aes.line, aes'.line, c, FALSE)
          /\ \A y \in Channels : /\ Joined(aes.readers[y], aes'.readers[y], c, FALSE)
                                 /\ Joined(aes.writers[y], aes'.writers[y], c, FALSE)
      BY <1>1, <2>2, <2>3, JoinedSame DEF Good, NobodyTwice, Parking
    <3>2. "FORM" # "UPDATE" /\ "FORM" # "READ" /\ "FORM" # "WRITE"
      OBVIOUS
    <3> QED BY <2>2, <2>3, <3>1, <3>2 DEF Parks, Joined, Parking
  <2>5. aes' \in States /\ LockSound(aes') /\ FormsHold(aes') /\ NeverIdle(aes')
    BY <2>2, <2>3 DEF FormsHold, NeverIdle, Good, LockSound, Parked, Parking
  <2>6. LockMoves(aes, aes')
    BY <2>2, <2>3 DEF LockMoves, Hands, Parking
  <2> QED BY <1>1, <2>4, <2>5, <2>6, ParkSteps
<1> QED BY <1>2, <1>3

\* The end of a connection or of an application.
LEMMA EndedSteps ==
    ASSUME IInv, NEW c \in Channels, Ended(aes, aes', c),
           \A x \in Channels \ {c} : conn'[x] = conn[x]
    PROVE  Steps
<1>1. Moved(aes, aes')
  BY EndedMoved DEF IInv, Good
<1>2. ASSUME NEW x \in Channels, aes'.slot[x].state # "FREE" PROVE conn'[x] = aes'.gen[x]
  <2>1. x # c /\ aes.slot[x].state # "FREE"
    BY <1>2 DEF Ended, SlotsGo, Waiting, FreeSlot
  <2> QED BY <2>1 DEF Ended, IInv
<1> QED BY <1>1, <1>2 DEF Steps

\* APPL_EXIT: the sweep and the detachment.
LEMMA ApplExitSteps ==
    ASSUME IInv, NEW c \in Channels, ApplExit(c)
    PROVE  Steps
<1>1. PICK pds \in SUBSET (Attached \ {c}) : aes' = Detach(Drop(aes, c), c, pds)
  BY DEF ApplExit, Handled
<1>2. pds \in SUBSET Channels /\ ~Parked(aes, c, "FORM") /\ conn' = conn
  BY DEF ApplExit, Handled, CanCall, Parked, Attached
<1>3. Ended(aes, aes', c)
  BY <1>1, <1>2, QuietEnd DEF IInv
<1> QED BY <1>2, <1>3, EndedSteps

\* A connection closes, also with a form open or its PD not attached.
LEMMA HangupSteps ==
    ASSUME IInv, NEW c \in Channels, Hangup(c)
    PROVE  Steps
<1>1. conn' = [conn EXCEPT ![c] = 0] /\ aes \in States /\ Good(aes) /\ NeverIdle(aes)
  BY DEF Hangup, IInv
<1>2. \A x \in Channels \ {c} : conn'[x] = conn[x]
  BY <1>1 DEF IInv
<1>3. CASE aes.gen[c] # conn[c]
  <2>1. aes' = aes
    BY <1>3 DEF Hangup
  <2>2. aes.slot[c].state = "FREE"
    BY <1>3 DEF IInv
  <2> QED BY <1>2, <2>1, <2>2, SameMoved DEF IInv, Steps
<1>4. CASE aes.gen[c] = conn[c]
  <2>1. PICK alertPds \in SUBSET Attached, pds \in SUBSET (Attached \ {c}) :
           LET down == IF Parked(aes, c, "FORM") THEN WindDown(aes, c, alertPds)
                       ELSE [state |-> aes, drawn |-> TRUE]
               dropped == Drop(down.state, c)
           IN  aes' = IF down.drawn THEN Detach(dropped, c, pds) ELSE dropped
    BY <1>4 DEF Hangup, Exit
  <2>2. alertPds \in SUBSET Channels /\ pds \in SUBSET Channels
    BY DEF Attached
  <2>3. CASE Parked(aes, c, "FORM")
    <3>1. PICK d : d = Drop(WindDown(aes, c, alertPds).state, c)
      OBVIOUS
    <3>2. aes' \in {d, Detach(d, c, pds)}
      BY <2>1, <2>3, <3>1
    <3>3. Ended(aes, aes', c)
      BY <1>1, <2>2, <2>3, <3>1, <3>2, FormEnd
    <3> QED BY <1>2, <3>3, EndedSteps
  <2>4. CASE ~Parked(aes, c, "FORM")
    <3>1. aes' = Detach(Drop(aes, c), c, pds)
      BY <2>1, <2>4
    <3>2. Ended(aes, aes', c)
      BY <1>1, <2>2, <2>4, <3>1, QuietEnd
    <3> QED BY <1>2, <3>2, EndedSteps
  <2> QED BY <2>3, <2>4
<1> QED BY <1>3, <1>4

\* The poll: one sample, then one pass over the event waits.
LEMMA PollSteps ==
    ASSUME IInv, Poll
    PROVE  Steps /\ \A c \in Channels : ~Unserved(aes', c)
<1>1. aes \in States /\ Good(aes) /\ FormsHold(aes) /\ NeverIdle(aes) /\ conn' = conn
  BY DEF Poll, IInv
<1>2. PICK s \in Sampled, fired \in SUBSET {c \in Channels : Parked(aes, c, "EVENT")} : aes' = EventProgress(s, fired)
  BY DEF Poll
<1>3. s \in States /\ Good(s) /\ Moved(aes, s) /\ Runs(aes, s)
  <2>1. CASE s = aes
    BY <1>1, <2>1, SameMoved, QuietRuns
  <2>2. CASE \E pds \in SUBSET Attached : s = Post(aes, pds)
    <3>1. PICK pds \in SUBSET Channels : s = Post(aes, pds)
      BY <2>2 DEF Attached
    <3>2. s \in States /\ Good(s) /\ Runs(aes, s) /\ LockSame(aes, s)
      BY <1>1, <3>1, PostRunsDry, PumpedRuns
    <3> QED BY <1>1, <3>2, RunsMoved
  <2>3. CASE \E c \in {x \in Channels : Parked(aes, x, "FORM")}, pds \in SUBSET Attached :
                s = Settle(aes, c, pds)
    <3>1. PICK c \in Channels, pds \in SUBSET Channels :
             Parked(aes, c, "FORM") /\ s = Settle(aes, c, pds)
      BY <2>3 DEF Attached
    <3>2. Releases(aes, s, c) /\ ~Waiting(s, c)
      BY <1>1, <3>1, SettleReleases
    <3>3. Moved(aes, s)
      BY <1>1, <3>2, ReleasesMoved DEF Parked, Waiting
    <3> QED BY <3>2, <3>3 DEF Releases
  <2> QED BY <2>1, <2>2, <2>3 DEF Sampled
<1>4. /\ aes' \in States /\ Good(aes') /\ Runs(s, aes') /\ LockSame(s, aes')
      /\ \A c \in Channels : ~Unserved(aes', c)
  BY <1>2, <1>3, EventProgressServes
<1>5. Runs(aes, aes')
  BY <1>3, <1>4, RunsTrans
<1>6. Moved(s, aes')
  BY <1>3, <1>4, RunsMoved DEF Moved
<1>7. Moved(aes, aes')
  <2>1. LockMoves(aes, aes')
    BY <1>3, <1>4 DEF Moved, LockMoves, Hands, LockSame
  <2>2. Ordered(aes, aes') /\ Calm(aes, aes')
    BY <1>5 DEF Runs, Dry, Calm
  <2> QED BY <1>6, <2>1, <2>2 DEF Moved
<1>8. Steps
  BY <1>1, <1>5, <1>7, HeldSteps DEF Runs, Waiting
<1> QED BY <1>4, <1>8

\* The server takes the oldest finished call, which frees its slot.
LEMMA TakeReadySteps ==
    ASSUME IInv, TakeReady
    PROVE  Steps
<1> DEFINE h == Head(aes.ready)
           v == [aes EXCEPT !.ready = Tail(@)]
<1>1. aes \in States /\ Good(aes) /\ FormsHold(aes) /\ NeverIdle(aes) /\ conn' = conn
      /\ aes.ready # <<>>
  BY DEF TakeReady, IInv
<1>2. aes' = Freed(v, h)
  BY <1>1 DEF TakeReady, Freed, States
<1>3. /\ h \in Channels /\ Listed(aes.ready, h) /\ Tail(aes.ready) \in Seq(Channels)
      /\ Removed(aes.ready, Tail(aes.ready), h)
  BY <1>1, TailListed, RemovedTail DEF States, Good, NobodyTwice
<1>4. /\ v \in States /\ v.gen = aes.gen /\ v.slot = aes.slot /\ v.ready = Tail(aes.ready)
      /\ v.readers = aes.readers /\ v.writers = aes.writers /\ v.line = aes.line
      /\ v.queue = aes.queue /\ v.owner = aes.owner /\ v.depth = aes.depth
  BY <1>1, <1>3 DEF States
<1> HIDE DEF h, v
<1>5. aes.slot[h].state = "READY"
  BY <1>1, <1>3 DEF Good, Linked, LinkedAt
<1>6. Loosened(aes, v, h)
  <2>1. /\ ~Listed(aes.line, h)
        /\ \A y \in Channels : ~Listed(aes.readers[y], h) /\ ~Listed(aes.writers[y], h)
    BY <1>1, <1>3, <1>5 DEF Good, Linked, LinkedAt, Parked
  <2>2. /\ NoRepeats(aes.line)
        /\ \A y \in Channels : NoRepeats(aes.readers[y]) /\ NoRepeats(aes.writers[y])
    BY <1>1 DEF Good, NobodyTwice
  <2> QED BY <1>3, <1>4, <2>1, <2>2, RemovedSame DEF Loosened
<1>7. LockSound(v)
  BY <1>1, <1>4 DEF Good, LockSound
<1>8. Loose(v, h)
  BY <1>1, <1>3, <1>6, <1>7, LoosenedLoose
<1>9. /\ aes' \in States /\ Good(aes')
      /\ aes'.gen = aes.gen /\ aes'.queue = aes.queue
      /\ aes'.readers = aes.readers /\ aes'.writers = aes.writers
      /\ aes'.owner = aes.owner /\ aes'.depth = aes.depth /\ aes'.line = aes.line
      /\ aes'.slot[h] = FreeSlot /\ \A x \in Channels \ {h} : aes'.slot[x] = aes.slot[x]
  BY <1>2, <1>3, <1>4, <1>8, LooseFrees
<1>10. FreeSlot.state = "FREE" /\ FreeSlot.result = "none"
  BY DEF FreeSlot
<1>11. Ordered(aes, aes')
  BY <1>3, <1>4, <1>6, <1>9, <1>10, LoosenedOrdered DEF Waiting
<1>12. FormsHold(aes') /\ NeverIdle(aes')
  BY <1>1, <1>9, <1>10 DEF FormsHold, NeverIdle, Parked
<1>13. Moved(aes, aes')
  BY <1>9, <1>11, <1>12 DEF Moved, Calm, LockMoves
<1> QED BY <1>1, <1>9, <1>10, <1>13, HeldSteps

----------------------------------------------------------------------------
(* Theorems *)

\* A resident that has just started is in a good state.
THEOREM InitIInv == Init => IInv
<1> SUFFICES ASSUME Init PROVE IInv
  OBVIOUS
<1>1. FreeSlot \in SlotRecords /\ FreeSlot.state = "FREE"
  BY SizesAssumption DEF SlotRecords, SlotStates, Operations, FreeSlot
<1>2. aes = [gen     |-> [c \in Channels |-> 0],
             queue   |-> [c \in Channels |-> 0],
             readers |-> [c \in Channels |-> <<>>],
             writers |-> [c \in Channels |-> <<>>],
             slot    |-> [c \in Channels |-> FreeSlot],
             ready   |-> <<>>, owner |-> NONE, depth |-> 0, line |-> <<>>]
  BY DEF Init
<1>3. 0 \in 0 .. MaxGeneration /\ 0 \in 0 .. QueueBytes /\ 0 \in 0 .. MaxDepth
      /\ 1 \in 1 .. MaxGeneration + 1
  BY SizesAssumption
<1>4. aes \in States
  BY <1>1, <1>2, <1>3, EmptySeq DEF States
<1>5. /\ aes.ready = <<>> /\ aes.line = <<>> /\ aes.owner = NONE /\ aes.depth = 0
      /\ \A c \in Channels : /\ aes.readers[c] = <<>> /\ aes.writers[c] = <<>>
                             /\ aes.slot[c].state = "FREE"
  BY <1>1, <1>2
<1>6. NoRepeats(<<>>) /\ \A c : ~Listed(<<>>, c)
  BY EmptySeq DEF NoRepeats, Listed
<1>7. Good(aes)
  BY <1>5, <1>6 DEF Good, NobodyTwice, Linked, LinkedAt, Parked, Targeted, Current, LockSound, Waiting
<1>8. FormsHold(aes) /\ NeverIdle(aes)
  BY <1>5 DEF FormsHold, NeverIdle, Parked
<1> QED BY <1>3, <1>4, <1>5, <1>7, <1>8 DEF Init, IInv

\* Each action, by its own lemma.
LEMMA NextSteps ==
    ASSUME "REINIT" \notin Used, IInv, Next
    PROVE  Steps
<1>1. ASSUME NEW c \in Channels,
             \/ Connect(c)
             \/ ApplInit(c)
             \/ ApplInitAgain(c)
             \/ \E t \in Channels, len \in Lengths : ApplWrite(c, t, len)
             \/ \E t \in Channels, len \in Lengths : ApplRead(c, t, len)
             \/ \E wantsMessage \in BOOLEAN : EventCall(c, wantsMessage)
      PROVE  Steps
  BY <1>1, ConnectSteps, ApplInitSteps, ApplInitAgainSteps, ApplWriteSteps, ApplReadSteps,
     EventCallSteps
<1>2. ASSUME NEW c \in Channels,
             \/ \E pds \in SUBSET Attached : WindowCall(c, pds)
             \/ WindBegin(c)
             \/ WindEnd(c)
             \/ \E isAlert \in BOOLEAN : FormBegin(c, isAlert)
             \/ ApplExit(c)
             \/ Hangup(c)
      PROVE  Steps
  BY <1>2, WindowCallSteps, WindBeginSteps, WindEndSteps, FormBeginSteps, ApplExitSteps, HangupSteps
<1> QED BY <1>1, <1>2, PollSteps, TakeReadySteps DEF Next

\* No request, reply, tick or death leads out of the good states.
THEOREM StepIInv ==
    ASSUME "REINIT" \notin Used, IInv, [Next]_vars
    PROVE  IInv'
<1>1. CASE UNCHANGED vars
  BY <1>1 DEF vars, IInv
<1>2. CASE Next
  <2>1. Steps
    BY <1>2, NextSteps
  <2>2. /\ conn' \in [Channels -> 0 .. MaxGeneration]
        /\ nextGen' \in 1 .. MaxGeneration + 1
        /\ phase' \in {"idle", "poll"}
    <3>1. ASSUME NEW c \in Channels, Connect(c)
          PROVE  nextGen \in 0 .. MaxGeneration /\ nextGen + 1 \in 1 .. MaxGeneration + 1
      BY <3>1, SizesAssumption DEF IInv, Connect
    <3>2. 0 \in 0 .. MaxGeneration
      BY SizesAssumption
    <3> QED BY <1>2, <3>1, <3>2 DEF Next, IInv, Connect, ApplInit, ApplInitAgain, ApplWrite,
               ApplRead, EventCall, WindowCall, WindBegin, WindEnd, FormBegin, ApplExit,
               Hangup, Poll, TakeReady, Handled
  <2> QED BY <2>1, <2>2 DEF IInv, Steps, Moved
<1> QED BY <1>1, <1>2

----------------------------------------------------------------------------
(* The count of links *)

On(list, c) == IF Listed(list, c) THEN 1 ELSE 0

\* The recursive function of Links satisfies its equation.
LEMMA LinksTurns ==
    ASSUME NEW c
    PROVE  \E count :
              /\ count = [t \in -1 .. ChannelCount - 1 |->
                    IF t = -1 THEN On(aes.ready, c) + On(aes.line, c)
                    ELSE IF t \in Channels
                    THEN count[t - 1] + On(aes.readers[t], c) + On(aes.writers[t], c)
                    ELSE count[t - 1]]
              /\ Links(c) = count[ChannelCount - 1]
<1> DEFINE Turn(f, t) == IF t = -1 THEN On(aes.ready, c) + On(aes.line, c)
                         ELSE IF t \in Channels
                         THEN f[t - 1] + On(aes.readers[t], c) + On(aes.writers[t], c)
                         ELSE f[t - 1]
           Is(f, m) == f = [t \in -1 .. m - 1 |-> Turn(f, t)]
           P == {m \in 0 .. ChannelCount : \E f : Is(f, m)}
<1>1. 0 \in P
  <2>1. Is([t \in -1 .. 0 - 1 |-> On(aes.ready, c) + On(aes.line, c)], 0)
    <3>1. \A t \in -1 .. 0 - 1 : t = -1
      OBVIOUS
    <3> QED BY <3>1
  <2>2. 0 \in 0 .. ChannelCount
    BY ChannelsAssumption
  <2> HIDE DEF Is
  <2> QED BY <2>1, <2>2
<1>2. ASSUME NEW m \in 1 .. ChannelCount, m - 1 \in P PROVE m \in P
  <2>1. PICK f : Is(f, m - 1)
    BY <1>2
  <2> DEFINE g == [t \in -1 .. m - 1 |-> IF t = m - 1 THEN Turn(f, m - 1) ELSE f[t]]
  <2>2. Is(g, m)
    <3>1. /\ \A t \in -1 .. m - 1 : t = m - 1 \/ t \in -1 .. (m - 1) - 1
          /\ \A t \in -1 .. m - 1 : t # -1 => t - 1 \in -1 .. (m - 1) - 1 /\ t - 1 # m - 1
                                              /\ t - 1 \in -1 .. m - 1
          /\ -1 .. (m - 1) - 1 \subseteq -1 .. m - 1
      BY ChannelsAssumption
    <3>2. \A t \in -1 .. m - 1 : g[t] = IF t = m - 1 THEN Turn(f, m - 1) ELSE f[t]
      OBVIOUS
    <3>3. \A t \in -1 .. (m - 1) - 1 : f[t] = Turn(f, t)
      BY <2>1
    <3>4. \A t \in -1 .. m - 1 : g[t] = Turn(g, t)
      BY <3>1, <3>2, <3>3
    <3> QED BY <3>2, <3>4
  <2>3. m \in 0 .. ChannelCount
    BY ChannelsAssumption
  <2> HIDE DEF Is, g
  <2> QED BY <2>2, <2>3
<1>3. ChannelCount \in P
  <2> HIDE DEF P
  <2> QED BY <1>1, <1>2, Turns, ChannelsAssumption
<1>4. PICK f : Is(f, ChannelCount)
  BY <1>3
<1>5. Links(c) = (CHOOSE g : Is(g, ChannelCount))[ChannelCount - 1]
  BY DEF Links, On
<1>6. Is(CHOOSE g : Is(g, ChannelCount), ChannelCount)
  <2> HIDE DEF Is
  <2> QED BY <1>4
<1> QED BY <1>5, <1>6

\* In a good state a channel is linked at most once: not at all if nothing
\* but the tick will finish its call, else just where its slot says.
LEMMA LinksAre ==
    ASSUME aes \in States, Good(aes), NEW c \in Channels
    PROVE  Links(c) = IF \/ aes.slot[c].state = "READY"
                         \/ \E op \in {"UPDATE", "READ", "WRITE"} : Parked(aes, c, op)
                      THEN 1 ELSE 0
<1>1. PICK count :
         /\ count = [t \in -1 .. ChannelCount - 1 |->
               IF t = -1 THEN On(aes.ready, c) + On(aes.line, c)
               ELSE IF t \in Channels
               THEN count[t - 1] + On(aes.readers[t], c) + On(aes.writers[t], c)
               ELSE count[t - 1]]
         /\ Links(c) = count[ChannelCount - 1]
  BY LinksTurns
<1>2. PICK x, early, late :
         /\ x = aes.slot[c].target
         /\ early \in BOOLEAN /\ late \in BOOLEAN
         /\ early <=> aes.slot[c].state = "READY" \/ Parked(aes, c, "UPDATE")
         /\ late <=> Parked(aes, c, "READ") \/ Parked(aes, c, "WRITE")
  OBVIOUS
<1>3. /\ On(aes.ready, c) + On(aes.line, c) = IF early THEN 1 ELSE 0
      /\ \A t \in Channels : On(aes.readers[t], c) + On(aes.writers[t], c)
                             = IF late /\ t = x THEN 1 ELSE 0
      /\ \A t \in Channels : On(aes.readers[t], c) \in {0, 1} /\ On(aes.writers[t], c) \in {0, 1}
      /\ ~(early /\ late) /\ (late => x \in Channels)
  <2>1. LinkedAt(aes, c)
    BY DEF Good, Linked
  <2>2. late => x \in Channels
    BY <1>2 DEF Good, Targeted, Parked, Waiting
  <2> QED BY <1>2, <2>1, <2>2 DEF LinkedAt, On, Parked
<1> DEFINE Value(t) == IF early \/ (late /\ x <= t) THEN 1 ELSE 0
           P == {i \in 0 .. ChannelCount : count[i - 1] = Value(i - 1)}
<1>4. 0 \in P
  <2>1. count[-1] = IF early THEN 1 ELSE 0
    <3>1. -1 \in -1 .. ChannelCount - 1
      BY ChannelsAssumption
    <3> QED BY <1>1, <1>3, <3>1
  <2>2. late => ~(x <= -1)
    <3>1. late => x \in 0 .. ChannelCount - 1
      BY <1>3, ChannelsAssumption
    <3> QED BY <3>1, ChannelsAssumption
  <2>3. 0 \in 0 .. ChannelCount /\ 0 - 1 = -1
    BY ChannelsAssumption
  <2> QED BY <2>1, <2>2, <2>3
<1>5. ASSUME NEW i \in 1 .. ChannelCount, i - 1 \in P PROVE i \in P
  <2>1. PICK t \in 0 .. ChannelCount - 1 : t = i - 1
    BY ChannelsAssumption
  <2>2. count[t - 1] = Value(t - 1)
    BY <1>5, <2>1
  <2>3. count[t] = IF t \in Channels
                   THEN count[t - 1] + On(aes.readers[t], c) + On(aes.writers[t], c)
                   ELSE count[t - 1]
    <3>1. t \in -1 .. ChannelCount - 1 /\ t # -1
      BY <2>1, ChannelsAssumption
    <3> QED BY <1>1, <3>1
  <2>4. late => (x <= t <=> x <= t - 1 \/ x = t) /\ ~(x <= t - 1 /\ x = t)
    BY <1>3, <2>1, ChannelsAssumption
  <2>5. count[t] = Value(t)
    <3>1. CASE t \in Channels
      <4>1. count[t] = Value(t - 1) + (IF late /\ t = x THEN 1 ELSE 0)
        <5>1. Value(t - 1) \in {0, 1} /\ On(aes.readers[t], c) \in {0, 1} /\ On(aes.writers[t], c) \in {0, 1}
          BY <1>3, <3>1
        <5> HIDE DEF Value
        <5> QED BY <1>3, <2>2, <2>3, <3>1, <5>1
      <4> QED BY <1>2, <1>3, <2>4, <4>1
    <3>2. CASE t \notin Channels
      BY <1>3, <2>2, <2>3, <2>4, <3>2
    <3> QED BY <3>1, <3>2
  <2>6. i \in 0 .. ChannelCount
    BY ChannelsAssumption
  <2> QED BY <2>1, <2>5, <2>6
<1>6. ChannelCount \in P
  <2> HIDE DEF P
  <2> QED BY <1>4, <1>5, Turns, ChannelsAssumption
<1>7. late => x <= ChannelCount - 1
  <2>1. late => x \in 0 .. ChannelCount - 1
    BY <1>3, ChannelsAssumption
  <2> QED BY <2>1, ChannelsAssumption
<1> QED BY <1>1, <1>2, <1>6, <1>7

----------------------------------------------------------------------------
(* What the invariant gives, and what every step does *)

\* The invariant implies the safety property that the run checks.
LEMMA IInvSafety ==
    ASSUME IInv
    PROVE  CallSafety
<1>1. aes \in States /\ Good(aes)
  BY DEF IInv
<1>2. TypeOK
  <2>1. \A c \in Channels : aes.slot[c] \in SlotRecords
    BY <1>1 DEF States
  <2> QED BY <1>1, <2>1 DEF IInv, TypeOK, States, SlotRecords
<1>3. ASSUME NEW c \in Channels
      PROVE  LET p == aes.slot[c]
             IN  /\ p.state = "READY" => Listed(aes.ready, c) /\ Links(c) = 1
                 /\ p.state = "FREE" => Links(c) = 0
                 /\ Parked(aes, c, "UPDATE") => Listed(aes.line, c) /\ Links(c) = 1
                 /\ Parked(aes, c, "READ") => Listed(aes.readers[p.target], c) /\ Links(c) = 1
                 /\ Parked(aes, c, "WRITE") => Listed(aes.writers[p.target], c) /\ Links(c) = 1
                 /\ (Parked(aes, c, "EVENT") \/ Parked(aes, c, "FORM")) => Links(c) = 0
  <2>1. LinkedAt(aes, c) /\ (Waiting(aes, c) => aes.slot[c].target \in Channels)
    BY <1>1 DEF Good, Linked, Targeted
  <2>2. Links(c) = IF \/ aes.slot[c].state = "READY"
                      \/ \E op \in {"UPDATE", "READ", "WRITE"} : Parked(aes, c, op)
                   THEN 1 ELSE 0
    BY <1>1, LinksAre
  <2> QED BY <2>1, <2>2 DEF LinkedAt, Parked, Waiting
<1>4. SlotsOnTheirLists
  BY <1>3 DEF SlotsOnTheirLists
<1>5. CallsAreCurrent
  BY <1>1 DEF IInv, Good, Current, CallsAreCurrent, Parked, Waiting
<1>6. LockFollowsForms
  BY <1>1 DEF IInv, FormsHold, Good, LockSound, LockFollowsForms
<1> QED BY <1>2, <1>4, <1>5, <1>6 DEF CallSafety

\* In a fair step whoever was served had nobody waiting in front.
LEMMA FairServes ==
    ASSUME NEW list \in Seq(Channels), NEW new, NEW t, Fair(list, new, t),
           NEW i \in DOMAIN list, NEW j \in DOMAIN list, i < j,
           t.slot[list[j]].state = "READY", t.slot[list[j]].result = "done"
    PROVE  t.slot[list[i]].state # "WAITING"
<1>1. list[i] \in Channels /\ list[j] \in Channels /\ Before(list, list[i], list[j])
  BY DEF Before
<1> QED BY <1>1 DEF Fair, Waiting

\* The order of a queue's lists, as OldestFirst states it.
LEMMA StepsKeepOrder ==
    ASSUME IInv, Steps,
           NEW t \in Channels, NEW list \in {aes.readers[t], aes.writers[t]},
           NEW i \in DOMAIN list, NEW j \in DOMAIN list, i < j,
           aes'.slot[list[j]].state = "READY", aes'.slot[list[j]].result = "done"
    PROVE  aes'.slot[list[i]].state # "WAITING"
<1>1. /\ aes.readers[t] \in Seq(Channels) /\ Fair(aes.readers[t], aes'.readers[t], aes')
      /\ aes.writers[t] \in Seq(Channels) /\ Fair(aes.writers[t], aes'.writers[t], aes')
  BY DEF IInv, States, Steps, Moved, Ordered
<1>2. \E new : list \in Seq(Channels) /\ Fair(list, new, aes')
  BY <1>1
<1> QED BY <1>2, FairServes

\* Every step maps to a step of the abstract lock or to a stutter.
LEMMA StepsImplement ==
    ASSUME IInv, Steps
    PROVE  [Promise!Next]_<<aes.owner, aes.line>>
<1>1. LockMoves(aes, aes')
  BY DEF Steps, Moved
<1>2. CASE aes'.owner = aes.owner /\ aes'.line = aes.line
  BY <1>2
<1>3. CASE \E c \in Channels : /\ aes.owner = NONE /\ aes.line = <<>>
                               /\ aes'.owner = c /\ aes'.line = aes.line
  BY <1>3 DEF Promise!Next, Promise!Take
<1>4. CASE \E c \in Channels :
             /\ aes.owner \notin {NONE, c} /\ ~Listed(aes.line, c)
             /\ aes'.line = Append(aes.line, c) /\ aes'.owner = aes.owner
  BY <1>4 DEF Promise!Next, Promise!Join, Promise!Listed, Listed
<1>5. CASE \E c \in Channels :
             /\ Listed(aes.line, c) /\ aes'.line = Without(aes.line, c)
             /\ aes'.owner = aes.owner
  BY <1>5 DEF Promise!Next, Promise!GiveUp, Promise!Listed, Listed, Promise!Without, Without
<1>6. CASE Hands(aes, aes')
  BY <1>6 DEF Hands, Promise!Next, Promise!Release
<1> QED BY <1>1, <1>2, <1>3, <1>4, <1>5, <1>6 DEF LockMoves

----------------------------------------------------------------------------
(* Theorems of the specification *)

\* The resident is in a good state after every request, poll, reply and death.
THEOREM SpecIInv == "REINIT" \notin Used => (Spec => []IInv)
<1> SUFFICES ASSUME "REINIT" \notin Used PROVE Spec => []IInv
  OBVIOUS
<1>1. IInv /\ [Next]_vars => IInv'
  BY StepIInv
<1> QED BY InitIInv, <1>1, PTL DEF Spec

\* Every held call is on the one list that will finish it (gem_pending.c), is of
\* the connection and the target it was made for, and the lock follows the forms,
\* for any number of channels, any queue size and any lengths of calls.
THEOREM CallsAreSafe == "REINIT" \notin Used => (Spec => []CallSafety)
BY SpecIInv, IInvSafety, PTL

\* Whatever changes the bytes in a queue has run the pump until it cannot go on:
\* the cap of gem_resident_queue_progress on its passes is never too small.
THEOREM QueuesArePumpedDry == "REINIT" \notin Used => (Spec => PumpedDry)
<1> SUFFICES ASSUME "REINIT" \notin Used PROVE Spec => PumpedDry
  OBVIOUS
<1> DEFINE Pump == \A t \in Channels : aes'.queue[t] # aes.queue[t] => ~HeadCanGo(aes', t)
<1>1. IInv /\ [Next]_vars => [Pump]_vars
  <2> SUFFICES ASSUME IInv, Next PROVE Pump
    OBVIOUS
  <2> QED BY NextSteps DEF Steps, Moved, Calm
<1> QED BY SpecIInv, <1>1, PTL DEF Spec, PumpedDry

\* No read or write is served before one parked earlier on its side of the queue,
\* not even by pumps and sweeps in the middle of other handlers.
THEOREM OldestAreServedFirst == "REINIT" \notin Used => (Spec => OldestFirst)
<1> SUFFICES ASSUME "REINIT" \notin Used PROVE Spec => OldestFirst
  OBVIOUS
<1> DEFINE InTurn == \A t \in Channels :
                        \A list \in {aes.readers[t], aes.writers[t]} :
                            \A i, j \in DOMAIN list :
                                /\ i < j
                                /\ aes'.slot[list[j]].state = "READY"
                                /\ aes'.slot[list[j]].result = "done"
                                => aes'.slot[list[i]].state # "WAITING"
<1>1. IInv /\ [Next]_vars => [InTurn]_vars
  <2> SUFFICES ASSUME IInv, Next PROVE InTurn
    OBVIOUS
  <2>1. Steps
    BY NextSteps
  <2> QED BY <2>1, StepsKeepOrder
<1> QED BY SpecIInv, <1>1, PTL DEF Spec, OldestFirst

\* gem_aes_resident_poll leaves no message wait parked whose message has come:
\* one pass over the channels is enough, though each wait it serves pumps a queue.
THEOREM PollsServeMessages == "REINIT" \notin Used => (Spec => PollServesMessages)
<1> SUFFICES ASSUME "REINIT" \notin Used PROVE Spec => PollServesMessages
  OBVIOUS
<1> DEFINE Serves == Poll => \A c \in Channels :
                        ~ (Parked(aes', c, "EVENT") /\ aes'.slot[c].len = 1
                           /\ aes'.queue[c] >= MessageBytes)
<1>1. IInv /\ [Next]_vars => [Serves]_vars
  <2> SUFFICES ASSUME IInv, Next PROVE Serves
    OBVIOUS
  <2> QED BY PollSteps DEF Unserved
<1> QED BY SpecIInv, <1>1, PTL DEF Spec, PollServesMessages

\* GemCalls implements ScreenLock: its steps take, join, give up or hand on the
\* lock, or leave it alone, also where a form ends or a client dies.
THEOREM LockIsPlain == "REINIT" \notin Used => (Spec => ImplementsScreenLock)
<1> SUFFICES ASSUME "REINIT" \notin Used PROVE Spec => ImplementsScreenLock
  OBVIOUS
<1>1. Init => Promise!Init
  BY DEF Init, Promise!Init
<1>2. IInv /\ [Next]_vars => [Promise!Next]_<<aes.owner, aes.line>>
  <2>1. CASE Next
    BY <2>1, NextSteps, StepsImplement
  <2>2. CASE UNCHANGED vars
    BY <2>2 DEF vars
  <2> QED BY <2>1, <2>2
<1> QED BY SpecIInv, <1>1, <1>2, PTL DEF Spec, ImplementsScreenLock, Promise!Spec

----------------------------------------------------------------------------
(* The links of gem_pending.c implement sequences, for any number of slots *)
(* and of lists.                                                           *)
(*                                                                         *)
(* What the run checks of the links does not say that a chain ends: it is  *)
(* read up to a bound.  The invariant says that the links from each head   *)
(* go along a sequence of different channels and stop behind it.  Such a   *)
(* sequence is the one that is read, so the proof of each operation has    *)
(* only to name the sequences that the new links go along.                 *)

\* The links go from the head h along s, and stop.
Walk(h, link, s) ==
    IF s = <<>> THEN h = NoSlot
    ELSE /\ h = s[1]
         /\ \A i \in 1 .. Len(s) - 1 : link[s[i]] = s[i + 1]
         /\ link[s[Len(s)]] = NoSlot

\* One list: its links go along s, and its tail is the last of s.
Holds(s, link, h, t) ==
    /\ Walk(h, link, s)
    /\ NoRepeats(s)
    /\ t = IF s = <<>> THEN NoSlot ELSE s[Len(s)]

\* The sequences f are what the links, heads and tails represent.
Represents(f, link, hd, tl) ==
    /\ f \in [Lists -> Seq(Slots)]
    /\ \A l \in Lists : Holds(f[l], link, hd[l], tl[l])
    /\ \A l, k \in Lists, c \in Slots :
          Listed(f[l], c) /\ Listed(f[k], c) => l = k
    /\ \A c \in Slots : (\A l \in Lists : ~Listed(f[l], c)) => link[c] = NoSlot

Chains == [l \in Lists |-> Chain(l)]

Chained == LinksTyped /\ Represents(Chains, next, head, tail)

-----------------------------------------------------------------------------
(* Sequences *)

\* Different channels are no more than there are channels.
LEMMA ShortEnough ==
    ASSUME NEW s \in Seq(Slots), NoRepeats(s)
    PROVE  Len(s) <= Cardinality(Slots) /\ Cardinality(Slots) \in Nat
<1>1. s \in [1 .. Len(s) -> Slots] /\ Len(s) \in Nat /\ DOMAIN s = 1 .. Len(s)
  BY LenProperties
<1>2. s \in Injection(1 .. Len(s), Slots)
  BY <1>1 DEF NoRepeats, Injection, IsInjective
<1>3. Cardinality(1 .. Len(s)) <= Cardinality(Slots)
  BY <1>2, FiniteChannels, FS_Injection
<1>4. Cardinality(1 .. Len(s)) = Len(s)
  <2>1. 1 \in Int /\ Len(s) \in Int
    BY <1>1
  <2>2. Cardinality(1 .. Len(s)) = IF 1 > Len(s) THEN 0 ELSE (Len(s) - 1) + 1
    BY <2>1, FS_Interval
  <2>3. CASE Len(s) = 0
    BY <2>2, <2>3
  <2>4. CASE Len(s) # 0
    <3>1. ~(1 > Len(s)) /\ (Len(s) - 1) + 1 = Len(s)
      BY <1>1, <2>4
    <3> QED BY <2>2, <3>1
  <2> QED BY <2>3, <2>4
<1> QED BY <1>3, <1>4, FiniteChannels, FS_CardinalityType

\* The sequence the links go along is the one that is read.
LEMMA ChainIsWalk ==
    ASSUME NEW h, NEW link, NEW s \in Seq(Slots), Walk(h, link, s), NoRepeats(s)
    PROVE  ChainFrom(h, link) = s
<1> DEFINE N == Cardinality(Slots)
           k == Len(s)
           Rule(f) == f = [n \in 1 .. N + 1 |->
                              IF n = 1 THEN h
                              ELSE IF f[n - 1] = NoSlot THEN NoSlot ELSE link[f[n - 1]]]
           g == [n \in 1 .. N + 1 |-> IF n <= k THEN s[n] ELSE NoSlot]
<1>1. k \in Nat /\ N \in Nat /\ k <= N
  BY ShortEnough, LenProperties
<1>2. \A n \in 1 .. k : s[n] \in Slots /\ s[n] # NoSlot
  BY ElementOfSeq, NoneIsNoChannel
<1>3. s = <<>> <=> k = 0
  BY EmptySeq, <1>1
<1>4. Rule(g)
  <2>1. ASSUME NEW n \in 1 .. N + 1
        PROVE  g[n] = IF n = 1 THEN h
                      ELSE IF g[n - 1] = NoSlot THEN NoSlot ELSE link[g[n - 1]]
    <3>1. CASE n = 1
      <4>1. k = 0 => h = NoSlot
        BY <1>3 DEF Walk
      <4>2. k # 0 => h = s[1]
        BY <1>3 DEF Walk
      <4> QED BY <1>1, <3>1, <4>1, <4>2
    <3>2. CASE n # 1
      <4>1. n - 1 \in 1 .. N + 1 /\ n - 1 \in Nat
        BY <1>1, <3>2
      <4>2. CASE n <= k
        <5>1. g[n] = s[n] /\ g[n - 1] = s[n - 1] /\ n - 1 \in 1 .. k /\ n - 1 \in 1 .. Len(s) - 1
          BY <1>1, <4>1, <4>2, <3>2
        <5>2. link[s[n - 1]] = s[(n - 1) + 1]
          BY <1>1, <1>3, <5>1, <4>2 DEF Walk
        <5>3. (n - 1) + 1 = n
          OBVIOUS
        <5> QED BY <1>2, <3>2, <5>1, <5>2, <5>3
      <4>3. CASE n = k + 1
        <5>1. g[n] = NoSlot /\ g[n - 1] = s[k] /\ k \in 1 .. k /\ s # <<>>
          BY <1>1, <1>3, <4>1, <4>3, <3>2
        <5>2. link[s[k]] = NoSlot
          BY <5>1 DEF Walk
        <5> QED BY <1>2, <3>2, <5>1, <5>2
      <4>4. CASE n > k + 1
        <5>1. g[n] = NoSlot /\ g[n - 1] = NoSlot
          BY <1>1, <4>1, <4>4
        <5> QED BY <3>2, <5>1
      <4> QED BY <1>1, <4>2, <4>3, <4>4
    <3> QED BY <3>1, <3>2
  <2> HIDE DEF N, k
  <2> QED BY <2>1
<1>5. ASSUME NEW f, Rule(f) PROVE f = g
  <2>1. \A n \in 1 .. N + 1 : f[n] = IF n = 1 THEN h
                                      ELSE IF f[n - 1] = NoSlot THEN NoSlot ELSE link[f[n - 1]]
    BY <1>5
  <2>2. \A n \in 1 .. N + 1 : g[n] = IF n = 1 THEN h
                                      ELSE IF g[n - 1] = NoSlot THEN NoSlot ELSE link[g[n - 1]]
    BY <1>4
  <2> DEFINE S == {n \in 1 .. N + 1 : f[n] # g[n]}
  <2> HIDE DEF g, k, N
  <2>3. S = {}
    <3>1. SUFFICES ASSUME S # {} PROVE FALSE
      OBVIOUS
    <3>2. S \in SUBSET Nat /\ IsFiniteSet(S)
      <4>1. IsFiniteSet(1 .. N + 1) /\ S \subseteq 1 .. N + 1
        BY <1>1, FS_Interval
      <4> QED BY <4>1, <1>1, FS_Subset
    <3>3. PICK x \in S : \A y \in S : x <= y
      BY <3>1, <3>2, LeastMember
    <3>4. x \in 1 .. N + 1 /\ f[x] # g[x]
      OBVIOUS
    <3>5. x # 1
      BY <2>1, <2>2, <3>4
    <3>6. x - 1 \in 1 .. N + 1 /\ ~(x <= x - 1)
      BY <1>1, <3>4, <3>5
    <3>7. f[x - 1] = g[x - 1]
      BY <3>3, <3>6
    <3> QED BY <2>1, <2>2, <3>4, <3>5, <3>7
  <2>4. DOMAIN f = 1 .. N + 1 /\ f = [n \in 1 .. N + 1 |-> f[n]]
    BY <1>5
  <2>5. g = [n \in 1 .. N + 1 |-> g[n]]
    BY DEF g
  <2> QED BY <2>3, <2>4, <2>5
<1>6. ChainFrom(h, link) = LET met == CHOOSE f : Rule(f)
                           IN  [n \in {m \in DOMAIN met : met[m] # NoSlot} |-> met[n]]
  BY DEF ChainFrom
<1> HIDE DEF Rule
<1>7. (CHOOSE f : Rule(f)) = g
  BY <1>4, <1>5
<1>8. ChainFrom(h, link) = [n \in {m \in DOMAIN g : g[m] # NoSlot} |-> g[n]]
  BY <1>6, <1>7
<1>9. {m \in DOMAIN g : g[m] # NoSlot} = 1 .. k
  BY <1>1, <1>2
<1>10. s = [n \in 1 .. k |-> s[n]]
  BY LenProperties
<1>11. \A n \in 1 .. k : g[n] = s[n]
  BY <1>1
<1> HIDE DEF g, k
<1> QED BY <1>8, <1>9, <1>10, <1>11
-----------------------------------------------------------------------------
(* One list *)

\* A walk goes along any links that agree about the channels of its list.
LEMMA WalkKept ==
    ASSUME NEW s \in Seq(Slots), NEW h, NEW t, NEW link, NEW link2,
           Holds(s, link, h, t),
           \A c \in Slots : Listed(s, c) => link2[c] = link[c]
    PROVE  Holds(s, link2, h, t)
<1>1. Len(s) \in Nat /\ DOMAIN s = 1 .. Len(s) /\ s \in [1 .. Len(s) -> Slots]
  BY LenProperties
<1>2. \A i \in 1 .. Len(s) : link2[s[i]] = link[s[i]]
  BY <1>1 DEF Listed
<1>3. s # <<>> => Len(s) \in 1 .. Len(s)
  BY <1>1, EmptySeq
<1> QED BY <1>1, <1>2, <1>3 DEF Holds, Walk

\* The links after c has been put behind the tail t of s.
PutBehind(s, t, c, link, link2) ==
    /\ link2[c] = NoSlot
    /\ s # <<>> => link2[t] = c
    /\ \A x \in Slots : x \notin {c, t} => link2[x] = link[x]

\* A channel put behind the last one is the new tail, and on an empty list
\* the new head.
LEMMA AppendHolds ==
    ASSUME NEW s \in Seq(Slots), NEW h, NEW t, NEW link, NEW link2,
           NEW c \in Slots, NEW h2, h2 = IF s = <<>> THEN c ELSE h,
           Holds(s, link, h, t), ~Listed(s, c), PutBehind(s, t, c, link, link2)
    PROVE  Holds(Append(s, c), link2, h2, c)
<1> DEFINE k == Len(s)
           s2 == Append(s, c)
<1>1. k \in Nat /\ DOMAIN s = 1 .. k /\ s \in [1 .. k -> Slots]
  BY LenProperties
<1>2. /\ s2 \in Seq(Slots) /\ Len(s2) = k + 1 /\ s2 # <<>>
      /\ \A i \in 1 .. k : s2[i] = s[i]
      /\ s2[k + 1] = c
  BY AppendProperties
<1>3. DOMAIN s2 = 1 .. k + 1
  BY <1>2, LenProperties
<1>4. \A i \in 1 .. k : s[i] \in Slots /\ s[i] # c
  BY <1>1 DEF Listed
<1>5. s = <<>> <=> k = 0
  BY <1>1, EmptySeq
<1>0. /\ link2[c] = NoSlot
      /\ s # <<>> => link2[t] = c
      /\ \A x \in Slots : x \notin {c, t} => link2[x] = link[x]
  BY DEF PutBehind
<1> HIDE DEF s2, k
<1>6. NoRepeats(s2)
  <2>1. \A i, j \in 1 .. k : s[i] = s[j] => i = j
    BY <1>1 DEF Holds, NoRepeats
  <2> QED BY <1>1, <1>2, <1>3, <1>4, <2>1 DEF NoRepeats
<1>7. ASSUME NEW i \in 1 .. Len(s2) - 1 PROVE link2[s2[i]] = s2[i + 1]
  <2>1. i \in 1 .. k /\ s2[i] = s[i] /\ s # <<>>
    BY <1>1, <1>2, <1>5
  <2>2. t = s[k]
    BY <2>1 DEF Holds, k
  <2>3. CASE i = k
    BY <1>0, <1>2, <2>1, <2>2, <2>3
  <2>4. CASE i # k
    <3>1. i \in 1 .. k - 1 /\ i + 1 \in 1 .. k /\ k \in 1 .. k
      BY <1>1, <2>1, <2>4
    <3>2. link[s[i]] = s[i + 1]
      BY <2>1, <3>1 DEF Holds, Walk, k
    <3>3. s[i] # t
      BY <1>1, <2>1, <2>2, <2>4, <3>1 DEF Holds, NoRepeats
    <3> QED BY <1>0, <1>2, <1>4, <2>1, <3>1, <3>2, <3>3
  <2> QED BY <2>3, <2>4
<1>8. h2 = s2[1]
  <2>1. CASE s = <<>>
    BY <1>2, <1>5, <2>1
  <2>2. CASE s # <<>>
    <3>1. h = s[1] /\ 1 \in 1 .. k
      BY <1>1, <1>5, <2>2 DEF Holds, Walk
    <3> QED BY <1>2, <2>2, <3>1
  <2> QED BY <2>1, <2>2
<1>9. link2[s2[Len(s2)]] = NoSlot /\ c = s2[Len(s2)]
  BY <1>0, <1>2
<1> QED BY <1>2, <1>6, <1>7, <1>8, <1>9 DEF Holds, Walk, s2
\* Taking the first channel off makes its link the new head; it had no link
\* just when it was the last.
LEMMA FirstLeaves ==
    ASSUME NEW s \in Seq(Slots), NEW h, NEW t, NEW link, NEW link2,
           Holds(s, link, h, t), s # <<>>,
           \A x \in Slots : x # h => link2[x] = link[x]
    PROVE  /\ h = s[1] /\ h \in Slots
           /\ link[h] = NoSlot <=> t = h
           /\ Holds(Tail(s), link2, link[h], IF link[h] = NoSlot THEN NoSlot ELSE t)
<1> DEFINE k == Len(s)
           s2 == Tail(s)
<1>1. k \in Nat \ {0} /\ DOMAIN s = 1 .. k /\ s \in [1 .. k -> Slots]
  BY LenProperties, EmptySeq
<1>2. /\ s2 \in Seq(Slots) /\ Len(s2) = k - 1
      /\ \A i \in 1 .. k - 1 : s2[i] = s[i + 1]
  BY HeadTailProperties
<1>3. DOMAIN s2 = 1 .. k - 1
  BY <1>2, LenProperties
<1>4. s2 = <<>> <=> k = 1
  <2>1. s2 \in Seq(Slots) /\ Len(s2) = k - 1 /\ k \in Nat
    BY <1>1, <1>2
  <2> HIDE DEF s2, k
  <2> QED BY <2>1, EmptySeq
<1>5. /\ h = s[1] /\ h \in Slots /\ t = s[k] /\ t \in Slots
      /\ t # NoSlot
  BY <1>1, NoneIsNoChannel DEF Holds, Walk, k
<1>6. /\ \A i \in 1 .. k - 1 : link[s[i]] = s[i + 1]
      /\ link[s[k]] = NoSlot
      /\ \A i, j \in 1 .. k : s[i] = s[j] => i = j
  BY <1>1 DEF Holds, Walk, NoRepeats, k
<1> HIDE DEF s2, k
<1>7. CASE k = 1
  <2>1. link[h] = NoSlot /\ t = h
    BY <1>5, <1>6, <1>7
  <2>2. Holds(s2, link2, NoSlot, NoSlot)
    BY <1>3, <1>4, <1>7 DEF Holds, Walk, NoRepeats
  <2> QED BY <1>5, <2>1, <2>2 DEF s2
<1>8. CASE k # 1
  <2>1. link[h] = s[2] /\ s[2] # NoSlot /\ 1 \in 1 .. k - 1 /\ s2[1] = s[2]
    <3>1. 1 \in 1 .. k - 1 /\ 1 + 1 = 2 /\ 2 \in 1 .. k
      BY <1>1, <1>8
    <3> QED BY <1>1, <1>2, <1>5, <1>6, <3>1, NoneIsNoChannel
  <2>2. t # h
    BY <1>1, <1>5, <1>6, <1>8
  <2>3. s2[k - 1] = t /\ s2 # <<>>
    BY <1>1, <1>2, <1>4, <1>5, <1>8
  <2>4. ASSUME NEW i \in 1 .. (k - 1) - 1 PROVE link2[s2[i]] = s2[i + 1]
    <3>1. i \in 1 .. k - 1 /\ i + 1 \in 1 .. k - 1 /\ i + 1 \in 1 .. k /\ 1 \in 1 .. k /\ i + 1 # 1
      BY <1>1
    <3>2. s[i + 1] # h /\ s[i + 1] \in Slots
      BY <1>1, <1>5, <1>6, <3>1
    <3> QED BY <1>2, <1>6, <3>1, <3>2
  <2>5. link2[t] = NoSlot
    BY <1>5, <1>6, <2>2
  <2>6. NoRepeats(s2)
    <3>1. ASSUME NEW i \in 1 .. k - 1, NEW j \in 1 .. k - 1, s2[i] = s2[j]
          PROVE  i = j
      <4>1. i + 1 \in 1 .. k /\ j + 1 \in 1 .. k /\ i \in Nat /\ j \in Nat
        BY <1>1
      <4>2. i + 1 = j + 1
        BY <1>2, <1>6, <3>1, <4>1
      <4> QED BY <4>1, <4>2
    <3> QED BY <1>3, <3>1 DEF NoRepeats
  <2>7. Holds(s2, link2, link[h], t)
    BY <1>2, <2>1, <2>3, <2>4, <2>5, <2>6 DEF Holds, Walk
  <2> QED BY <1>5, <2>1, <2>2, <2>7 DEF s2
<1> QED BY <1>7, <1>8

\* Taking a later channel off links the one before it to the one behind it,
\* and makes the one before it the tail if there is none behind.
LEMMA LaterLeaves ==
    ASSUME NEW s \in Seq(Slots), NEW h, NEW t, NEW link, NEW link2,
           Holds(s, link, h, t), NEW i \in 2 .. Len(s),
           link2[s[i - 1]] = link[s[i]],
           \A x \in Slots : x \notin {s[i], s[i - 1]} => link2[x] = link[x]
    PROVE  Holds(Without(s, s[i]), link2, h, IF t = s[i] THEN s[i - 1] ELSE t)
<1> DEFINE k == Len(s)
           s2 == Without(s, s[i])
<1>1. k \in Nat \ {0, 1} /\ DOMAIN s = 1 .. k /\ s \in [1 .. k -> Slots] /\ s # <<>>
  BY LenProperties, EmptySeq
<1>2. /\ i \in Nat /\ i \in 1 .. k /\ i - 1 \in 1 .. k /\ i - 1 \in 1 .. k - 1
      /\ i - 1 # i /\ (i - 1) + 1 = i
  BY <1>1
<1>3. /\ h = s[1] /\ t = s[k]
      /\ \A j \in 1 .. k - 1 : link[s[j]] = s[j + 1]
      /\ link[s[k]] = NoSlot
      /\ \A j, m \in 1 .. k : s[j] = s[m] => j = m
  BY <1>1 DEF Holds, Walk, NoRepeats, k
<1>4. /\ s2 \in Seq(Slots) /\ Len(s2) = k - 1
      /\ \A j \in 1 .. k - 1 : s2[j] = IF j < i THEN s[j] ELSE s[j + 1]
  BY <1>2, <1>3, WithoutAt
<1>5. DOMAIN s2 = 1 .. k - 1 /\ s2 # <<>>
  <2>1. s2 = <<>> => Len(s2) = 0
    BY <1>4, EmptySeq
  <2> HIDE DEF s2, k
  <2>2. k - 1 # 0 /\ Len(s2) = k - 1
    BY <1>1, <1>4
  <2> QED BY <1>4, <2>1, <2>2, LenProperties
<1>6. NoRepeats(s2)
  <2>1. \A j, m \in 1 .. Len(s2) : s2[j] = s2[m] => j = m
    BY <1>2, <1>3, WithoutKeepsOthers
  <2> QED BY <1>4, <1>5, <2>1 DEF NoRepeats
<1> HIDE DEF s2, k
<1>7. s2[1] = s[1]
  BY <1>1, <1>2, <1>4
<1>8. ASSUME NEW j \in 1 .. k, j # i PROVE j = i - 1 \/ link2[s[j]] = link[s[j]]
  <2>1. s[j] \in Slots /\ s[j] # s[i]
    BY <1>1, <1>2, <1>3, <1>8
  <2>2. j # i - 1 => s[j] # s[i - 1]
    BY <1>2, <1>3
  <2> QED BY <2>1, <2>2
<1>9. ASSUME NEW j \in 1 .. (k - 1) - 1 PROVE link2[s2[j]] = s2[j + 1]
  <2>1. /\ j \in 1 .. k - 1 /\ j + 1 \in 1 .. k - 1 /\ j \in 1 .. k /\ j + 1 \in 1 .. k
        /\ j \in Nat
    BY <1>1
  <2>2. CASE j < i - 1
    <3>1. s2[j] = s[j] /\ s2[j + 1] = s[j + 1] /\ j # i /\ j # i - 1
      BY <1>2, <1>4, <2>1, <2>2
    <3> QED BY <1>3, <1>8, <2>1, <3>1
  <2>3. CASE j = i - 1
    <3>1. s2[j] = s[i - 1] /\ s2[j + 1] = s[i + 1] /\ i \in 1 .. k - 1
      BY <1>2, <1>4, <2>1, <2>3
    <3> QED BY <1>3, <3>1
  <2>4. CASE j > i - 1
    <3>1. /\ s2[j] = s[j + 1] /\ s2[j + 1] = s[(j + 1) + 1]
          /\ j + 1 # i /\ j + 1 # i - 1
      BY <1>2, <1>4, <2>1, <2>4
    <3> QED BY <1>3, <1>8, <2>1, <3>1
  <2> QED BY <1>2, <2>1, <2>2, <2>3, <2>4
<1>10. CASE i = k
  <2>1. s2[k - 1] = s[i - 1] /\ t = s[i]
    BY <1>1, <1>2, <1>3, <1>4, <1>10
  <2>2. link2[s[i - 1]] = NoSlot
    BY <1>3, <1>10
  <2> QED BY <1>3, <1>4, <1>5, <1>6, <1>7, <1>9, <2>1, <2>2 DEF Holds, Walk, s2
<1>11. CASE i # k
  <2>1. s2[k - 1] = s[k] /\ t # s[i] /\ k # i - 1 /\ k \in 1 .. k
    BY <1>1, <1>2, <1>3, <1>4, <1>11
  <2>2. link2[s[k]] = NoSlot
    BY <1>3, <1>8, <1>11, <2>1
  <2> QED BY <1>3, <1>4, <1>5, <1>6, <1>7, <1>9, <2>1, <2>2 DEF Holds, Walk, s2
<1> QED BY <1>10, <1>11
-----------------------------------------------------------------------------
(* All lists *)

\* The links of the other lists' own channels are left alone, and a channel
\* on none of them and not on s2, which replaces list l, has no link.
Apart(f, l, s2, link, link2) ==
    /\ \A k \in Lists \ {l}, c \in Slots :
          Listed(f[k], c) => ~Listed(s2, c) /\ link2[c] = link[c]
    /\ \A c \in Slots :
          ~Listed(s2, c) /\ (\A k \in Lists \ {l} : ~Listed(f[k], c))
             => link2[c] = NoSlot

\* One list end is replaced.
Replaced(l, e, ends, ends2) ==
    \A k \in Lists : ends2[k] = IF k = l THEN e ELSE ends[k]

\* An operation that changes one list and keeps apart from the others.
LEMMA OneListChanges ==
    ASSUME NEW f, NEW link, NEW hd, NEW tl, Represents(f, link, hd, tl),
           NEW l \in Lists, NEW s2 \in Seq(Slots), NEW h2, NEW t2,
           NEW link2, NEW hd2, NEW tl2, NEW f2, f2 = [f EXCEPT ![l] = s2],
           Replaced(l, h2, hd, hd2), Replaced(l, t2, tl, tl2),
           Holds(s2, link2, h2, t2), Apart(f, l, s2, link, link2)
    PROVE  Represents(f2, link2, hd2, tl2)
<1>1. f \in [Lists -> Seq(Slots)]
  BY DEF Represents
<1>2. /\ f2 \in [Lists -> Seq(Slots)]
      /\ f2[l] = s2
      /\ \A k \in Lists \ {l} : f2[k] = f[k]
  BY <1>1
<1>3. ASSUME NEW k \in Lists PROVE Holds(f2[k], link2, hd2[k], tl2[k])
  <2>1. CASE k = l
    BY <1>2, <2>1 DEF Replaced
  <2>2. CASE k # l
    <3>1. f[k] \in Seq(Slots) /\ Holds(f[k], link, hd[k], tl[k])
      BY DEF Represents
    <3>2. \A c \in Slots : Listed(f[k], c) => link2[c] = link[c]
      BY <2>2 DEF Apart
    <3>3. Holds(f[k], link2, hd[k], tl[k])
      BY ONLY <3>1, <3>2, WalkKept
    <3> QED BY <1>2, <2>2, <3>3 DEF Replaced
  <2> QED BY <2>1, <2>2
<1>4. ASSUME NEW k \in Lists, NEW m \in Lists, NEW c \in Slots,
             Listed(f2[k], c), Listed(f2[m], c)
      PROVE  k = m
  <2>1. CASE k = l \/ m = l
    BY <1>2, <1>4, <2>1 DEF Apart
  <2>2. CASE k # l /\ m # l
    BY <1>2, <1>4, <2>2 DEF Represents
  <2> QED BY <2>1, <2>2
<1>5. ASSUME NEW c \in Slots, \A k \in Lists : ~Listed(f2[k], c)
      PROVE  link2[c] = NoSlot
  BY <1>2, <1>5 DEF Apart
<1> QED BY <1>2, <1>3, <1>4, <1>5 DEF Represents

\* A channel that is taken off its list keeps apart from the other lists.
LEMMA TakenOff ==
    ASSUME NEW f, NEW link, NEW hd, NEW tl, Represents(f, link, hd, tl),
           NEW l \in Lists, NEW c \in Slots, NEW link2, NEW s2,
           s2 = Without(f[l], c), Listed(f[l], c), link2[c] = NoSlot,
           \A x \in Slots : ~Listed(f[l], x) => link2[x] = link[x]
    PROVE  s2 \in Seq(Slots) /\ Apart(f, l, s2, link, link2)
<1>1. f[l] \in Seq(Slots) /\ NoRepeats(f[l])
  BY DEF Represents, Holds
<1>2. PICK s : s = f[l]
  OBVIOUS
<1>3. s \in Seq(Slots) /\ NoRepeats(s) /\ s2 = Without(s, c)
  BY <1>1, <1>2
<1>6. s2 \in Seq(Slots) /\ \A x \in Slots : Listed(s2, x) <=> x # c /\ Listed(f[l], x)
  BY <1>2, <1>3, WithoutListed
<1>7. ASSUME NEW k \in Lists \ {l}, NEW x \in Slots, Listed(f[k], x)
      PROVE  ~Listed(s2, x) /\ link2[x] = link[x]
  <2>1. ~Listed(f[l], x)
    BY <1>7 DEF Represents
  <2> QED BY <1>6, <2>1
<1>8. ASSUME NEW x \in Slots, ~Listed(s2, x),
             \A k \in Lists \ {l} : ~Listed(f[k], x)
      PROVE  link2[x] = NoSlot
  <2>1. CASE x = c
    BY <2>1
  <2>2. CASE x # c
    <3>1. \A k \in Lists : ~Listed(f[k], x)
      BY <1>6, <1>8, <2>2
    <3> QED BY <3>1 DEF Represents
  <2> QED BY <2>1, <2>2
<1> QED BY <1>6, <1>7, <1>8 DEF Apart

\* What the lists represent is what reading them gives.
LEMMA ReadBack ==
    ASSUME NEW f, NEW link, NEW hd, NEW tl, Represents(f, link, hd, tl)
    PROVE  f = [l \in Lists |-> ChainFrom(hd[l], link)]
<1>1. f \in [Lists -> Seq(Slots)]
  BY DEF Represents
<1>2. ASSUME NEW l \in Lists PROVE ChainFrom(hd[l], link) = f[l]
  <2>1. f[l] \in Seq(Slots) /\ Walk(hd[l], link, f[l]) /\ NoRepeats(f[l])
    BY <1>1 DEF Represents, Holds
  <2> QED BY <2>1, ChainIsWalk
<1> QED BY <1>1, <1>2

-----------------------------------------------------------------------------
(* The operations *)

\* Links that represent other sequences are read as those.
LEMMA ChainsFollow ==
    ASSUME NEW f, Represents(f, next', head', tail')
    PROVE  Chains' = f /\ Represents(Chains, next, head, tail)'
<1>1. f = [l \in Lists |-> ChainFrom(head'[l], next')]
  BY ReadBack
<1>2. Chains' = f
  BY <1>1 DEF Chains, Chain
<1> QED BY <1>2

\* gem_pending_list_append puts the channel behind the last one of its list.
LEMMA AppendStep ==
    ASSUME Chained, NEW l \in Lists, NEW c \in Slots, ListAppend(l, c)
    PROVE  Chained' /\ Chains' = [Chains EXCEPT ![l] = Append(@, c)]
<1>1. PICK f : f = Chains
  OBVIOUS
<1>2. /\ Represents(f, next, head, tail)
      /\ f \in [Lists -> Seq(Slots)]
      /\ \A k \in Lists : ~Listed(f[k], c)
  BY <1>1 DEF Chained, Represents, ListAppend, OnSomeList, Chains
<1>3. /\ next \in [Slots -> Slots \cup {NoSlot}]
      /\ head \in [Lists -> Slots \cup {NoSlot}]
      /\ tail \in [Lists -> Slots \cup {NoSlot}]
      /\ popped \in Slots \cup {NoSlot}
  BY DEF Chained, LinksTyped
<1>4. /\ f[l] \in Seq(Slots)
      /\ Holds(f[l], next, head[l], tail[l])
  BY <1>2 DEF Represents
<1>5. (f[l] = <<>> <=> tail[l] = NoSlot) /\ (f[l] # <<>> => Listed(f[l], tail[l]))
  <2>1. CASE f[l] = <<>>
    BY <1>4, <2>1 DEF Holds
  <2>2. CASE f[l] # <<>>
    <3>1. Len(f[l]) \in 1 .. Len(f[l]) /\ DOMAIN f[l] = 1 .. Len(f[l])
      BY <1>4, <2>2, LenProperties, EmptySeq
    <3>2. tail[l] = f[l][Len(f[l])] /\ f[l][Len(f[l])] \in Slots
      BY <1>4, <2>2, <3>1, ElementOfSeq DEF Holds
    <3> QED BY <2>2, <3>1, <3>2, NoneIsNoChannel DEF Listed
  <2> QED BY <2>1, <2>2
<1>6. /\ next' \in [Slots -> Slots \cup {NoSlot}]
      /\ head' \in [Lists -> Slots \cup {NoSlot}]
      /\ tail' \in [Lists -> Slots \cup {NoSlot}]
      /\ popped' \in Slots \cup {NoSlot}
  BY <1>3 DEF ListAppend
<1>7. /\ next'[c] = NoSlot
      /\ f[l] # <<>> => next'[tail[l]] = c
      /\ \A x \in Slots : x \notin {c, tail[l]} => next'[x] = next[x]
  <2>1. CASE tail[l] # NoSlot
    <3>1. tail[l] \in Slots /\ tail[l] # c
      BY <1>2, <1>3, <1>5, <2>1
    <3> QED BY <1>3, <2>1, <3>1 DEF ListAppend
  <2>2. CASE tail[l] = NoSlot
    BY <1>3, <1>5, <2>2 DEF ListAppend
  <2> QED BY <2>1, <2>2
<1>a. PICK first : first = IF f[l] = <<>> THEN c ELSE head[l]
  OBVIOUS
<1>8. Replaced(l, first, head, head')
  BY <1>3, <1>5, <1>a DEF ListAppend, Replaced
<1>9. Replaced(l, c, tail, tail')
  BY <1>3 DEF ListAppend, Replaced
<1>10. PICK s2 : s2 = Append(f[l], c)
  OBVIOUS
<1>11. /\ s2 \in Seq(Slots)
       /\ Holds(s2, next', first, c)
  <2>1. s2 \in Seq(Slots)
    BY <1>4, <1>10, AppendProperties
  <2>2. ~Listed(f[l], c)
    BY <1>2
  <2>3. Holds(Append(f[l], c), next', first, c)
    <3>1. PutBehind(f[l], tail[l], c, next, next')
      BY <1>7 DEF PutBehind
    <3> QED BY <1>4, <1>a, <2>2, <3>1, AppendHolds
  <2> QED BY <1>10, <2>1, <2>3
<1>12. \A x \in Slots : Listed(s2, x) <=> x = c \/ Listed(f[l], x)
  <2>1. /\ Len(s2) = Len(f[l]) + 1 /\ s2[Len(f[l]) + 1] = c
        /\ \A i \in 1 .. Len(f[l]) : s2[i] = f[l][i]
        /\ DOMAIN s2 = 1 .. Len(f[l]) + 1
    BY <1>4, <1>10, <1>11, AppendProperties, LenProperties
  <2>2. Len(f[l]) \in Nat /\ DOMAIN f[l] = 1 .. Len(f[l])
    BY <1>4, LenProperties
  <2>3. 1 .. Len(f[l]) + 1 = 1 .. Len(f[l]) \cup {Len(f[l]) + 1}
    BY <2>2
  <2> QED BY <2>1, <2>2, <2>3 DEF Listed
<1>13. \A k \in Lists \ {l}, x \in Slots :
          Listed(f[k], x) => ~Listed(s2, x) /\ next'[x] = next[x]
  <2>1. SUFFICES ASSUME NEW k \in Lists \ {l}, NEW x \in Slots, Listed(f[k], x)
                 PROVE  ~Listed(s2, x) /\ next'[x] = next[x]
    OBVIOUS
  <2>2. x # c /\ ~Listed(f[l], x)
    BY <1>2, <2>1 DEF Represents
  <2>3. x # tail[l]
    BY <1>5, <2>2, NoneIsNoChannel
  <2> QED BY <1>7, <1>12, <2>2, <2>3
<1>14. \A x \in Slots :
          ~Listed(s2, x) /\ (\A k \in Lists \ {l} : ~Listed(f[k], x)) => next'[x] = NoSlot
  <2>1. SUFFICES ASSUME NEW x \in Slots, ~Listed(s2, x),
                        \A k \in Lists \ {l} : ~Listed(f[k], x)
                 PROVE  next'[x] = NoSlot
    OBVIOUS
  <2>2. x # c /\ ~Listed(f[l], x)
    BY <1>12, <2>1
  <2>3. \A k \in Lists : ~Listed(f[k], x)
    BY <2>1, <2>2
  <2>4. x # tail[l] /\ next[x] = NoSlot
    BY <1>2, <1>5, <2>2, <2>3, NoneIsNoChannel DEF Represents
  <2> QED BY <1>7, <2>2, <2>4
<1>15. PICK f2 : f2 = [f EXCEPT ![l] = s2]
  OBVIOUS
<1>16. Represents(f2, next', head', tail')
  <2>1. Apart(f, l, s2, next, next')
    BY <1>13, <1>14 DEF Apart
  <2> QED BY <1>2, <1>8, <1>9, <1>11, <1>15, <2>1, OneListChanges
<1>17. Chains' = f2 /\ Represents(Chains, next, head, tail)'
  BY <1>16, ChainsFollow
<1> QED BY <1>1, <1>6, <1>10, <1>15, <1>17 DEF Chained, LinksTyped
\* gem_pending_list_pop answers the first channel of its list and takes it
\* off; an empty list answers NoSlot and stays.
LEMMA PopStep ==
    ASSUME Chained, NEW l \in Lists, ListPop(l)
    PROVE  /\ Chained'
           /\ Chains[l] = <<>> => popped' = NoSlot /\ Chains' = Chains
           /\ Chains[l] # <<>> =>
                 /\ popped' = Head(Chains[l])
                 /\ Chains' = [Chains EXCEPT ![l] = Tail(@)]
<1>1. PICK f : f = Chains
  OBVIOUS
<1>2. Represents(f, next, head, tail) /\ f \in [Lists -> Seq(Slots)]
  BY <1>1 DEF Chained, Represents
<1>3. /\ next \in [Slots -> Slots \cup {NoSlot}]
      /\ head \in [Lists -> Slots \cup {NoSlot}]
      /\ tail \in [Lists -> Slots \cup {NoSlot}]
      /\ popped \in Slots \cup {NoSlot}
  BY DEF Chained, LinksTyped
<1>4. /\ f[l] \in Seq(Slots)
      /\ Holds(f[l], next, head[l], tail[l])
  BY <1>2 DEF Represents
<1>5. CASE f[l] = <<>>
  <2>1. head[l] = NoSlot
    BY <1>4, <1>5 DEF Holds, Walk
  <2>2. popped' = NoSlot /\ next' = next /\ head' = head /\ tail' = tail
    BY <2>1 DEF ListPop
  <2>3. Chains' = Chains
    BY <2>2 DEF Chains, Chain
  <2>4. Represents(Chains, next, head, tail)'
    BY <1>1, <1>2, <2>2, <2>3
  <2>5. LinksTyped'
    BY <1>3, <2>2 DEF LinksTyped
  <2> QED BY <1>1, <1>5, <2>2, <2>3, <2>4, <2>5 DEF Chained
<1>6. CASE f[l] # <<>>
  <2>1. PICK h : h = head[l]
    OBVIOUS
  <2>2. h = f[l][1] /\ h \in Slots /\ h # NoSlot
    <3>1. 1 \in 1 .. Len(f[l])
      BY <1>4, <1>6, LenProperties, EmptySeq
    <3>2. f[l][1] \in Slots
      BY <1>4, <3>1, ElementOfSeq
    <3> QED BY <1>4, <1>6, <2>1, <3>2, NoneIsNoChannel DEF Holds, Walk
  <2>3. /\ popped' = h
        /\ head' = [head EXCEPT ![l] = next[h]]
        /\ tail' = IF next[h] = NoSlot THEN [tail EXCEPT ![l] = NoSlot] ELSE tail
        /\ next' = [next EXCEPT ![h] = NoSlot]
    BY <2>1, <2>2 DEF ListPop
  <2>4. LinksTyped'
    <3>1. next[h] \in Slots \cup {NoSlot}
      BY <1>3, <2>2
    <3> QED BY <1>3, <2>2, <2>3, <3>1 DEF LinksTyped
  <2>5. next'[h] = NoSlot /\ \A x \in Slots : x # h => next'[x] = next[x]
    BY <1>3, <2>2, <2>3
  <2>6. PICK t2 : t2 = IF next[h] = NoSlot THEN NoSlot ELSE tail[l]
    OBVIOUS
  <2>7. Holds(Tail(f[l]), next', next[h], t2)
    BY <1>4, <1>6, <2>1, <2>5, <2>6, FirstLeaves
  <2>8. Replaced(l, next[h], head, head') /\ Replaced(l, t2, tail, tail')
    BY <1>3, <2>3, <2>6 DEF Replaced
  <2>9. DOMAIN f[l] = 1 .. Len(f[l]) /\ 1 \in 1 .. Len(f[l])
    BY <1>4, <1>6, LenProperties, EmptySeq
  <2>10. \A j, k \in 1 .. Len(f[l]) : f[l][j] = f[l][k] => j = k
    BY <1>4, <2>9 DEF Holds, NoRepeats
  <2>11. Tail(f[l]) = Without(f[l], h)
    BY <1>4, <1>6, <2>2, <2>10, WithoutFirst
  <2>12. Listed(f[l], h)
    BY <2>2, <2>9 DEF Listed
  <2>13. PICK s2 : s2 = Tail(f[l])
    OBVIOUS
  <2>14. s2 \in Seq(Slots) /\ Apart(f, l, s2, next, next')
    <3>1. \A x \in Slots : ~Listed(f[l], x) => next'[x] = next[x]
      BY <2>5, <2>12
    <3>2. s2 = Without(f[l], h)
      BY <2>11, <2>13
    <3> QED BY <1>2, <2>2, <2>5, <2>12, <3>1, <3>2, TakenOff
  <2>15. PICK f2 : f2 = [f EXCEPT ![l] = s2]
    OBVIOUS
  <2>16. Represents(f2, next', head', tail')
    <3>1. Holds(s2, next', next[h], t2)
      BY <2>7, <2>13
    <3> QED BY <1>2, <2>8, <2>14, <2>15, <3>1, OneListChanges
  <2>17. Chains' = f2 /\ Represents(Chains, next, head, tail)'
    BY <2>16, ChainsFollow
  <2>18. popped' = Head(f[l])
    BY <2>2, <2>3
  <2> QED BY <1>1, <1>6, <2>4, <2>13, <2>15, <2>17, <2>18 DEF Chained
<1> QED BY <1>5, <1>6
\* The channel before the i-th on its list is the one that names it.
LEMMA PreviousIsBefore ==
    ASSUME Chained, NEW l \in Lists, NEW s, s = Chain(l), NEW i \in 1 .. Len(s)
    PROVE  /\ i = 1 => Previous(l, s[i]) = NoSlot /\ head[l] = s[i]
           /\ i # 1 => Previous(l, s[i]) = s[i - 1] /\ head[l] # s[i]
<1>1. /\ s \in Seq(Slots)
      /\ Holds(s, next, head[l], tail[l])
  <2>1. s = Chains[l]
    BY DEF Chains
  <2> QED BY <2>1 DEF Chained, Represents
<1>2. /\ Len(s) \in Nat /\ DOMAIN s = 1 .. Len(s) /\ s # <<>>
      /\ s \in [1 .. Len(s) -> Slots]
  BY <1>1, LenProperties, EmptySeq
<1>3. /\ head[l] = s[1]
      /\ \A j \in 1 .. Len(s) - 1 : next[s[j]] = s[j + 1]
      /\ next[s[Len(s)]] = NoSlot
      /\ \A j, k \in 1 .. Len(s) : s[j] = s[k] => j = k
  BY <1>1, <1>2 DEF Holds, Walk, NoRepeats
<1>4. CASE i = 1
  BY <1>3, <1>4 DEF Previous
<1>5. CASE i # 1
  <2>1. /\ i - 1 \in 1 .. Len(s) /\ i - 1 \in 1 .. Len(s) - 1 /\ (i - 1) + 1 = i
        /\ 1 \in 1 .. Len(s)
    BY <1>2, <1>5
  <2>2. head[l] # s[i]
    BY <1>3, <1>5, <2>1
  <2>3. s[i - 1] \in Slots /\ Listed(s, s[i - 1]) /\ next[s[i - 1]] = s[i]
    BY <1>2, <1>3, <2>1 DEF Listed
  <2>4. ASSUME NEW p \in Slots, Listed(s, p), next[p] = s[i]
        PROVE  p = s[i - 1]
    <3>1. PICK j \in 1 .. Len(s) : s[j] = p
      BY <1>2, <2>4 DEF Listed
    <3>2. j # Len(s)
      BY <1>2, <1>3, <2>4, <3>1, NoneIsNoChannel
    <3>3. j \in 1 .. Len(s) - 1 /\ j + 1 \in 1 .. Len(s)
      <4>1. Len(s) \in Nat /\ j \in 1 .. Len(s)
        BY <1>2
      <4> QED BY ONLY <3>2, <4>1
    <3>4. s[j + 1] = s[i]
      BY <1>3, <2>4, <3>1, <3>3
    <3>5. j + 1 = i
      BY <1>3, <3>3, <3>4
    <3>6. i - 1 = j
      BY <1>2, <3>5
    <3> QED BY <3>1, <3>6
  <2>5. (CHOOSE p \in Slots : Listed(s, p) /\ next[p] = s[i]) = s[i - 1]
    BY <2>3, <2>4
  <2> QED BY <1>5, <2>2, <2>5 DEF Previous
<1> QED BY <1>4, <1>5

\* gem_pending_list_remove takes the channel off from wherever it is.
LEMMA RemoveStep ==
    ASSUME Chained, NEW l \in Lists, NEW c \in Slots, ListRemove(l, c)
    PROVE  Chained' /\ Chains' = [Chains EXCEPT ![l] = Without(@, c)]
<1>1. PICK f : f = Chains
  OBVIOUS
<1>2. Represents(f, next, head, tail) /\ f \in [Lists -> Seq(Slots)]
  BY <1>1 DEF Chained, Represents
<1>3. /\ next \in [Slots -> Slots \cup {NoSlot}]
      /\ head \in [Lists -> Slots \cup {NoSlot}]
      /\ tail \in [Lists -> Slots \cup {NoSlot}]
      /\ popped \in Slots \cup {NoSlot}
  BY DEF Chained, LinksTyped
<1>4. PICK s : s = f[l]
  OBVIOUS
<1>5. /\ s \in Seq(Slots) /\ s = Chain(l)
      /\ Holds(s, next, head[l], tail[l])
  BY <1>1, <1>2, <1>4 DEF Represents, Chains
<1>6. /\ Len(s) \in Nat /\ DOMAIN s = 1 .. Len(s)
      /\ s \in [1 .. Len(s) -> Slots]
  BY <1>5, LenProperties
<1>7. CASE ~Listed(s, c)
  <2>1. next' = next /\ head' = head /\ tail' = tail /\ popped' = popped
    BY <1>5, <1>7 DEF ListRemove
  <2>2. Chains' = Chains
    BY <2>1 DEF Chains, Chain
  <2>3. Represents(Chains, next, head, tail)'
    BY <1>1, <1>2, <2>1, <2>2
  <2>4. LinksTyped'
    BY <1>3, <2>1 DEF LinksTyped
  <2>5. Without(s, c) = s
    BY <1>5, <1>6, <1>7, WithoutAbsent DEF Listed
  <2>6. [f EXCEPT ![l] = Without(@, c)] = f
    BY <1>2, <1>4, <2>5
  <2> QED BY <1>1, <2>2, <2>3, <2>4, <2>6 DEF Chained
<1>8. CASE Listed(s, c)
  <2>1. PICK i \in 1 .. Len(s) : s[i] = c
    BY <1>6, <1>8 DEF Listed
  <2>2. /\ head[l] = s[1] /\ s # <<>>
        /\ \A j, k \in 1 .. Len(s) : s[j] = s[k] => j = k
    BY <1>5, <1>6, <2>1 DEF Holds, Walk, NoRepeats
  <2>3. PICK s2 : s2 = Without(s, c)
    OBVIOUS
  <2>4. PICK f2 : f2 = [f EXCEPT ![l] = s2]
    OBVIOUS
  <2>5. f2 = [f EXCEPT ![l] = Without(@, c)]
    BY <1>2, <1>4, <2>3, <2>4
  <2>6. next[c] \in Slots \cup {NoSlot}
    BY <1>3
  <2>7. ASSUME NEW h2, NEW t2,
               Replaced(l, h2, head, head'), Replaced(l, t2, tail, tail'),
               Holds(s2, next', h2, t2), next'[c] = NoSlot, LinksTyped',
               \A x \in Slots : ~Listed(s, x) => next'[x] = next[x]
        PROVE  Chained' /\ Chains' = [Chains EXCEPT ![l] = Without(@, c)]
    <3>1. s2 = Without(f[l], c) /\ Listed(f[l], c)
      BY <1>4, <1>8, <2>3
    <3>2. \A x \in Slots : ~Listed(f[l], x) => next'[x] = next[x]
      BY <1>4, <2>7
    <3>3. s2 \in Seq(Slots) /\ Apart(f, l, s2, next, next')
      BY <1>2, <2>7, <3>1, <3>2, TakenOff
    <3>4. Represents(f2, next', head', tail')
      BY <1>2, <2>4, <2>7, <3>3, OneListChanges
    <3>5. Chains' = f2 /\ Represents(Chains, next, head, tail)'
      BY <3>4, ChainsFollow
    <3> QED BY <1>1, <2>5, <2>7, <3>5 DEF Chained
  <2>8. CASE i = 1
    <3>1. Previous(l, c) = NoSlot /\ head[l] = c
      BY <1>5, <2>1, <2>8, PreviousIsBefore
    <3>2. /\ head' = [head EXCEPT ![l] = next[c]]
          /\ next' = [next EXCEPT ![c] = NoSlot]
          /\ tail' = IF tail[l] = c THEN [tail EXCEPT ![l] = NoSlot] ELSE tail
          /\ popped' = popped
      BY <1>5, <1>8, <3>1 DEF ListRemove
    <3>3. next'[c] = NoSlot /\ \A x \in Slots : x # c => next'[x] = next[x]
      BY <1>3, <3>2
    <3>4. PICK h : h = head[l]
      OBVIOUS
    <3>5. /\ next[c] = NoSlot <=> tail[l] = c
          /\ Holds(Tail(s), next', next[c], IF next[c] = NoSlot THEN NoSlot ELSE tail[l])
      BY <1>5, <2>2, <3>1, <3>3, FirstLeaves
    <3>6. Tail(s) = s2
      BY <1>5, <2>1, <2>2, <2>3, <2>8, WithoutFirst
    <3>7. PICK t2 : t2 = IF next[c] = NoSlot THEN NoSlot ELSE tail[l]
      OBVIOUS
    <3>8. Holds(s2, next', next[c], t2)
      BY <3>5, <3>6, <3>7
    <3>9. Replaced(l, next[c], head, head') /\ Replaced(l, t2, tail, tail')
      BY <1>3, <3>2, <3>5, <3>7 DEF Replaced
    <3>10. LinksTyped'
      BY <1>3, <2>6, <3>2 DEF LinksTyped
    <3>11. \A x \in Slots : ~Listed(s, x) => next'[x] = next[x]
      BY <1>8, <3>3
    <3> QED BY <2>7, <3>3, <3>8, <3>9, <3>10, <3>11
  <2>9. CASE i # 1
    <3>1. i \in 2 .. Len(s) /\ i - 1 \in 1 .. Len(s) /\ i - 1 # i
      BY <1>6, <2>9
    <3>2. PICK p : p = s[i - 1]
      OBVIOUS
    <3>3. p \in Slots /\ p # NoSlot /\ p # c /\ Listed(s, p)
      BY <1>6, <2>1, <2>2, <3>1, <3>2, NoneIsNoChannel DEF Listed
    <3>4. Previous(l, c) = p
      BY <1>5, <2>1, <2>9, <3>2, PreviousIsBefore
    <3>5. /\ head' = head
          /\ next' = [next EXCEPT ![p] = next[c], ![c] = NoSlot]
          /\ tail' = IF tail[l] = c THEN [tail EXCEPT ![l] = p] ELSE tail
          /\ popped' = popped
      BY <1>5, <1>8, <3>3, <3>4 DEF ListRemove
    <3>6. /\ next'[c] = NoSlot /\ next'[p] = next[c]
          /\ \A x \in Slots : x \notin {c, p} => next'[x] = next[x]
      BY <1>3, <3>3, <3>5
    <3>7. PICK t2 : t2 = IF tail[l] = c THEN p ELSE tail[l]
      OBVIOUS
    <3>8. Holds(s2, next', head[l], t2)
      BY <1>5, <2>1, <2>3, <3>1, <3>2, <3>6, <3>7, LaterLeaves
    <3>9. Replaced(l, head[l], head, head') /\ Replaced(l, t2, tail, tail')
      BY <1>3, <3>5, <3>7 DEF Replaced
    <3>10. LinksTyped'
      BY <1>3, <2>6, <3>3, <3>5 DEF LinksTyped
    <3>11. \A x \in Slots : ~Listed(s, x) => next'[x] = next[x]
      BY <1>8, <3>3, <3>6
    <3> QED BY <2>7, <3>6, <3>8, <3>9, <3>10, <3>11
  <2> QED BY <2>8, <2>9
<1> QED BY <1>7, <1>8
\* gem_pending_clear finds no link to clear on a slot that is on no list.
LEMMA ClearStep ==
    ASSUME Chained, NEW c \in Slots, SlotClear(c)
    PROVE  Chained' /\ Chains' = Chains /\ popped' = popped
<1>1. \A l \in Lists : ~Listed(Chains[l], c)
  BY DEF SlotClear, OnSomeList, Chains
<1>2. next[c] = NoSlot
  BY <1>1 DEF Chained, Represents
<1>3. /\ next' = next /\ head' = head /\ tail' = tail /\ popped' = popped
  BY <1>2 DEF SlotClear, Chained, LinksTyped
<1>4. Chains' = Chains
  BY <1>3 DEF Chains, Chain
<1>5. Represents(Chains, next, head, tail)'
  BY <1>3, <1>4 DEF Chained
<1>6. LinksTyped'
  BY <1>3 DEF Chained, LinksTyped
<1> QED BY <1>3, <1>4, <1>5, <1>6 DEF Chained

\* Empty lists are walked by the empty sequence.
LEMMA InitChained == LinksInit => Chained /\ Chains = [l \in Lists |-> <<>>]
<1> SUFFICES ASSUME LinksInit PROVE Chained /\ Chains = [l \in Lists |-> <<>>]
  OBVIOUS
<1>1. PICK f : f = [l \in Lists |-> <<>>]
  OBVIOUS
<1>2. f \in [Lists -> Seq(Slots)] /\ \A l \in Lists : f[l] = <<>>
  BY <1>1, EmptySeq
<1>3. \A c \in Slots : ~Listed(<<>>, c)
  BY DEF Listed
<1>4. Represents(f, next, head, tail)
  <2>1. \A l \in Lists : Holds(f[l], next, head[l], tail[l])
    BY <1>2 DEF LinksInit, Holds, Walk, NoRepeats
  <2>2. \A l \in Lists, c \in Slots : ~Listed(f[l], c)
    BY <1>2, <1>3
  <2>3. \A c \in Slots : next[c] = NoSlot
    BY DEF LinksInit
  <2> QED BY <1>2, <2>1, <2>2, <2>3 DEF Represents
<1>5. f = [l \in Lists |-> ChainFrom(head[l], next)]
  BY <1>4, ReadBack
<1>6. Chains = f
  BY <1>5 DEF Chains, Chain
<1>7. LinksTyped
  BY DEF LinksInit, LinksTyped
<1> QED BY <1>1, <1>4, <1>6, <1>7 DEF Chained

\* Every step of the links keeps the invariant and is a step of the
\* sequences, or none.
LEMMA StepImplements == Chained /\ [LinksNext]_linkVars => Chained' /\ [Sequences!Next]_<<Chains, popped>>
<1> SUFFICES ASSUME Chained, [LinksNext]_linkVars
             PROVE  Chained' /\ [Sequences!Next]_<<Chains, popped>>
  OBVIOUS
<1>1. \A l \in Lists : Chain(l) = Chains[l]
  BY DEF Chains
<1>2. ASSUME NEW l \in Lists, NEW c \in Slots, ListAppend(l, c)
      PROVE  Chained' /\ [Sequences!Next]_<<Chains, popped>>
  <2>1. Chained' /\ Chains' = [Chains EXCEPT ![l] = Append(@, c)]
    BY <1>2, AppendStep
  <2>2. popped' = popped /\ \A k \in Lists : ~Listed(Chains[k], c)
    BY <1>1, <1>2 DEF ListAppend, OnSomeList
  <2>3. Sequences!Add(l, c)
    BY <2>1, <2>2 DEF Sequences!Add, Sequences!Listed, Listed, Chains
  <2> QED BY <2>1, <2>3 DEF Sequences!Next
<1>3. ASSUME NEW l \in Lists, ListPop(l)
      PROVE  Chained' /\ [Sequences!Next]_<<Chains, popped>>
  <2>1. /\ Chained'
        /\ Chains[l] = <<>> => popped' = NoSlot /\ Chains' = Chains
        /\ Chains[l] # <<>> =>
              /\ popped' = Head(Chains[l])
              /\ Chains' = [Chains EXCEPT ![l] = Tail(@)]
    BY <1>3, PopStep
  <2>2. CASE Chains[l] = <<>>
    <3>1. Sequences!TakeNothing(l)
      BY <2>1, <2>2 DEF Sequences!TakeNothing, Chains
    <3> QED BY <2>1, <3>1 DEF Sequences!Next
  <2>3. CASE Chains[l] # <<>>
    <3>1. Sequences!Take(l)
      BY <2>1, <2>3 DEF Sequences!Take, Chains
    <3> QED BY <2>1, <3>1 DEF Sequences!Next
  <2> QED BY <2>2, <2>3
<1>4. ASSUME NEW l \in Lists, NEW c \in Slots, ListRemove(l, c)
      PROVE  Chained' /\ [Sequences!Next]_<<Chains, popped>>
  <2>1. Chained' /\ Chains' = [Chains EXCEPT ![l] = Without(@, c)]
    BY <1>4, RemoveStep
  <2>2. popped' = popped
    BY <1>4 DEF ListRemove
  <2>3. Sequences!Leave(l, c)
    BY <2>1, <2>2 DEF Sequences!Leave, Sequences!Without, Without, Chains
  <2> QED BY <2>1, <2>3 DEF Sequences!Next
<1>5. ASSUME NEW c \in Slots, SlotClear(c)
      PROVE  Chained' /\ [Sequences!Next]_<<Chains, popped>>
  BY <1>5, ClearStep
<1>6. CASE UNCHANGED linkVars
  <2>1. next' = next /\ head' = head /\ tail' = tail /\ popped' = popped
    BY <1>6 DEF linkVars
  <2>2. Chains' = Chains
    BY <2>1 DEF Chains, Chain
  <2>3. Chained'
    BY <2>1, <2>2 DEF Chained, LinksTyped
  <2> QED BY <2>1, <2>2, <2>3
<1> QED BY <1>2, <1>3, <1>4, <1>5, <1>6 DEF LinksNext

-----------------------------------------------------------------------------
(* The theorems *)

\* In every reachable state the links of gem_pending.c go along disjoint
\* sequences of different channels.
THEOREM LinksInvariance == LinksSpec => []Chained
<1>1. LinksInit => Chained
  BY InitChained
<1>2. Chained /\ [LinksNext]_linkVars => Chained'
  BY StepImplements
<1> QED BY <1>1, <1>2, PTL DEF LinksSpec

\* The chains never form a cycle or run together, each tail is the end of its
\* chain, and a slot on no list has no link left.
THEOREM LinksStaySound == LinksSpec => []WellLinked
<1>1. Chained => WellLinked
  <2> SUFFICES ASSUME Chained PROVE WellLinked
    OBVIOUS
  <2>1. \A l \in Lists : Chain(l) = Chains[l]
    BY DEF Chains
  <2>2. ASSUME NEW l \in Lists
        PROVE  /\ NoRepeats(Chain(l))
               /\ Chain(l) = <<>> => tail[l] = NoSlot
               /\ Chain(l) # <<>> =>
                     tail[l] = Chain(l)[Len(Chain(l))] /\ next[tail[l]] = NoSlot
    <3>1. Holds(Chain(l), next, head[l], tail[l])
      BY <2>1 DEF Chained, Represents
    <3> QED BY <3>1 DEF Holds, Walk
  <2>3. \A l, k \in Lists, c \in Slots :
           Listed(Chain(l), c) /\ Listed(Chain(k), c) => l = k
    BY <2>1 DEF Chained, Represents
  <2>4. \A c \in Slots : ~OnSomeList(c) => next[c] = NoSlot
    BY <2>1 DEF Chained, Represents, OnSomeList
  <2> QED BY <2>2, <2>3, <2>4 DEF WellLinked, Chained
<1> QED BY <1>1, LinksInvariance, PTL

\* gem_pending_list_append, _pop and _remove on the links are the additions
\* at the end, takings from the front and removals of the sequences.
THEOREM LinksImplementSequences == LinksSpec => ImplementsSequences
<1>1. LinksInit => Sequences!Init
  BY InitChained DEF Sequences!Init, LinksInit, Chains
<1>2. Chained /\ [LinksNext]_linkVars => [Sequences!Next]_<<[l \in Lists |-> Chain(l)], popped>>
  BY StepImplements DEF Chains
<1> QED BY <1>1, <1>2, LinksInvariance, PTL DEF LinksSpec, ImplementsSequences, Sequences!Spec
=============================================================================
