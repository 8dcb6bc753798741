---------------------------- MODULE GemEventProofs ----------------------------
(***************************************************************************)
(* The safety of the event manager, for any number of clients, any waits,  *)
(* any size of ring and any width of word.                                 *)
(*                                                                         *)
(* That the input state is the current client's is not inductive: a client *)
(* that detaches gives the state up only if its record is bound to its     *)
(* generation, and a call clears a record bound to another.  IInv says     *)
(* that whoever holds the input has such a record, that only such records  *)
(* hold waits, and that a timer still waited for has time left.            *)
(***************************************************************************)
EXTENDS GemEvent, SequenceTheorems, TLAPS

Word == 0 .. WordBase - 1
Slots == 0 .. KeyRoom - 1

PdRecord ==
    [gen : Nat, wait : Waits \cup {NoWait}, edged : BOOLEAN, batched : BOOLEAN,
     lo : Word, hi : Word, rang : BOOLEAN, ring : [Slots -> Keys \cup {Null}],
     front : Slots, rear : Slots, count : 0 .. KeyRoom]

MouseRecord ==
    [valid : BOOLEAN, owner : Channels \cup {Null}, gen : Nat, place : Int,
     button : {0, 1}, clicks : Nat, moves : 0 .. 2, oldButton : {0, 1},
     oldClicks : Nat]

BatchRecord ==
    [delay : 0 .. MaxDelay, owner : Channels \cup {Null}, gen : Nat,
     desired : {0, 1}, count : 0 .. MaxClicks]

EventState ==
    [pd : [Channels -> PdRecord], mouse : MouseRecord, batch : BatchRecord,
     done : BatchRecord, rate : DOMAIN Rates]

AnswerRecord == [what : SUBSET Flags, key : Keys \cup {Null}, clicks : Nat]

\* The types of all variables, in full.
Types ==
    /\ gen \in [Channels -> 0 .. MaxGeneration]
    /\ nextGen \in 1 .. MaxGeneration + 1
    /\ answer \in [Channels -> AnswerRecord]
    /\ due \in BOOLEAN
    /\ ev \in EventState

\* The keys lie between the front of the ring and its rear.
RingFits(p) == p.rear = (p.front + p.count) % KeyRoom

\* Whoever holds the input is attached with a record of its own, and the
\* clicks counted are its clicks.
InputFits(s) ==
    /\ s.mouse.valid =>
          /\ s.mouse.owner \in Channels
          /\ s.mouse.gen # 0
          /\ gen[s.mouse.owner] = s.mouse.gen
          /\ s.pd[s.mouse.owner].gen = s.mouse.gen
    /\ s.batch.delay > 0 =>
          /\ s.mouse.valid
          /\ s.batch.owner = s.mouse.owner /\ s.batch.gen = s.mouse.gen

\* A wait is held by the record of a client that is attached.
WaitsFit(s) ==
    \A c \in Channels : Parked(s, c) => gen[c] # 0 /\ s.pd[c].gen = gen[c]

\* Whoever waits has no answer yet.
WaitersUnanswered ==
    \A c \in Channels : Parked(ev, c) => answer[c] = NoAnswer

\* A timer that is still waited for has not come to its end.
TimersRun(s) ==
    \A c \in Channels :
        (Parked(s, c) /\ "TIMER" \in s.pd[c].wait.flags) =>
            ~s.pd[c].rang /\ (s.pd[c].lo # 0 \/ s.pd[c].hi # 0)

IInv ==
    /\ Types
    /\ \A c \in Channels : RingFits(ev.pd[c])
    /\ InputFits(ev)
    /\ WaitsFit(ev)
    /\ WaitersUnanswered
    /\ TimersRun(ev)
-----------------------------------------------------------------------------
(* Arithmetic *)

\* Division leaves a quotient and a residue.
LEMMA Division ==
    ASSUME NEW b \in Nat, b > 0, NEW m \in Int
    PROVE  /\ m % b \in 0 .. b - 1
           /\ m \div b \in Int
           /\ m = b * (m \div b) + (m % b)
           /\ m >= 0 => m \div b >= 0
OBVIOUS

\* A quotient and a residue determine each other.
LEMMA Residue ==
    ASSUME NEW b \in Nat, b > 0, NEW q \in Int, NEW r \in 0 .. b - 1
    PROVE  (b * q + r) % b = r
<1> DEFINE m == b * q + r
           d == m \div b
           e == m % b
<1>1. m \in Int /\ d \in Int /\ e \in 0 .. b - 1 /\ m = b * d + e
  BY Division
<1> HIDE DEF d, e
<1>2. b * (d - q) = r - e
  BY <1>1
<1>3. d - q = 0
  <2> DEFINE k == d - q
  <2>1. k \in Int /\ b * k = r - e /\ r - e < b /\ r - e > -b
    BY <1>1, <1>2
  <2> HIDE DEF k
  <2>2. k < 1
    <3>1. SUFFICES ASSUME k >= 1 PROVE FALSE
      BY <2>1
    <3>2. PICK n \in Nat : k = n + 1
      <4>1. k - 1 \in Nat /\ k = (k - 1) + 1
        BY <2>1, <3>1
      <4> QED BY <4>1
    <3>3. b * k = b * n + b /\ b * n >= 0 /\ b * n \in Int
      BY <3>2
    <3> QED BY <3>3, <2>1, <1>1
  <2>3. k > -1
    <3>1. SUFFICES ASSUME k <= -1 PROVE FALSE
      BY <2>1
    <3>2. PICK n \in Nat : k = -n - 1
      <4>1. -k - 1 \in Nat /\ k = -(-k - 1) - 1
        BY <2>1, <3>1
      <4> QED BY <4>1
    <3>3. b * k = -(b * n) - b /\ b * n >= 0 /\ b * n \in Int
      BY <3>2
    <3> QED BY <3>3, <2>1, <1>1
  <2> QED BY <2>1, <2>2, <2>3 DEF k
<1>4. d = q
  BY <1>1, <1>3
<1>5. e = r
  BY <1>1, <1>4
<1> QED BY <1>5 DEF e

\* What the code keeps of a delay fits into its two words.
LEMMA TwoWords ==
    ASSUME NEW ms \in Nat, ms < WordBase * WordBase
    PROVE  /\ ms % WordBase \in Word
           /\ ms \div WordBase \in Word
           /\ ms = (ms \div WordBase) * WordBase + (ms % WordBase)
<1> DEFINE q == ms \div WordBase
           r == ms % WordBase
<1>1. WordBase \in Nat /\ WordBase > 1
  BY EventAssumption
<1>2. q \in Nat /\ r \in 0 .. WordBase - 1 /\ ms = WordBase * q + r
  BY <1>1, Division
<1> HIDE DEF q, r
<1>3. q < WordBase
  <2>1. SUFFICES ASSUME q >= WordBase PROVE FALSE
    BY <1>1, <1>2
  <2>2. PICK d \in Nat : q = WordBase + d
    <3>1. q - WordBase \in Nat /\ q = WordBase + (q - WordBase)
      BY <1>1, <1>2, <2>1
    <3> QED BY <3>1
  <2>3. WordBase * q = WordBase * WordBase + WordBase * d /\ WordBase * d >= 0
    BY <2>2, <1>1
  <2>4. WordBase * WordBase \in Nat /\ WordBase * d \in Nat
    BY <1>1, <2>2
  <2> QED BY <2>3, <2>4, <1>2
<1>4. WordBase * q = q * WordBase
  BY <1>1, <1>2
<1> QED BY <1>1, <1>2, <1>3, <1>4 DEF Word, q, r

\* The next slot of the ring is the next one modulo its size.
LEMMA NextSlot ==
    ASSUME NEW f \in Slots
    PROVE  /\ (IF f + 1 = KeyRoom THEN 0 ELSE f + 1) = (f + 1) % KeyRoom
           /\ (f + 1) % KeyRoom \in Slots
BY EventAssumption DEF Slots

\* Adding to a residue is adding to the number.
LEMMA AddMod ==
    ASSUME NEW f \in Int, NEW n \in Int
    PROVE  /\ ((f % KeyRoom) + n) % KeyRoom = (f + n) % KeyRoom
           /\ f % KeyRoom \in Slots
<1> DEFINE q == f \div KeyRoom
           r == f % KeyRoom
           d == (r + n) \div KeyRoom
           e == (r + n) % KeyRoom
<1>1. KeyRoom \in Nat /\ KeyRoom > 0
  BY EventAssumption
<1>2. q \in Int /\ r \in 0 .. KeyRoom - 1 /\ f = KeyRoom * q + r
  BY <1>1, Division
<1>3. r + n \in Int
  BY <1>2
<1>4. d \in Int /\ e \in 0 .. KeyRoom - 1 /\ r + n = KeyRoom * d + e
  BY <1>1, <1>3, Division
<1> HIDE DEF q, r, d, e
<1>5. f + n = KeyRoom * (q + d) + e /\ q + d \in Int
  BY <1>1, <1>2, <1>4
<1>6. (f + n) % KeyRoom = e
  BY <1>1, <1>4, <1>5, Residue
<1> QED BY <1>1, <1>2, <1>6 DEF Slots, r, e
-----------------------------------------------------------------------------
(* What the operators do to the records *)

\* The wait of a record is of its type, also when there is none.
LEMMA WaitFields ==
    ASSUME NEW w \in Waits \cup {NoWait}
    PROVE  /\ w.flags \in SUBSET Flags
           /\ w.clicks \in Nat /\ w.timer \in Nat
           /\ w.timer < WordBase * WordBase
           /\ w = NoWait => w.flags = {}
<1>1. WordBase \in Nat /\ WordBase > 1
  BY EventAssumption
<1>2. CASE w = NoWait
  <2>1. 0 < WordBase * WordBase
    BY <1>1
  <2> QED BY <1>2, <2>1 DEF NoWait
<1>3. CASE w \in Waits
  <2>1. w \in WaitRecord /\ w.timer < WordBase * WordBase
    BY <1>3, EventAssumption
  <2>2. w # NoWait
    BY <2>1 DEF WaitRecord, NoWait, Opcodes
  <2> QED BY <2>1, <2>2 DEF WaitRecord
<1> QED BY <1>2, <1>3

\* Two records that differ only in what a transition changes.
SameCall(p, q) ==
    /\ q.gen = p.gen /\ q.wait = p.wait
    /\ q.lo = p.lo /\ q.hi = p.hi /\ q.rang = p.rang

SameKeys(p, q) ==
    q.ring = p.ring /\ q.front = p.front /\ q.rear = p.rear /\ q.count = p.count

SameMouse(m, n) ==
    n.valid = m.valid /\ n.owner = m.owner /\ n.gen = m.gen

\* The records of all channels after a step that feeds them: no wait ends and
\* no serial is unseen again.
SameCalls(s, t) ==
    \A c \in Channels :
        /\ SameCall(s.pd[c], t.pd[c])
        /\ s.pd[c].batched => t.pd[c].batched

\* A key that is stored goes behind the others.
LEMMA EnqueueFits ==
    ASSUME NEW p \in PdRecord, RingFits(p), NEW k \in Keys
    PROVE  /\ Enqueue(p, k) \in PdRecord
           /\ RingFits(Enqueue(p, k))
           /\ SameCall(p, Enqueue(p, k))
           /\ Enqueue(p, k).batched = p.batched
           /\ Enqueue(p, k).edged = p.edged
<1> DEFINE q == Enqueue(p, k)
<1>1. CASE p.count >= KeyRoom
  BY <1>1 DEF Enqueue, SameCall
<1>2. CASE ~(p.count >= KeyRoom)
  <2>1. p.rear \in Slots /\ p.front \in Slots /\ p.count \in 0 .. KeyRoom
    BY DEF PdRecord
  <2>2. KeyRoom \in Nat \ {0}
    BY EventAssumption
  <2>3. q = [p EXCEPT !.ring[p.rear] = k, !.rear = (p.rear + 1) % KeyRoom,
                      !.count = p.count + 1]
    BY <1>2, <2>1, NextSlot DEF Enqueue, PdRecord
  <2>4. q \in PdRecord
    <3>1. p.count + 1 \in 0 .. KeyRoom
      BY <1>2, <2>1, <2>2
    <3>2. [p.ring EXCEPT ![p.rear] = k] \in [Slots -> Keys \cup {Null}]
      BY DEF PdRecord
    <3>3. (p.rear + 1) % KeyRoom \in Slots
      BY <2>1, NextSlot
    <3> QED BY <2>3, <3>1, <3>2, <3>3 DEF PdRecord
  <2>5. RingFits(q)
    <3>1. p.front + p.count \in Int /\ (p.front + p.count) + 1 = p.front + (p.count + 1)
      BY <2>1, <2>2 DEF Slots
    <3>2. (((p.front + p.count) % KeyRoom) + 1) % KeyRoom = (p.front + (p.count + 1)) % KeyRoom
      BY <3>1, AddMod
    <3>3. q.rear = (p.rear + 1) % KeyRoom /\ q.front = p.front /\ q.count = p.count + 1
      BY <2>3 DEF PdRecord
    <3> QED BY <3>2, <3>3 DEF RingFits
  <2> QED BY <2>3, <2>4, <2>5 DEF SameCall, PdRecord
<1> QED BY <1>1, <1>2

\* A key is taken from the front.
LEMMA DequeueFits ==
    ASSUME NEW p \in PdRecord, RingFits(p), p.count > 0
    PROVE  /\ Dequeue(p) \in PdRecord
           /\ RingFits(Dequeue(p))
           /\ Dequeue(p).gen = p.gen
<1> DEFINE q == Dequeue(p)
<1>1. p.rear \in Slots /\ p.front \in Slots /\ p.count \in 0 .. KeyRoom
  BY DEF PdRecord
<1>2. KeyRoom \in Nat \ {0}
  BY EventAssumption
<1>3. q = [p EXCEPT !.ring[p.front] = Null, !.front = (p.front + 1) % KeyRoom,
                    !.count = p.count - 1]
  BY <1>1, NextSlot DEF Dequeue, PdRecord
<1>4. q \in PdRecord
  <2>1. p.count - 1 \in 0 .. KeyRoom
    BY <1>1, <1>2
  <2>2. [p.ring EXCEPT ![p.front] = Null] \in [Slots -> Keys \cup {Null}]
    BY DEF PdRecord
  <2>3. (p.front + 1) % KeyRoom \in Slots
    BY <1>1, NextSlot
  <2> QED BY <1>3, <2>1, <2>2, <2>3 DEF PdRecord
<1>5. RingFits(q)
  <2>1. p.front + 1 \in Int /\ (p.front + 1) + (p.count - 1) = p.front + p.count
        /\ p.count - 1 \in Int
    BY <1>1, <1>2 DEF Slots
  <2>2. (((p.front + 1) % KeyRoom) + (p.count - 1)) % KeyRoom = (p.front + p.count) % KeyRoom
    BY <2>1, AddMod
  <2>3. q.rear = p.rear /\ q.front = (p.front + 1) % KeyRoom /\ q.count = p.count - 1
    BY <1>3 DEF PdRecord
  <2> QED BY <2>2, <2>3 DEF RingFits
<1>6. q.gen = p.gen
  BY <1>3 DEF PdRecord
<1> QED BY <1>4, <1>5, <1>6

\* A free record is in order.
LEMMA FreeFits ==
    /\ FreePd \in PdRecord
    /\ RingFits(FreePd)
    /\ \A g \in Nat : /\ [FreePd EXCEPT !.gen = g] \in PdRecord
                      /\ RingFits([FreePd EXCEPT !.gen = g])
<1>1. KeyRoom \in Nat \ {0} /\ WordBase \in Nat \ {0, 1}
  BY EventAssumption
<1>2. [i \in 0 .. KeyRoom - 1 |-> Null] \in [Slots -> Keys \cup {Null}]
  BY DEF Slots
<1>3. (0 + 0) % KeyRoom = 0
  BY <1>1
<1>4. 0 \in Slots /\ 0 \in Word /\ 0 \in 0 .. KeyRoom
  BY <1>1 DEF Slots, Word
<1>5. FreePd \in PdRecord
  BY <1>2, <1>4 DEF FreePd, PdRecord
<1> QED BY <1>3, <1>5 DEF FreePd, RingFits, PdRecord

\* The end of a batch changes what was reported of the button, never whose
\* the input is, and every parked wait sees it.
LEMMA FinishFits ==
    ASSUME NEW s \in EventState
    PROVE  /\ FinishBatch(s) \in EventState
           /\ SameMouse(s.mouse, FinishBatch(s).mouse)
           /\ FinishBatch(s).mouse.button = s.mouse.button
           /\ FinishBatch(s).batch.delay = 0
           /\ FinishBatch(s).rate = s.rate
           /\ SameCalls(s, FinishBatch(s))
           /\ \A c \in Channels : SameKeys(s.pd[c], FinishBatch(s).pd[c])
           /\ s.batch.delay > 0 =>
                 /\ FinishBatch(s).done = [s.batch EXCEPT !.delay = 0]
                 /\ \A c \in Channels : Parked(s, c) => FinishBatch(s).pd[c].batched
<1> DEFINE t == FinishBatch(s)
<1>1. CASE s.batch.delay = 0
  BY <1>1 DEF FinishBatch, SameMouse, SameCalls, SameCall, SameKeys
<1>2. CASE s.batch.delay # 0
  <2>1. PICK seen : seen = [c \in Channels |-> [s.pd[c] EXCEPT !.batched = @ \/ Parked(s, c)]]
    OBVIOUS
  <2>2. PICK m : m = IF s.batch.desired # s.mouse.button
                     THEN [s.mouse EXCEPT !.oldButton = s.batch.desired,
                                          !.oldClicks = s.batch.count,
                                          !.moves = 2, !.clicks = 1]
                     ELSE [s.mouse EXCEPT !.clicks = s.batch.count]
    OBVIOUS
  <2>3. t = [s EXCEPT !.pd = seen, !.batch = NoBatch,
                      !.done = [s.batch EXCEPT !.delay = 0], !.mouse = m]
    BY <1>2, <2>1, <2>2 DEF FinishBatch, EventState
  <2>4. s.batch \in BatchRecord /\ s.mouse \in MouseRecord /\ s.pd \in [Channels -> PdRecord]
    BY DEF EventState
  <2>5. m \in MouseRecord /\ SameMouse(s.mouse, m) /\ m.button = s.mouse.button
    <3>1. s.batch.desired \in {0, 1} /\ s.batch.count \in Nat
      BY <2>4, EventAssumption DEF BatchRecord
    <3>2. CASE s.batch.desired # s.mouse.button
      <4>1. m = [s.mouse EXCEPT !.oldButton = s.batch.desired, !.oldClicks = s.batch.count,
                                !.moves = 2, !.clicks = 1]
        BY <2>2, <3>2
      <4>2. 2 \in 0 .. 2 /\ 1 \in Nat
        OBVIOUS
      <4> QED BY <2>4, <3>1, <4>1, <4>2 DEF MouseRecord, SameMouse
    <3>3. CASE s.batch.desired = s.mouse.button
      BY <2>2, <2>4, <3>1, <3>3 DEF MouseRecord, SameMouse
    <3> QED BY <3>2, <3>3
  <2>6. seen \in [Channels -> PdRecord]
    <3>1. ASSUME NEW c \in Channels
          PROVE  [s.pd[c] EXCEPT !.batched = @ \/ Parked(s, c)] \in PdRecord
      <4>1. s.pd[c] \in PdRecord
        BY <2>4
      <4>2. Parked(s, c) \in BOOLEAN
        BY DEF Parked
      <4> QED BY <4>1, <4>2 DEF PdRecord
    <3> QED BY <3>1, <2>1
  <2>7. NoBatch \in BatchRecord /\ [s.batch EXCEPT !.delay = 0] \in BatchRecord
    BY <2>4, EventAssumption DEF BatchRecord, NoBatch
  <2>8. t \in EventState
    BY <2>3, <2>5, <2>6, <2>7 DEF EventState
  <2>9. t.batch = NoBatch /\ t.pd = seen /\ t.mouse = m /\ t.rate = s.rate
        /\ t.done = [s.batch EXCEPT !.delay = 0]
    BY <2>3 DEF EventState
  <2>10. ASSUME NEW c \in Channels
         PROVE  /\ SameCall(s.pd[c], seen[c]) /\ SameKeys(s.pd[c], seen[c])
                /\ s.pd[c].batched => seen[c].batched
                /\ Parked(s, c) => seen[c].batched
    BY <2>1, <2>4 DEF PdRecord, SameCall, SameKeys
  <2>11. NoBatch.delay = 0
    BY DEF NoBatch
  <2> QED BY <2>5, <2>8, <2>9, <2>10, <2>11 DEF SameCalls
<1> QED BY <1>1, <1>2
\* The two words of a timer count down like a number.
LEMMA CountDownExact ==
    ASSUME NEW p \in PdRecord, p.lo # 0 \/ p.hi # 0
    PROVE  /\ CountDown(p, TickMs) \in PdRecord
           /\ SameKeys(p, CountDown(p, TickMs))
           /\ CountDown(p, TickMs).gen = p.gen
           /\ CountDown(p, TickMs).wait = p.wait
           /\ CountDown(p, TickMs).batched = p.batched
           /\ CountDown(p, TickMs).edged = p.edged
           /\ \/ /\ TimeLeft(p) <= TickMs
                 /\ CountDown(p, TickMs).rang
                 /\ CountDown(p, TickMs).lo = 0 /\ CountDown(p, TickMs).hi = 0
              \/ /\ TimeLeft(CountDown(p, TickMs)) = TimeLeft(p) - TickMs
                 /\ CountDown(p, TickMs).rang = p.rang
                 /\ CountDown(p, TickMs).lo # 0 \/ CountDown(p, TickMs).hi # 0
<1> DEFINE q == CountDown(p, TickMs)
<1>1. WordBase \in Nat /\ WordBase > 1 /\ TickMs \in 1 .. WordBase - 1
  BY EventAssumption
<1>2. p.lo \in 0 .. WordBase - 1 /\ p.hi \in 0 .. WordBase - 1
  BY DEF PdRecord, Word
<1>3. CASE p.hi = 0 /\ p.lo <= TickMs
  <2>1. q = [p EXCEPT !.lo = 0, !.hi = 0, !.rang = TRUE]
    BY <1>3 DEF CountDown
  <2>2. TimeLeft(p) <= TickMs
    BY <1>1, <1>2, <1>3 DEF TimeLeft
  <2>3. 0 \in Word
    BY <1>1 DEF Word
  <2> QED BY <2>1, <2>2, <2>3 DEF PdRecord, SameKeys
<1>4. CASE ~(p.hi = 0 /\ p.lo <= TickMs)
  <2> DEFINE l == IF p.lo < TickMs THEN p.lo - TickMs + WordBase ELSE p.lo - TickMs
             h == IF p.lo < TickMs THEN p.hi - 1 ELSE p.hi
  <2>1. (p.lo - TickMs) % WordBase = l
    BY <1>1, <1>2
  <2>2. q = [p EXCEPT !.lo = l, !.hi = h]
    BY <1>4, <2>1 DEF CountDown, PdRecord
  <2>3. l \in 0 .. WordBase - 1 /\ h \in 0 .. WordBase - 1 /\ (l # 0 \/ h # 0)
    BY <1>1, <1>2, <1>4
  <2>4. h * WordBase + l = p.hi * WordBase + p.lo - TickMs
    <3>1. CASE p.lo < TickMs
      <4>1. (p.hi - 1) * WordBase = p.hi * WordBase - WordBase /\ p.hi * WordBase \in Int
        BY <1>1, <1>2
      <4> QED BY <3>1, <4>1, <1>1, <1>2
    <3>2. CASE ~(p.lo < TickMs)
      <4>1. p.hi * WordBase \in Int
        BY <1>1, <1>2
      <4> QED BY <3>2, <4>1, <1>1, <1>2
    <3> QED BY <3>1, <3>2
  <2> HIDE DEF l, h
  <2>5. q.lo = l /\ q.hi = h /\ q \in PdRecord
    BY <2>2, <2>3 DEF PdRecord, Word
  <2>6. TimeLeft(q) = TimeLeft(p) - TickMs
    <3>1. h * WordBase \in Int /\ p.hi * WordBase \in Int
      BY <1>1, <1>2, <2>3
    <3> QED BY <2>4, <2>5, <3>1, <1>1, <1>2, <2>3 DEF TimeLeft
  <2>7. SameKeys(p, q) /\ q.gen = p.gen /\ q.wait = p.wait /\ q.batched = p.batched
        /\ q.rang = p.rang /\ q.edged = p.edged
    BY <2>2 DEF PdRecord, SameKeys
  <2> QED BY <2>3, <2>5, <2>6, <2>7
<1> QED BY <1>3, <1>4

\* The time left is over when both words are zero, and only then.
LEMMA NoTimeLeft ==
    ASSUME NEW p \in PdRecord
    PROVE  TimeLeft(p) \in Nat /\ (TimeLeft(p) = 0 <=> p.lo = 0 /\ p.hi = 0)
<1>1. WordBase \in Nat /\ WordBase > 1
  BY EventAssumption
<1>2. p.lo \in Nat /\ p.hi \in Nat
  BY <1>1 DEF PdRecord, Word
<1>3. CASE p.hi = 0
  BY <1>1, <1>2, <1>3 DEF TimeLeft
<1>4. CASE p.hi # 0
  <2>1. PICK n \in Nat : p.hi = n + 1
    <3>1. p.hi - 1 \in Nat /\ p.hi = (p.hi - 1) + 1
      BY <1>2, <1>4
    <3> QED BY <3>1
  <2>2. p.hi * WordBase = n * WordBase + WordBase /\ n * WordBase \in Nat
    BY <1>1, <2>1
  <2> QED BY <2>2, <1>1, <1>2, <1>4 DEF TimeLeft
<1> QED BY <1>3, <1>4

\* What a tick does to the timer of a record.
Ticked(p, q) ==
    IF "TIMER" \in p.wait.flags /\ ~p.rang
    THEN \/ /\ TimeLeft(p) <= TickMs /\ q.rang /\ q.lo = 0 /\ q.hi = 0
         \/ /\ TimeLeft(q) = TimeLeft(p) - TickMs /\ ~q.rang
            /\ q.lo # 0 \/ q.hi # 0
    ELSE q.lo = p.lo /\ q.hi = p.hi /\ q.rang = p.rang

\* A batch that ends is published as the last, and every parked wait sees it.
BatchEnds(s, t) ==
    (s.batch.delay > 0 /\ t.batch.delay = 0) =>
        /\ t.done = [s.batch EXCEPT !.delay = 0]
        /\ \A c \in Channels : Parked(s, c) => t.pd[c].batched

\* A tick counts the timers down and ends a batch that is due.
LEMMA TickFits ==
    ASSUME NEW s \in EventState, TimersRun(s)
    PROVE  /\ Tick(s, TickMs) \in EventState
           /\ SameMouse(s.mouse, Tick(s, TickMs).mouse)
           /\ Tick(s, TickMs).mouse.button = s.mouse.button
           /\ Tick(s, TickMs).rate = s.rate
           /\ Tick(s, TickMs).batch.owner = s.batch.owner \/ Tick(s, TickMs).batch.delay = 0
           /\ Tick(s, TickMs).batch.gen = s.batch.gen \/ Tick(s, TickMs).batch.delay = 0
           /\ Tick(s, TickMs).batch.delay > 0 =>
                 /\ s.batch.delay > 0
                 /\ Tick(s, TickMs).batch = [s.batch EXCEPT !.delay = s.batch.delay - TickMs]
           /\ BatchEnds(s, Tick(s, TickMs))
           /\ \A c \in Channels :
                 /\ Tick(s, TickMs).pd[c].gen = s.pd[c].gen
                 /\ Tick(s, TickMs).pd[c].wait = s.pd[c].wait
                 /\ SameKeys(s.pd[c], Tick(s, TickMs).pd[c])
                 /\ s.pd[c].batched => Tick(s, TickMs).pd[c].batched
                 /\ Parked(s, c) => Ticked(s.pd[c], Tick(s, TickMs).pd[c])
<1> DEFINE u == Tick(s, TickMs)
           running(p) == "TIMER" \in p.wait.flags /\ ~p.rang
<1>1. PICK t : t = IF s.batch.delay <= TickMs THEN FinishBatch(s)
                   ELSE [s EXCEPT !.batch.delay = @ - TickMs]
  OBVIOUS
<1>2. u = [t EXCEPT !.pd = [c \in Channels |-> IF running(t.pd[c])
                                               THEN CountDown(t.pd[c], TickMs) ELSE t.pd[c]]]
  BY <1>1 DEF Tick
<1>3. /\ t \in EventState /\ SameMouse(s.mouse, t.mouse) /\ t.mouse.button = s.mouse.button
      /\ t.rate = s.rate
      /\ t.batch.owner = s.batch.owner \/ t.batch.delay = 0
      /\ t.batch.gen = s.batch.gen \/ t.batch.delay = 0
      /\ t.batch.delay > 0 =>
            s.batch.delay > 0 /\ t.batch = [s.batch EXCEPT !.delay = s.batch.delay - TickMs]
      /\ BatchEnds(s, t) /\ SameCalls(s, t)
      /\ \A c \in Channels : SameKeys(s.pd[c], t.pd[c])
  <2>1. TickMs \in Nat /\ TickMs > 0 /\ MaxDelay \in Nat
    BY EventAssumption
  <2>2. s.batch.delay \in 0 .. MaxDelay
    BY DEF EventState, BatchRecord
  <2>3. CASE s.batch.delay <= TickMs
    <3>1. t = FinishBatch(s)
      BY <1>1, <2>3
    <3> QED BY <3>1, FinishFits DEF BatchEnds
  <2>4. CASE ~(s.batch.delay <= TickMs)
    <3>1. t = [s EXCEPT !.batch.delay = @ - TickMs]
      BY <1>1, <2>4
    <3>2. s.batch.delay - TickMs \in 0 .. MaxDelay /\ s.batch.delay - TickMs > 0
      BY <2>1, <2>2, <2>4
    <3>3. t.batch = [s.batch EXCEPT !.delay = @ - TickMs] /\ t.pd = s.pd
          /\ t.mouse = s.mouse /\ t.done = s.done /\ t.rate = s.rate
      BY <3>1 DEF EventState
    <3>4. t.batch \in BatchRecord /\ t.batch.delay = s.batch.delay - TickMs
          /\ t.batch.owner = s.batch.owner /\ t.batch.gen = s.batch.gen
      BY <3>2, <3>3 DEF EventState, BatchRecord
    <3>5. t \in EventState
      BY <3>1, <3>4 DEF EventState
    <3> QED BY <3>2, <3>3, <3>4, <3>5, <2>1, <2>2
            DEF SameMouse, SameCalls, SameCall, SameKeys, BatchEnds
  <2> QED BY <2>3, <2>4
<1>4. ASSUME NEW c \in Channels
      PROVE  LET p == s.pd[c]
                 q == IF running(t.pd[c]) THEN CountDown(t.pd[c], TickMs) ELSE t.pd[c]
             IN  /\ q \in PdRecord /\ q.gen = p.gen /\ q.wait = p.wait /\ SameKeys(p, q)
                 /\ q.batched = t.pd[c].batched
                 /\ Parked(s, c) => Ticked(p, q)
  <2>1. s.pd[c] \in PdRecord /\ t.pd[c] \in PdRecord
    BY <1>3 DEF EventState
  <2>2. SameCall(s.pd[c], t.pd[c]) /\ SameKeys(s.pd[c], t.pd[c])
    BY <1>3 DEF SameCalls
  <2>3. CASE ~running(t.pd[c])
    BY <2>1, <2>2, <2>3 DEF Ticked, SameCall, SameKeys
  <2>4. CASE running(t.pd[c])
    <3>1. Parked(s, c) /\ "TIMER" \in s.pd[c].wait.flags /\ ~s.pd[c].rang
      BY <2>1, <2>2, <2>4, WaitFields DEF Parked, SameCall, PdRecord
    <3>2. t.pd[c].lo # 0 \/ t.pd[c].hi # 0
      BY <3>1, <2>2 DEF TimersRun, SameCall
    <3>3. TimeLeft(t.pd[c]) = TimeLeft(s.pd[c])
      BY <2>2 DEF SameCall, TimeLeft
    <3> QED BY <2>1, <2>2, <2>4, <3>1, <3>2, <3>3, CountDownExact DEF Ticked, SameCall, SameKeys
  <2> QED BY <2>3, <2>4
<1>5. u \in EventState /\ u.mouse = t.mouse /\ u.batch = t.batch /\ u.done = t.done
      /\ u.rate = t.rate
  <2>1. t \in EventState
    BY <1>3
  <2>2. [c \in Channels |-> IF running(t.pd[c]) THEN CountDown(t.pd[c], TickMs) ELSE t.pd[c]]
           \in [Channels -> PdRecord]
    BY <1>4
  <2> QED BY <1>2, <2>1, <2>2 DEF EventState
<1>6. \A c \in Channels : u.pd[c] = IF running(t.pd[c])
                                    THEN CountDown(t.pd[c], TickMs) ELSE t.pd[c]
  BY <1>2, <1>3 DEF EventState
<1>7. BatchEnds(s, u)
  BY <1>3, <1>4, <1>5, <1>6 DEF BatchEnds
<1>8. ASSUME NEW c \in Channels
      PROVE  s.pd[c].batched => u.pd[c].batched
  BY <1>3, <1>4, <1>6 DEF SameCalls
<1> QED BY <1>3, <1>4, <1>5, <1>6, <1>7, <1>8
-----------------------------------------------------------------------------
(* Samples *)

\* A new transition is seen by the parked waits and by nothing else.
LEMMA EdgeFits ==
    ASSUME NEW s \in EventState
    PROVE  \E seen \in [Channels -> PdRecord] :
              /\ Edge(s) = [s EXCEPT !.pd = seen]
              /\ \A c \in Channels : /\ SameCall(s.pd[c], seen[c]) /\ SameKeys(s.pd[c], seen[c])
                                     /\ seen[c].batched = s.pd[c].batched
<1>1. PICK seen : seen = [c \in Channels |-> [s.pd[c] EXCEPT !.edged = @ \/ Parked(s, c)]]
  OBVIOUS
<1>2. Edge(s) = [s EXCEPT !.pd = seen]
  BY <1>1 DEF Edge
<1>3. ASSUME NEW c \in Channels
      PROVE  /\ seen[c] \in PdRecord
             /\ SameCall(s.pd[c], seen[c]) /\ SameKeys(s.pd[c], seen[c])
             /\ seen[c].batched = s.pd[c].batched
  <2>1. s.pd[c] \in PdRecord /\ Parked(s, c) \in BOOLEAN
    BY DEF EventState, Parked
  <2>2. seen[c] = [s.pd[c] EXCEPT !.edged = @ \/ Parked(s, c)]
    BY <1>1
  <2> QED BY <2>1, <2>2 DEF PdRecord, SameCall, SameKeys
<1>4. seen \in [Channels -> PdRecord]
  BY <1>1, <1>3
<1> QED BY <1>2, <1>3, <1>4

\* What a transition may be: it leaves the waits alone, and a batch it leaves
\* or begins is one of the client that has the input already.
LEMMA TransitionFits ==
    ASSUME NEW s \in EventState, InputFits(s), NEW c \in Channels, gen[c] \in Nat,
           s.pd[c].gen = gen[c], NEW x \in Samples
    PROVE  /\ Transition(s, c, x) \in EventState
           /\ SameMouse(s.mouse, Transition(s, c, x).mouse)
           /\ Transition(s, c, x).rate = s.rate
           /\ Transition(s, c, x).done = s.done
           /\ SameCalls(s, Transition(s, c, x))
           /\ \A d \in Channels : SameKeys(s.pd[d], Transition(s, c, x).pd[d])
           /\ Transition(s, c, x).batch.delay > 0 =>
                 Transition(s, c, x).batch.owner = c /\ Transition(s, c, x).batch.gen = gen[c]
           /\ OwnsInput(s, c) /\ s.batch.delay > 0 => Transition(s, c, x).batch.delay > 0
<1> DEFINE t == Transition(s, c, x)
<1>1. PICK seen \in [Channels -> PdRecord] :
         /\ Edge(s) = [s EXCEPT !.pd = seen]
         /\ \A d \in Channels : /\ SameCall(s.pd[d], seen[d]) /\ SameKeys(s.pd[d], seen[d])
                                /\ seen[d].batched = s.pd[d].batched
  BY EdgeFits
<1>2. s.batch \in BatchRecord /\ s.mouse \in MouseRecord /\ s.rate \in DOMAIN Rates
  BY DEF EventState
<1>3. x.button \in {0, 1}
  BY EventAssumption DEF Samples
<1>4. MaxDelay \in Nat /\ MaxDelay > 0 /\ TickMs \in Nat /\ TickMs > 0
      /\ MaxClicks \in Nat \ {0} /\ Rates[s.rate] \in 1 .. MaxDelay
  BY <1>2, EventAssumption
<1> DEFINE Plain(b, m) == [s EXCEPT !.pd = seen, !.batch = b, !.mouse = m]
<1>5. ASSUME NEW b \in BatchRecord, NEW m \in MouseRecord, t = Plain(b, m),
             SameMouse(s.mouse, m),
             b.delay > 0 => b.owner = c /\ b.gen = gen[c],
             OwnsInput(s, c) /\ s.batch.delay > 0 => b.delay > 0
      PROVE  /\ t \in EventState
             /\ SameMouse(s.mouse, t.mouse)
             /\ t.rate = s.rate /\ t.done = s.done
             /\ SameCalls(s, t)
             /\ \A d \in Channels : SameKeys(s.pd[d], t.pd[d])
             /\ t.batch.delay > 0 => t.batch.owner = c /\ t.batch.gen = gen[c]
             /\ OwnsInput(s, c) /\ s.batch.delay > 0 => t.batch.delay > 0
  <2>1. t \in EventState
    BY <1>5, <1>1 DEF EventState
  <2>2. t.pd = seen /\ t.batch = b /\ t.mouse = m /\ t.rate = s.rate /\ t.done = s.done
    BY <1>5 DEF EventState
  <2> QED BY <2>1, <2>2, <1>1, <1>5 DEF SameCalls
<1>6. CASE ~OwnsInput(s, c)
  <2>1. t = [Edge(s) EXCEPT !.batch = NoBatch, !.mouse.moves = 0]
    BY <1>6 DEF Transition
  <2>2. t = Plain(NoBatch, [s.mouse EXCEPT !.moves = 0])
    BY <2>1, <1>1 DEF EventState
  <2>3. NoBatch \in BatchRecord /\ NoBatch.delay = 0
    BY <1>4 DEF NoBatch, BatchRecord
  <2>4. [s.mouse EXCEPT !.moves = 0] \in MouseRecord
        /\ SameMouse(s.mouse, [s.mouse EXCEPT !.moves = 0])
    BY <1>2 DEF MouseRecord, SameMouse
  <2> HIDE DEF Plain
  <2> QED BY <1>5, <1>6, <2>2, <2>3, <2>4
<1>7. CASE OwnsInput(s, c)
  <2> DEFINE changed == s.mouse.valid /\ x.button # s.mouse.button
  <2>1. s.batch.delay > 0 => s.batch.owner = c /\ s.batch.gen = gen[c]
    BY <1>7 DEF InputFits, OwnsInput
  <2>2. s.batch.delay \in Nat /\ s.batch.count \in Nat
    BY <1>2, <1>4 DEF BatchRecord
  <2>3. CASE ~changed
    <3>1. t = s
      BY <1>7, <2>3 DEF Transition
    <3> QED BY <3>1, <2>1 DEF SameMouse, SameCalls, SameCall, SameKeys
  <2>4. CASE changed /\ s.batch.delay > 0
    <3>1. PICK b : b = IF x.button = s.batch.desired THEN CountClick(s.batch) ELSE s.batch
      OBVIOUS
    <3>2. t = [Edge(s) EXCEPT !.batch = b]
      BY <1>7, <2>4, <3>1 DEF Transition
    <3>3. t = Plain(b, s.mouse)
      BY <3>2, <1>1 DEF EventState
    <3>4. b \in BatchRecord /\ b.owner = s.batch.owner /\ b.gen = s.batch.gen /\ b.delay > 0
      <4>1. CASE x.button # s.batch.desired
        BY <4>1, <3>1, <2>4, <1>2
      <4>2. CASE x.button = s.batch.desired
        <5> DEFINE n == Least2(s.batch.count + 1, MaxClicks)
                   d == Least2(s.batch.delay + 3 * TickMs, MaxDelay)
        <5>1. n \in 0 .. MaxClicks /\ d \in 1 .. MaxDelay
          BY <1>4, <2>2 DEF Least2
        <5>2. b = [s.batch EXCEPT !.count = n, !.delay = d]
          BY <4>2, <3>1 DEF CountClick
        <5> HIDE DEF n, d
        <5>3. d \in 0 .. MaxDelay /\ d > 0
          BY <5>1, <1>4
        <5> QED BY <5>1, <5>2, <5>3, <1>2 DEF BatchRecord
      <4> QED BY <4>1, <4>2
    <3> HIDE DEF Plain
    <3> QED BY <1>2, <1>5, <2>1, <2>4, <3>3, <3>4 DEF SameMouse
  <2>5. CASE changed /\ ~(s.batch.delay > 0) /\ x.button # 0 /\ WantsClicks(s, c)
    <3> DEFINE b == [delay |-> Rates[s.rate], owner |-> c, gen |-> s.pd[c].gen,
                     desired |-> x.button, count |-> 1]
    <3>1. t = [Edge(s) EXCEPT !.batch = b]
      BY <1>7, <2>5 DEF Transition
    <3>2. t = Plain(b, s.mouse)
      BY <3>1, <1>1 DEF EventState
    <3>3. b \in BatchRecord /\ b.owner = c /\ b.gen = gen[c]
      <4>1. Rates[s.rate] \in 0 .. MaxDelay /\ 1 \in 0 .. MaxClicks
        BY <1>4
      <4> QED BY <4>1, <1>3 DEF BatchRecord
    <3> HIDE DEF Plain, b
    <3> QED BY <1>2, <1>5, <2>5, <3>2, <3>3 DEF SameMouse
  <2>6. CASE changed /\ ~(s.batch.delay > 0) /\ ~(x.button # 0 /\ WantsClicks(s, c))
    <3> DEFINE m == Publish(s.mouse)
    <3>1. t = [Edge(s) EXCEPT !.mouse = Publish(@)]
      BY <1>7, <2>6 DEF Transition
    <3>2. t = Plain(s.batch, m)
      BY <3>1, <1>1 DEF EventState
    <3>3. m \in MouseRecord /\ SameMouse(s.mouse, m)
      <4>1. Least2(s.mouse.moves + 1, 2) \in 0 .. 2 /\ 1 \in Nat
        BY <1>2 DEF Least2, MouseRecord
      <4> QED BY <4>1, <1>2 DEF Publish, MouseRecord, SameMouse
    <3> HIDE DEF Plain, m
    <3> QED BY <1>2, <1>5, <2>6, <3>2, <3>3
  <2> QED BY <2>3, <2>4, <2>5, <2>6
<1> QED BY <1>6, <1>7
\* A batch that ends for a client that had the input and keeps it is published
\* as the last, and the wait of that client sees it.
OwnBatchEnds(s, t) ==
    \A c \in Channels :
        (s.batch.delay > 0 /\ t.batch.delay = 0 /\ OwnsInput(s, c) /\ OwnsInput(t, c)) =>
            /\ t.done = [s.batch EXCEPT !.delay = 0]
            /\ Parked(s, c) => t.pd[c].batched

\* One channel at most got one new key, or there was no room for it.
Keyed(p, q) == SameKeys(p, q) \/ \E k \in Keys : SameKeys(Enqueue(p, k), q)

\* A sample becomes the input state of the client it is for, and of nobody
\* else; it may end a batch and store a key.
LEMMA InputKeeps ==
    ASSUME NEW s \in EventState, InputFits(s), NEW c \in Channels, gen[c] \in Nat, gen[c] # 0,
           \A d \in Channels : RingFits(s.pd[d]), NEW x \in Samples
    PROVE  /\ Input(s, c, x) \in EventState
           /\ InputFits(Input(s, c, x))
           /\ Input(s, c, x).rate = s.rate
           /\ OwnBatchEnds(s, Input(s, c, x))
           /\ s.batch.delay = 0 => Input(s, c, x).done = s.done
           /\ SameCalls(s, Input(s, c, x))
           /\ \A d \in Channels : /\ Keyed(s.pd[d], Input(s, c, x).pd[d])
                                  /\ RingFits(Input(s, c, x).pd[d])
<1>1. CASE s.pd[c].gen # gen[c]
  <2>1. Input(s, c, x) = s
    BY <1>1 DEF Input
  <2> QED BY <2>1 DEF OwnBatchEnds, SameCalls, SameCall, Keyed, SameKeys
<1>2. CASE s.pd[c].gen = gen[c]
  <2>1. PICK t : t = IF s.mouse.valid /\ MovedAway(s.mouse.place, x.place)
                     THEN FinishBatch(s) ELSE s
    OBVIOUS
  <2>2. PICK u : u = Transition(t, c, x)
    OBVIOUS
  <2>3. PICK v : v = [u EXCEPT !.mouse = [@ EXCEPT !.valid = TRUE, !.owner = c, !.gen = gen[c],
                                                   !.place = x.place, !.button = x.button]]
    OBVIOUS
  <2>4. PICK r : r = IF x.key = Null THEN v ELSE [v EXCEPT !.pd[c] = Enqueue(@, x.key)]
    OBVIOUS
  <2>5. Input(s, c, x) = r
    BY <1>2, <2>1, <2>2, <2>3, <2>4 DEF Input
  <2>6. /\ t \in EventState /\ SameMouse(s.mouse, t.mouse) /\ t.rate = s.rate
        /\ SameCalls(s, t)
        /\ \A d \in Channels : SameKeys(s.pd[d], t.pd[d])
        /\ t.batch = s.batch \/ t.batch.delay = 0
        /\ BatchEnds(s, t)
        /\ s.batch.delay = 0 => t.done = s.done
    <3>1. CASE s.mouse.valid /\ MovedAway(s.mouse.place, x.place)
      <4>1. t = FinishBatch(s)
        BY <2>1, <3>1
      <4>2. s.batch.delay = 0 => FinishBatch(s) = s
        BY DEF FinishBatch
      <4> QED BY <4>1, <4>2, FinishFits DEF BatchEnds
    <3>2. CASE ~(s.mouse.valid /\ MovedAway(s.mouse.place, x.place))
      <4>1. t = s
        BY <2>1, <3>2
      <4>2. s.batch.delay \in Int
        BY EventAssumption DEF EventState, BatchRecord
      <4> QED BY <4>1, <4>2 DEF SameMouse, SameCalls, SameCall, SameKeys, BatchEnds
    <3> QED BY <3>1, <3>2
  <2>7. InputFits(t)
    <3>1. t.batch.delay > 0 => t.batch = s.batch
      BY <2>6
    <3>2. \A d \in Channels : t.pd[d].gen = s.pd[d].gen
      BY <2>6 DEF SameCalls, SameCall
    <3> QED BY <2>6, <3>1, <3>2 DEF InputFits, SameMouse
  <2>8. t.pd[c].gen = gen[c]
    BY <1>2, <2>6 DEF SameCalls, SameCall
  <2>9. /\ u \in EventState /\ SameMouse(t.mouse, u.mouse) /\ u.rate = t.rate
        /\ u.done = t.done /\ SameCalls(t, u)
        /\ \A d \in Channels : SameKeys(t.pd[d], u.pd[d])
        /\ u.batch.delay > 0 => u.batch.owner = c /\ u.batch.gen = gen[c]
        /\ OwnsInput(t, c) /\ t.batch.delay > 0 => u.batch.delay > 0
    BY <2>2, <2>6, <2>7, <2>8, TransitionFits
  <2>10. /\ v \in EventState /\ v.pd = u.pd /\ v.batch = u.batch /\ v.done = u.done
         /\ v.rate = u.rate
         /\ v.mouse.valid /\ v.mouse.owner = c /\ v.mouse.gen = gen[c]
    <3>1. x.button \in {0, 1} /\ x.place \in Int
      BY EventAssumption DEF Samples
    <3>2. u.mouse \in MouseRecord
      BY <2>9 DEF EventState
    <3>3. PICK m : m = [u.mouse EXCEPT !.valid = TRUE, !.owner = c, !.gen = gen[c],
                                       !.place = x.place, !.button = x.button]
      OBVIOUS
    <3>4. m \in MouseRecord /\ m.valid /\ m.owner = c /\ m.gen = gen[c]
      BY <3>1, <3>2, <3>3 DEF MouseRecord
    <3>5. v = [u EXCEPT !.mouse = m]
      BY <2>3, <2>9, <3>3 DEF EventState
    <3> QED BY <2>9, <3>4, <3>5 DEF EventState
  <2>11. \A d \in Channels : SameKeys(s.pd[d], v.pd[d]) /\ RingFits(v.pd[d])
    <3>1. TAKE d \in Channels
    <3>2. SameKeys(s.pd[d], t.pd[d]) /\ SameKeys(t.pd[d], u.pd[d]) /\ v.pd[d] = u.pd[d]
      BY <2>6, <2>9, <2>10
    <3>3. SameKeys(s.pd[d], v.pd[d])
      BY <3>2 DEF SameKeys
    <3>4. RingFits(s.pd[d])
      OBVIOUS
    <3> QED BY <3>3, <3>4 DEF SameKeys, RingFits
  <2>12. /\ r \in EventState /\ r.mouse = v.mouse /\ r.batch = v.batch /\ r.done = v.done
         /\ r.rate = v.rate
         /\ SameCalls(v, r)
         /\ \A d \in Channels : Keyed(s.pd[d], r.pd[d]) /\ RingFits(r.pd[d])
    <3>1. CASE x.key = Null
      <4>1. r = v
        BY <2>4, <3>1
      <4> QED BY <2>10, <2>11, <4>1 DEF SameCalls, SameCall, Keyed
    <3>2. CASE x.key # Null
      <4>1. x.key \in Keys /\ v.pd[c] \in PdRecord /\ RingFits(v.pd[c])
        BY <2>10, <2>11, <3>2 DEF Samples, EventState
      <4>2. r = [v EXCEPT !.pd[c] = Enqueue(v.pd[c], x.key)]
        BY <2>4, <3>2
      <4>3. PICK p : p = Enqueue(v.pd[c], x.key)
        OBVIOUS
      <4>4. /\ p \in PdRecord /\ RingFits(p) /\ SameCall(v.pd[c], p)
            /\ p.batched = v.pd[c].batched
        BY <4>1, <4>3, EnqueueFits
      <4>5. r = [v EXCEPT !.pd = [v.pd EXCEPT ![c] = p]]
        BY <2>10, <4>2, <4>3 DEF EventState
      <4>6. /\ r \in EventState /\ r.mouse = v.mouse /\ r.batch = v.batch /\ r.done = v.done
            /\ r.rate = v.rate /\ r.pd = [v.pd EXCEPT ![c] = p]
        BY <2>10, <4>4, <4>5 DEF EventState
      <4>7. \A d \in Channels : r.pd[d] = IF d = c THEN p ELSE v.pd[d]
        BY <2>10, <4>6 DEF EventState
      <4>8. SameKeys(Enqueue(s.pd[c], x.key), p)
        <5>1. SameKeys(s.pd[c], v.pd[c]) /\ s.pd[c] \in PdRecord
          BY <2>11 DEF EventState
        <5> QED BY <4>1, <4>3, <5>1 DEF SameKeys, Enqueue, PdRecord
      <4>9. \A d \in Channels : Keyed(s.pd[d], r.pd[d])
        BY <2>11, <4>1, <4>7, <4>8 DEF Keyed
      <4>10. SameCalls(v, r)
        BY <4>4, <4>7 DEF SameCalls, SameCall
      <4> QED BY <2>11, <4>4, <4>6, <4>7, <4>9, <4>10
    <3> QED BY <3>1, <3>2
  <2>13. SameCalls(s, r)
    <3>1. SameCalls(s, v)
      <4>1. ASSUME NEW d \in Channels
            PROVE  /\ SameCall(s.pd[d], v.pd[d])
                   /\ s.pd[d].batched => v.pd[d].batched
        <5>1. SameCall(s.pd[d], t.pd[d]) /\ SameCall(t.pd[d], u.pd[d]) /\ v.pd[d] = u.pd[d]
          BY <2>6, <2>9, <2>10 DEF SameCalls
        <5>2. SameCall(s.pd[d], v.pd[d])
          BY <5>1 DEF SameCall
        <5> QED BY <5>1, <5>2, <2>6, <2>9 DEF SameCalls
      <4> QED BY <4>1 DEF SameCalls
    <3> QED BY <3>1, <2>12 DEF SameCalls, SameCall
  <2>14. r.pd[c].gen = gen[c]
    BY <1>2, <2>13 DEF SameCalls, SameCall
  <2>15. InputFits(r)
    <3>1. r.mouse.valid /\ r.mouse.owner = c /\ r.mouse.gen = gen[c]
      BY <2>10, <2>12
    <3>2. r.batch.delay > 0 => r.batch.owner = c /\ r.batch.gen = gen[c]
      BY <2>9, <2>10, <2>12
    <3> QED BY <2>14, <3>1, <3>2 DEF InputFits
  <2>16. OwnBatchEnds(s, r)
    <3>1. SUFFICES ASSUME NEW d \in Channels, s.batch.delay > 0, r.batch.delay = 0,
                          OwnsInput(s, d), OwnsInput(r, d)
                   PROVE  /\ r.done = [s.batch EXCEPT !.delay = 0]
                          /\ Parked(s, d) => r.pd[d].batched
      BY DEF OwnBatchEnds
    <3>2. d = c
      BY <3>1, <2>10, <2>12 DEF OwnsInput
    <3>3. OwnsInput(t, c)
      BY <3>1, <3>2, <2>6 DEF OwnsInput, SameMouse, SameCalls, SameCall
    <3>4. t.batch.delay = 0
      <4>1. t.batch.delay \in Nat
        BY <2>6, EventAssumption DEF EventState, BatchRecord
      <4>2. ~(u.batch.delay > 0)
        BY <3>1, <2>10, <2>12
      <4> QED BY <4>1, <4>2, <3>3, <2>9
    <3>5. t.done = [s.batch EXCEPT !.delay = 0] /\ (Parked(s, c) => t.pd[c].batched)
      BY <3>1, <3>4, <2>6 DEF BatchEnds
    <3>6. t.pd[c].batched => r.pd[c].batched
      BY <2>9, <2>10, <2>12 DEF SameCalls
    <3> QED BY <3>2, <3>5, <3>6, <2>9, <2>10, <2>12
  <2> QED BY <2>5, <2>6, <2>9, <2>10, <2>12, <2>13, <2>15, <2>16
<1> QED BY <1>1, <1>2
-----------------------------------------------------------------------------
(* The end of a wait *)

\* A button wait reports at most one number of clicks.
LEMMA ClicksFit ==
    ASSUME NEW s \in EventState, NEW c \in Channels, NEW quick \in BOOLEAN
    PROVE  \/ ButtonClicks(s, c, quick) = {}
           \/ \E n \in Nat : ButtonClicks(s, c, quick) = {n}
<1>1. s.pd[c].wait.clicks \in Nat
  BY WaitFields DEF EventState, PdRecord
<1>2. s.mouse.clicks \in Nat /\ s.mouse.oldClicks \in Nat /\ s.done.count \in Nat
  BY EventAssumption DEF EventState, MouseRecord, BatchRecord
<1>3. \A a, b \in Nat : Least2(a, b) \in Nat
  BY DEF Least2
<1>4. Least2(s.done.count, s.pd[c].wait.clicks) \in Nat
      /\ Least2(s.mouse.clicks, s.pd[c].wait.clicks) \in Nat
  BY <1>1, <1>2, <1>3
<1>5. CASE quick
  BY <1>2, <1>5 DEF ButtonClicks
<1>6. CASE ~quick
  <2>1. CASE s.pd[c].wait.clicks > 1
    BY <1>4, <1>6, <2>1 DEF ButtonClicks
  <2>2. CASE ~(s.pd[c].wait.clicks > 1)
    BY <1>4, <1>6, <2>2 DEF ButtonClicks
  <2> QED BY <2>1, <2>2
<1> QED BY <1>5, <1>6

\* What is met is among what is waited for; each part for its own reason.
LEMMA MaskFits ==
    ASSUME NEW s \in EventState, NEW c \in Channels, NEW message \in BOOLEAN,
           NEW quick \in BOOLEAN
    PROVE  LET what == ReadyMask(s, c, message, quick)
           IN  /\ what \in SUBSET Flags /\ what \in SUBSET s.pd[c].wait.flags
               /\ "KEYBD" \in what => s.pd[c].count > 0
               /\ "TIMER" \in what <=>
                     /\ "TIMER" \in s.pd[c].wait.flags
                     /\ s.pd[c].rang \/ (s.pd[c].lo = 0 /\ s.pd[c].hi = 0)
               /\ "BUTTON" \in what <=>
                     /\ "BUTTON" \in s.pd[c].wait.flags
                     /\ OwnsInput(s, c) /\ ButtonClicks(s, c, quick) # {}
<1>1. s.pd[c].wait.flags \in SUBSET Flags
  BY WaitFields DEF EventState, PdRecord
<1> QED BY <1>1 DEF ReadyMask

\* The answer names what was met.
LEMMA ResultFits ==
    ASSUME NEW s \in EventState, NEW c \in Channels, NEW message \in BOOLEAN,
           NEW quick \in BOOLEAN, ReadyMask(s, c, message, quick) # {}
    PROVE  LET what == ReadyMask(s, c, message, quick)
           IN  /\ Result(s, c, what, quick) \in AnswerRecord
               /\ Result(s, c, what, quick).what = what
               /\ Result(s, c, what, quick) # NoAnswer
<1> DEFINE what == ReadyMask(s, c, message, quick)
           key == IF "KEYBD" \in what THEN s.pd[c].ring[s.pd[c].front] ELSE Null
           clicks == IF "BUTTON" \notin what THEN 0
                     ELSE IF quick /\ s.pd[c].wait.op = "BUTTON" THEN 1
                     ELSE CHOOSE n \in ButtonClicks(s, c, quick) : TRUE
<1>1. what \in SUBSET Flags
  BY MaskFits
<1>2. key \in Keys \cup {Null}
  BY DEF EventState, PdRecord
<1>3. clicks \in Nat
  <2>1. CASE "BUTTON" \in what
    <3>1. ButtonClicks(s, c, quick) # {}
      BY <2>1, MaskFits
    <3>2. PICK n \in Nat : ButtonClicks(s, c, quick) = {n}
      BY <3>1, ClicksFit
    <3>3. (CHOOSE k \in ButtonClicks(s, c, quick) : TRUE) = n
      BY <3>2
    <3> QED BY <3>3
  <2>2. CASE "BUTTON" \notin what
    BY <2>2
  <2> QED BY <2>1, <2>2
<1>4. Result(s, c, what, quick) = [what |-> what, key |-> key, clicks |-> clicks]
  BY DEF Result
<1> HIDE DEF what, key, clicks
<1>5. what # {}
  BY DEF what
<1>6. Result(s, c, what, quick) \in AnswerRecord /\ Result(s, c, what, quick).what = what
      /\ Result(s, c, what, quick) # NoAnswer
  BY <1>1, <1>2, <1>3, <1>4, <1>5 DEF AnswerRecord, NoAnswer
<1> QED BY <1>6 DEF what

\* A record whose wait is over.
Ended(p, what) ==
    [(IF "KEYBD" \in what THEN Dequeue(p) ELSE p) EXCEPT
        !.wait = NoWait, !.edged = FALSE, !.batched = FALSE, !.rang = FALSE,
        !.lo = 0, !.hi = 0]

\* The keys of a record whose wait is over.
LEMMA EndedFits ==
    ASSUME NEW p \in PdRecord, RingFits(p), NEW what \in SUBSET Flags,
           "KEYBD" \in what => p.count > 0
    PROVE  /\ Ended(p, what) \in PdRecord
           /\ RingFits(Ended(p, what))
           /\ Ended(p, what).gen = p.gen
           /\ Ended(p, what).wait = NoWait
           /\ SameKeys(IF "KEYBD" \in what THEN Dequeue(p) ELSE p, Ended(p, what))
<1>1. PICK q : q = IF "KEYBD" \in what THEN Dequeue(p) ELSE p
  OBVIOUS
<1>2. q \in PdRecord /\ RingFits(q) /\ q.gen = p.gen
  BY <1>1, DequeueFits
<1>3. Ended(p, what) = [q EXCEPT !.wait = NoWait, !.edged = FALSE, !.batched = FALSE,
                                 !.rang = FALSE, !.lo = 0, !.hi = 0]
  BY <1>1 DEF Ended
<1>4. 0 \in Word
  BY EventAssumption DEF Word
<1> QED BY <1>1, <1>2, <1>3, <1>4 DEF PdRecord, RingFits, SameKeys

\* EndWait as the change of one record and of the pending transition.
LEMMA EndWaitIs ==
    ASSUME NEW s \in EventState, NEW c \in Channels, NEW what
    PROVE  \E n \in {0, s.mouse.moves} :
              EndWait(s, c, what) = [s EXCEPT !.pd = [@ EXCEPT ![c] = Ended(s.pd[c], what)],
                                              !.mouse = [@ EXCEPT !.moves = n]]
BY DEF EndWait, Ended, EventState
-----------------------------------------------------------------------------
(* A poll *)

\* What a poll finds met of the wait of a channel.
Met(s, c, messages) ==
    IF Parked(s, c) THEN ReadyMask(s, c, c \in messages, FALSE) ELSE {}

\* A wait that is met has its reason, and one that is not has none.
LEMMA MetFits ==
    ASSUME NEW s \in EventState, NEW c \in Channels, NEW messages, Parked(s, c)
    PROVE  LET what == Met(s, c, messages)
           IN  /\ what \in SUBSET Flags
               /\ "KEYBD" \in what => s.pd[c].count > 0
               /\ "TIMER" \in what <=>
                     /\ "TIMER" \in s.pd[c].wait.flags
                     /\ s.pd[c].rang \/ (s.pd[c].lo = 0 /\ s.pd[c].hi = 0)
               /\ "BUTTON" \in what <=>
                     /\ "BUTTON" \in s.pd[c].wait.flags
                     /\ OwnsInput(s, c) /\ ButtonClicks(s, c, FALSE) # {}
               /\ what # {} => /\ Result(s, c, what, FALSE) \in AnswerRecord
                               /\ Result(s, c, what, FALSE).what = what
                               /\ Result(s, c, what, FALSE) # NoAnswer
<1>1. PICK message \in BOOLEAN : Met(s, c, messages) = ReadyMask(s, c, message, FALSE)
  <2>1. (c \in messages) \in BOOLEAN
    OBVIOUS
  <2> QED BY <2>1 DEF Met
<1>2. FALSE \in BOOLEAN
  OBVIOUS
<1>3. LET what == ReadyMask(s, c, message, FALSE)
      IN  /\ what \in SUBSET Flags
          /\ "KEYBD" \in what => s.pd[c].count > 0
          /\ "TIMER" \in what <=>
                /\ "TIMER" \in s.pd[c].wait.flags
                /\ s.pd[c].rang \/ (s.pd[c].lo = 0 /\ s.pd[c].hi = 0)
          /\ "BUTTON" \in what <=>
                /\ "BUTTON" \in s.pd[c].wait.flags
                /\ OwnsInput(s, c) /\ ButtonClicks(s, c, FALSE) # {}
  BY <1>2, MaskFits
<1>4. LET what == ReadyMask(s, c, message, FALSE)
      IN  what # {} => /\ Result(s, c, what, FALSE) \in AnswerRecord
                       /\ Result(s, c, what, FALSE).what = what
                       /\ Result(s, c, what, FALSE) # NoAnswer
  BY <1>2, ResultFits
<1> QED BY <1>1, <1>3, <1>4

\* Serving ends the waits that are met and leaves the others as they are.
LEMMA ServeIs ==
    ASSUME NEW s \in EventState, answer \in [Channels -> AnswerRecord],
           \A c \in Channels : RingFits(s.pd[c]),
           NEW messages \in SUBSET Channels, Serve(s, messages)
    PROVE  /\ ev' \in EventState
           /\ SameMouse(s.mouse, ev'.mouse)
           /\ ev'.batch = s.batch /\ ev'.done = s.done /\ ev'.rate = s.rate
           /\ answer' \in [Channels -> AnswerRecord]
           /\ \A c \in Channels :
                 /\ RingFits(ev'.pd[c])
                 /\ IF Met(s, c, messages) = {}
                    THEN ev'.pd[c] = s.pd[c] /\ answer'[c] = answer[c]
                    ELSE /\ ev'.pd[c] = Ended(s.pd[c], Met(s, c, messages))
                         /\ answer'[c] = Result(s, c, Met(s, c, messages), FALSE)
<1>1. PICK what : what = [c \in Channels |-> Met(s, c, messages)]
  OBVIOUS
<1>2. PICK met : met = {c \in Channels : what[c] # {}}
  OBVIOUS
<1>3. PICK pd : pd = [c \in Channels |-> IF c \in met THEN EndWait(s, c, what[c]).pd[c] ELSE s.pd[c]]
  OBVIOUS
<1>4. PICK moves : moves = IF \E c \in met : OwnsInput(s, c) THEN 0 ELSE s.mouse.moves
  OBVIOUS
<1>5. ev' = [s EXCEPT !.pd = pd, !.mouse = [s.mouse EXCEPT !.moves = moves]]
  BY <1>1, <1>2, <1>3, <1>4 DEF Serve, Met, EventState
<1>6. answer' = [c \in Channels |-> IF c \in met THEN Result(s, c, what[c], FALSE) ELSE answer[c]]
  BY <1>1, <1>2 DEF Serve, Met
<1>7. [s.mouse EXCEPT !.moves = moves] \in MouseRecord
      /\ SameMouse(s.mouse, [s.mouse EXCEPT !.moves = moves])
  <2>1. s.mouse \in MouseRecord /\ moves \in 0 .. 2
    BY <1>4 DEF EventState, MouseRecord
  <2> QED BY <2>1 DEF MouseRecord, SameMouse
<1>8. ASSUME NEW c \in Channels, c \in met
      PROVE  /\ pd[c] = Ended(s.pd[c], what[c])
             /\ pd[c] \in PdRecord /\ RingFits(pd[c])
             /\ Result(s, c, what[c], FALSE) \in AnswerRecord
  <2>1. s.pd \in [Channels -> PdRecord]
    BY DEF EventState
  <2>2. pd[c] = Ended(s.pd[c], what[c])
    <3>1. PICK n \in {0, s.mouse.moves} :
             EndWait(s, c, what[c]) = [s EXCEPT !.pd = [@ EXCEPT ![c] = Ended(s.pd[c], what[c])],
                                                !.mouse = [@ EXCEPT !.moves = n]]
      BY EndWaitIs
    <3>2. EndWait(s, c, what[c]).pd = [s.pd EXCEPT ![c] = Ended(s.pd[c], what[c])]
      BY <3>1 DEF EventState
    <3> QED BY <1>3, <1>8, <2>1, <3>2
  <2>3. what[c] = ReadyMask(s, c, c \in messages, FALSE) /\ what[c] # {}
    BY <1>1, <1>2, <1>8 DEF Met
  <2>4. (c \in messages) \in BOOLEAN /\ FALSE \in BOOLEAN
    OBVIOUS
  <2>5. what[c] \in SUBSET Flags /\ ("KEYBD" \in what[c] => s.pd[c].count > 0)
    BY <2>3, <2>4, MaskFits
  <2>6. Result(s, c, what[c], FALSE) \in AnswerRecord
    BY <2>3, <2>4, ResultFits
  <2>7. Ended(s.pd[c], what[c]) \in PdRecord /\ RingFits(Ended(s.pd[c], what[c]))
    BY <2>1, <2>5, EndedFits
  <2> QED BY <2>2, <2>6, <2>7
<1>9. ASSUME NEW c \in Channels, c \notin met
      PROVE  pd[c] = s.pd[c] /\ pd[c] \in PdRecord
  BY <1>3, <1>9 DEF EventState
<1>10. pd \in [Channels -> PdRecord]
  BY <1>3, <1>8, <1>9
<1>11. ev' \in EventState /\ ev'.pd = pd /\ ev'.mouse = [s.mouse EXCEPT !.moves = moves]
       /\ ev'.batch = s.batch /\ ev'.done = s.done /\ ev'.rate = s.rate
  BY <1>5, <1>7, <1>10 DEF EventState
<1>12. answer' \in [Channels -> AnswerRecord]
  BY <1>6, <1>8
<1>13. ASSUME NEW c \in Channels
       PROVE  /\ RingFits(ev'.pd[c])
              /\ IF Met(s, c, messages) = {}
                 THEN ev'.pd[c] = s.pd[c] /\ answer'[c] = answer[c]
                 ELSE /\ ev'.pd[c] = Ended(s.pd[c], Met(s, c, messages))
                      /\ answer'[c] = Result(s, c, Met(s, c, messages), FALSE)
  <2>1. what[c] = Met(s, c, messages) /\ (c \in met <=> what[c] # {})
    BY <1>1, <1>2
  <2>2. CASE c \in met
    BY <2>1, <2>2, <1>6, <1>8, <1>11
  <2>3. CASE c \notin met
    BY <2>1, <2>3, <1>6, <1>9, <1>11
  <2> QED BY <2>2, <2>3
<1> QED BY <1>7, <1>11, <1>12, <1>13

\* What a poll may make of the event state before it serves the waits.
Fed(s, ms) ==
    /\ s \in EventState
    /\ InputFits(s)
    /\ OwnBatchEnds(ev, s)
    /\ \A c \in Channels :
          /\ RingFits(s.pd[c])
          /\ Keyed(ev.pd[c], s.pd[c])
          /\ s.pd[c].gen = ev.pd[c].gen /\ s.pd[c].wait = ev.pd[c].wait
          /\ Parked(ev, c) =>
                IF ms = 0 THEN SameCall(ev.pd[c], s.pd[c])
                ELSE Ticked(ev.pd[c], s.pd[c])

\* A poll ticks, is fed a sample or not, and serves.
LEMMA PollFeeds ==
    ASSUME IInv, NEW ms \in {0, TickMs}, Poll(ms)
    PROVE  \E s \in EventState, messages \in SUBSET Channels :
              Fed(s, ms) /\ Serve(s, messages)
<1> USE DEF IInv, Types
<1>1. TickMs \in Nat /\ TickMs > 0
  BY EventAssumption
<1>2. PICK t : t = IF ms > 0 THEN Tick(ev, ms) ELSE ev
  OBVIOUS
<1>3. PICK messages \in SUBSET Channels :
         \/ Serve(t, messages)
         \/ \E c \in {d \in Channels : gen[d] # 0}, x \in Samples :
               Serve(Input(t, c, x), messages)
  BY <1>2 DEF Poll
<1>4. /\ Fed(t, ms)
      /\ BatchEnds(ev, t)
      /\ SameMouse(ev.mouse, t.mouse)
      /\ \A c \in Channels : ev.pd[c].batched => t.pd[c].batched
      /\ t.batch.delay > 0 => ev.batch.delay > 0
      /\ t.batch.delay > 0 => t.batch.owner = ev.batch.owner /\ t.batch.gen = ev.batch.gen
  <2>1. CASE ms = 0
    <3>1. t = ev
      BY <1>2, <2>1
    <3>2. BatchEnds(ev, ev)
      <4>1. ev.batch.delay \in Int
        BY EventAssumption DEF EventState, BatchRecord
      <4> QED BY <4>1 DEF BatchEnds
    <3> QED BY <3>1, <3>2, <2>1
            DEF Fed, OwnBatchEnds, BatchEnds, SameMouse, SameCall, SameKeys, Keyed
  <2>2. CASE ms = TickMs
    <3>1. t = Tick(ev, TickMs)
      BY <1>1, <1>2, <2>2
    <3>2. /\ t \in EventState /\ SameMouse(ev.mouse, t.mouse)
          /\ t.batch.delay > 0 => t.batch.owner = ev.batch.owner /\ t.batch.gen = ev.batch.gen
          /\ t.batch.delay > 0 => ev.batch.delay > 0
          /\ BatchEnds(ev, t)
      <4>1. t.batch.delay = 0 => ~(t.batch.delay > 0)
        OBVIOUS
      <4> QED BY <3>1, <4>1, TickFits
    <3>3. \A c \in Channels :
             /\ t.pd[c].gen = ev.pd[c].gen /\ t.pd[c].wait = ev.pd[c].wait
             /\ SameKeys(ev.pd[c], t.pd[c])
             /\ ev.pd[c].batched => t.pd[c].batched
             /\ Parked(ev, c) => Ticked(ev.pd[c], t.pd[c])
      BY <3>1, TickFits
    <3>4. InputFits(t)
      BY <3>2, <3>3 DEF InputFits, SameMouse
    <3>5. \A c \in Channels : RingFits(t.pd[c])
      BY <3>3 DEF RingFits, SameKeys
    <3>6. OwnBatchEnds(ev, t)
      BY <3>2 DEF BatchEnds, OwnBatchEnds
    <3>7. ms # 0
      BY <1>1, <2>2
    <3> QED BY <3>2, <3>3, <3>4, <3>5, <3>6, <3>7 DEF Fed, Keyed
  <2> QED BY <2>1, <2>2
<1>5. CASE Serve(t, messages)
  BY <1>4, <1>5 DEF Fed
<1>6. CASE \E c \in {d \in Channels : gen[d] # 0}, x \in Samples : Serve(Input(t, c, x), messages)
  <2>1. PICK c \in Channels, x \in Samples : gen[c] # 0 /\ Serve(Input(t, c, x), messages)
    BY <1>6
  <2>2. PICK s : s = Input(t, c, x)
    OBVIOUS
  <2>3. gen[c] \in Nat
    BY EventAssumption
  <2>4. t \in EventState /\ InputFits(t) /\ \A d \in Channels : RingFits(t.pd[d])
    BY <1>4 DEF Fed
  <2>5. /\ s \in EventState /\ InputFits(s)
        /\ OwnBatchEnds(t, s)
        /\ t.batch.delay = 0 => s.done = t.done
        /\ SameCalls(t, s)
        /\ \A d \in Channels : Keyed(t.pd[d], s.pd[d]) /\ RingFits(s.pd[d])
    BY <2>1, <2>2, <2>3, <2>4, InputKeeps
  <2>6. ASSUME NEW d \in Channels
        PROVE  /\ Keyed(ev.pd[d], s.pd[d])
               /\ s.pd[d].gen = ev.pd[d].gen /\ s.pd[d].wait = ev.pd[d].wait
               /\ Parked(ev, d) => IF ms = 0 THEN SameCall(ev.pd[d], s.pd[d])
                                   ELSE Ticked(ev.pd[d], s.pd[d])
    <3>1. SameCall(t.pd[d], s.pd[d])
      BY <2>5 DEF SameCalls
    <3>2. SameKeys(ev.pd[d], t.pd[d])
      <4>1. CASE ms = 0
        BY <4>1, <1>2 DEF SameKeys
      <4>2. CASE ms = TickMs
        BY <4>2, <1>1, <1>2, TickFits
      <4> QED BY <4>1, <4>2
    <3>3. Keyed(ev.pd[d], s.pd[d])
      <4>1. ev.pd[d] \in PdRecord /\ t.pd[d] \in PdRecord
        BY <2>4 DEF EventState
      <4>2. ASSUME NEW k \in Keys, SameKeys(Enqueue(t.pd[d], k), s.pd[d])
            PROVE  SameKeys(Enqueue(ev.pd[d], k), s.pd[d])
        BY <3>2, <4>1, <4>2 DEF SameKeys, Enqueue, PdRecord
      <4>3. SameKeys(t.pd[d], s.pd[d]) => SameKeys(ev.pd[d], s.pd[d])
        BY <3>2 DEF SameKeys
      <4> QED BY <2>5, <4>2, <4>3 DEF Keyed
    <3>4. Parked(ev, d) => IF ms = 0 THEN SameCall(ev.pd[d], t.pd[d])
                           ELSE Ticked(ev.pd[d], t.pd[d])
      BY <1>4 DEF Fed
    <3>5. t.pd[d].gen = ev.pd[d].gen /\ t.pd[d].wait = ev.pd[d].wait
      BY <1>4 DEF Fed
    <3>6. Ticked(ev.pd[d], t.pd[d]) => Ticked(ev.pd[d], s.pd[d])
      BY <3>1 DEF SameCall, Ticked, TimeLeft
    <3>7. SameCall(ev.pd[d], t.pd[d]) => SameCall(ev.pd[d], s.pd[d])
      BY <3>1 DEF SameCall
    <3> QED BY <3>1, <3>3, <3>4, <3>5, <3>6, <3>7 DEF SameCall
  <2>7. OwnBatchEnds(ev, s)
    <3>1. SUFFICES ASSUME NEW d \in Channels, ev.batch.delay > 0, s.batch.delay = 0,
                          OwnsInput(ev, d), OwnsInput(s, d)
                   PROVE  /\ s.done = [ev.batch EXCEPT !.delay = 0]
                          /\ Parked(ev, d) => s.pd[d].batched
      BY DEF OwnBatchEnds
    <3>2. Parked(ev, d) => Parked(t, d)
      BY <1>4 DEF Fed, Parked
    <3>3. t.pd[d].batched => s.pd[d].batched
      BY <2>5 DEF SameCalls
    <3>4. CASE t.batch.delay = 0
      <4>1. t.done = [ev.batch EXCEPT !.delay = 0] /\ (Parked(ev, d) => t.pd[d].batched)
        BY <3>1, <3>4, <1>4 DEF BatchEnds
      <4> QED BY <3>3, <3>4, <4>1, <2>5
    <3>5. CASE t.batch.delay # 0
      <4>1. t.batch.delay > 0
        BY <2>4, <3>5, EventAssumption DEF EventState, BatchRecord
      <4>2. OwnsInput(t, d)
        BY <3>1, <1>4 DEF OwnsInput, SameMouse, Fed
      <4>3. s.done = [t.batch EXCEPT !.delay = 0] /\ (Parked(t, d) => s.pd[d].batched)
        BY <2>5, <3>1, <4>1, <4>2 DEF OwnBatchEnds
      <4>4. [t.batch EXCEPT !.delay = 0] = [ev.batch EXCEPT !.delay = 0]
        <5>1. CASE ms = 0
          BY <5>1, <1>2
        <5>2. CASE ms = TickMs
          <6>1. t.batch = [ev.batch EXCEPT !.delay = ev.batch.delay - TickMs]
            BY <1>1, <1>2, <4>1, <5>2, TickFits
          <6> QED BY <6>1 DEF EventState, BatchRecord
        <5> QED BY <5>1, <5>2
      <4> QED BY <3>2, <4>3, <4>4
    <3> QED BY <3>4, <3>5
  <2>8. Fed(s, ms)
    BY <2>5, <2>6, <2>7 DEF Fed
  <2> QED BY <2>1, <2>2, <2>5, <2>8
<1> QED BY <1>3, <1>5, <1>6
-----------------------------------------------------------------------------
(* The invariant *)

\* A call changes the record of its own channel, which is bound to its client.
LEMMA RecordKeeps ==
    ASSUME IInv, NEW c \in Channels, gen[c] # 0,
           NEW p \in PdRecord, RingFits(p), p.gen = gen[c],
           "TIMER" \in p.wait.flags => ~p.rang /\ (p.lo # 0 \/ p.hi # 0),
           NEW m \in MouseRecord, SameMouse(ev.mouse, m), NEW r \in DOMAIN Rates,
           ev' = [ev EXCEPT !.pd = [@ EXCEPT ![c] = p], !.mouse = m, !.rate = r],
           answer' \in [Channels -> AnswerRecord],
           \A d \in Channels \ {c} : answer'[d] = answer[d],
           p.wait # NoWait => answer'[c] = NoAnswer,
           due' \in BOOLEAN, UNCHANGED <<gen, nextGen>>
    PROVE  IInv'
<1> USE DEF IInv, Types
<1>1. /\ ev' \in EventState /\ ev'.pd = [ev.pd EXCEPT ![c] = p] /\ ev'.mouse = m
      /\ ev'.batch = ev.batch
  BY DEF EventState
<1>2. \A d \in Channels : ev'.pd[d] = IF d = c THEN p ELSE ev.pd[d]
  BY <1>1 DEF EventState
<1>3. Types'
  BY <1>1
<1>4. \A d \in Channels : RingFits(ev'.pd[d])
  BY <1>2
<1>5. InputFits(ev)'
  BY <1>1, <1>2 DEF InputFits, SameMouse
<1>6. WaitsFit(ev)'
  BY <1>2 DEF WaitsFit, Parked
<1>7. WaitersUnanswered'
  BY <1>2 DEF WaitersUnanswered, Parked
<1>8. TimersRun(ev)'
  BY <1>2 DEF TimersRun, Parked
<1> QED BY <1>3, <1>4, <1>5, <1>6, <1>7, <1>8

\* Binding gives a channel a record of its client, with the keys it had if it
\* was bound already.
LEMMA BindFits ==
    ASSUME ev \in EventState, NEW c \in Channels, gen[c] \in Nat, RingFits(ev.pd[c])
    PROVE  \E p \in PdRecord :
              /\ Bind(ev, c) = [ev EXCEPT !.pd = [@ EXCEPT ![c] = p]]
              /\ p.gen = gen[c] /\ RingFits(p)
              /\ p = IF ev.pd[c].gen = gen[c] THEN ev.pd[c] ELSE [FreePd EXCEPT !.gen = gen[c]]
<1>1. PICK p : p = IF ev.pd[c].gen = gen[c] THEN ev.pd[c] ELSE [FreePd EXCEPT !.gen = gen[c]]
  OBVIOUS
<1>2. p \in PdRecord /\ p.gen = gen[c] /\ RingFits(p)
  <2>1. CASE ev.pd[c].gen = gen[c]
    BY <1>1, <2>1 DEF EventState
  <2>2. CASE ev.pd[c].gen # gen[c]
    <3>1. p = [FreePd EXCEPT !.gen = gen[c]]
      BY <1>1, <2>2
    <3>2. p.gen = gen[c]
      BY <3>1 DEF FreePd
    <3> QED BY <3>1, <3>2, FreeFits
  <2> QED BY <2>1, <2>2
<1>3. Bind(ev, c) = [ev EXCEPT !.pd = [@ EXCEPT ![c] = p]]
  <2>1. CASE ev.pd[c].gen = gen[c]
    BY <1>1, <2>1 DEF Bind, EventState
  <2>2. CASE ev.pd[c].gen # gen[c]
    BY <1>1, <2>2 DEF Bind, EventState
  <2> QED BY <2>1, <2>2
<1> QED BY <1>1, <1>2, <1>3

\* A new wait is armed with the keys of the record and with its delay in two
\* words.
LEMMA ArmedFits ==
    ASSUME ev \in EventState, NEW c \in Channels, gen[c] \in Nat, RingFits(ev.pd[c]),
           NEW w \in Waits
    PROVE  \E p \in PdRecord :
              /\ Armed(Bind(ev, c), c, w) = [ev EXCEPT !.pd = [@ EXCEPT ![c] = p]]
              /\ p.gen = gen[c] /\ RingFits(p) /\ p.wait = w /\ ~p.rang
              /\ ev.pd[c].gen = gen[c] => SameKeys(ev.pd[c], p)
<1>1. PICK b \in PdRecord :
         /\ Bind(ev, c) = [ev EXCEPT !.pd = [@ EXCEPT ![c] = b]]
         /\ b.gen = gen[c] /\ RingFits(b)
         /\ b = IF ev.pd[c].gen = gen[c] THEN ev.pd[c] ELSE [FreePd EXCEPT !.gen = gen[c]]
  BY BindFits
<1>2. PICK ms : ms = IF w.op = "TIMER" /\ w.timer = 0 THEN TickMs ELSE w.timer
  OBVIOUS
<1>3. ms \in Nat /\ ms < WordBase * WordBase
  <2>1. WordBase \in Nat /\ WordBase > 1 /\ TickMs \in 1 .. WordBase - 1
    BY EventAssumption
  <2>2. PICK n \in Nat : WordBase = n + 1
    <3>1. WordBase - 1 \in Nat /\ WordBase = (WordBase - 1) + 1
      BY <2>1
    <3> QED BY <3>1
  <2>3. WordBase * WordBase = n * WordBase + WordBase /\ n * WordBase \in Nat
    BY <2>1, <2>2
  <2>4. TickMs \in Nat /\ TickMs < WordBase * WordBase
    BY <2>1, <2>3
  <2> QED BY <1>2, <2>4, WaitFields
<1>4. PICK p : p = [b EXCEPT !.wait = w, !.rang = FALSE, !.lo = ms % WordBase,
                             !.hi = ms \div WordBase]
  OBVIOUS
<1>5. ms % WordBase \in Word /\ ms \div WordBase \in Word
  BY <1>3, TwoWords
<1>6. p \in PdRecord /\ p.gen = b.gen /\ p.wait = w /\ ~p.rang /\ SameKeys(b, p)
  BY <1>4, <1>5 DEF PdRecord, SameKeys
<1>7. RingFits(p)
  BY <1>1, <1>6 DEF RingFits, SameKeys
<1>8. Armed(Bind(ev, c), c, w) = [ev EXCEPT !.pd = [@ EXCEPT ![c] = p]]
  <2>1. PICK s : s = Bind(ev, c)
    OBVIOUS
  <2>2. s.pd[c] = b /\ s \in EventState
    BY <1>1, <2>1 DEF EventState
  <2>3. Armed(s, c, w) = [s EXCEPT !.pd[c] = p]
    BY <1>2, <1>4, <2>2 DEF Armed, EventState
  <2>4. [s EXCEPT !.pd[c] = p] = [ev EXCEPT !.pd = [@ EXCEPT ![c] = p]]
    BY <1>1, <2>1 DEF EventState
  <2> QED BY <2>1, <2>3, <2>4
<1> QED BY <1>1, <1>6, <1>7, <1>8

\* What a call does: it parks its wait or ends it at once.
LEMMA CallIs ==
    ASSUME IInv, NEW c \in Channels, NEW w \in Waits, Call(c, w)
    PROVE  \E p \in PdRecord, message \in BOOLEAN, n \in {0, ev.mouse.moves} :
              LET s == [ev EXCEPT !.pd = [@ EXCEPT ![c] = p]]
                  what == ReadyMask(s, c, message, TRUE)
              IN  /\ s \in EventState
                  /\ p.gen = gen[c] /\ RingFits(p) /\ p.wait = w /\ ~p.rang
                  /\ ev.pd[c].gen = gen[c] => SameKeys(ev.pd[c], p)
                  /\ IF what = {}
                     THEN ev' = s /\ UNCHANGED answer
                     ELSE /\ ev' = [ev EXCEPT !.pd = [@ EXCEPT ![c] = Ended(p, what)],
                                              !.mouse = [@ EXCEPT !.moves = n]]
                          /\ answer' = [answer EXCEPT ![c] = Result(s, c, what, TRUE)]
<1> USE DEF IInv, Types
<1>1. gen[c] \in Nat
  BY EventAssumption
<1>2. PICK p \in PdRecord :
         /\ Armed(Bind(ev, c), c, w) = [ev EXCEPT !.pd = [@ EXCEPT ![c] = p]]
         /\ p.gen = gen[c] /\ RingFits(p) /\ p.wait = w /\ ~p.rang
         /\ ev.pd[c].gen = gen[c] => SameKeys(ev.pd[c], p)
  BY <1>1, ArmedFits
<1>3. PICK s : s = [ev EXCEPT !.pd = [@ EXCEPT ![c] = p]]
  OBVIOUS
<1>4. s \in EventState /\ s.pd = [ev.pd EXCEPT ![c] = p] /\ s.mouse = ev.mouse
  BY <1>3 DEF EventState
<1>5. PICK message \in BOOLEAN :
         LET what == ReadyMask(s, c, message, TRUE)
         IN  IF what = {}
             THEN ev' = s /\ UNCHANGED answer
             ELSE /\ ev' = EndWait(s, c, what)
                  /\ answer' = [answer EXCEPT ![c] = Result(s, c, what, TRUE)]
  <2>1. PICK message \in {FALSE, "MESAG" \in w.flags} :
           LET t == Armed(Bind(ev, c), c, w)
               what == ReadyMask(t, c, message, TRUE)
           IN  IF what = {}
               THEN ev' = t /\ UNCHANGED answer
               ELSE /\ ev' = EndWait(t, c, what)
                    /\ answer' = [answer EXCEPT ![c] = Result(t, c, what, TRUE)]
    BY Zenon DEF Call
  <2>2. message \in BOOLEAN
    <3>1. message = FALSE \/ message = ("MESAG" \in w.flags)
      OBVIOUS
    <3>2. ("MESAG" \in w.flags) \in BOOLEAN
      OBVIOUS
    <3> QED BY <3>1, <3>2
  <2>3. Armed(Bind(ev, c), c, w) = s
    BY <1>2, <1>3
  <2> QED BY <2>1, <2>2, <2>3
<1>6. PICK what : what = ReadyMask(s, c, message, TRUE)
  OBVIOUS
<1>7. s.pd[c] = p
  BY <1>4 DEF EventState
<1>8. PICK n \in {0, ev.mouse.moves} :
         EndWait(s, c, what) = [s EXCEPT !.pd = [@ EXCEPT ![c] = Ended(p, what)],
                                         !.mouse = [@ EXCEPT !.moves = n]]
  <2>1. PICK n \in {0, s.mouse.moves} :
           EndWait(s, c, what) = [s EXCEPT !.pd = [@ EXCEPT ![c] = Ended(s.pd[c], what)],
                                           !.mouse = [@ EXCEPT !.moves = n]]
    <3>1. s \in EventState
      BY <1>4
    <3> QED BY ONLY <3>1, EndWaitIs
  <2> QED BY <1>4, <1>7, <2>1
<1>9. EndWait(s, c, what) = [ev EXCEPT !.pd = [@ EXCEPT ![c] = Ended(p, what)],
                                       !.mouse = [@ EXCEPT !.moves = n]]
  BY <1>3, <1>8 DEF EventState
<1> QED BY <1>2, <1>3, <1>4, <1>5, <1>6, <1>9
\* Each action keeps the invariant.
LEMMA CallKeeps ==
    ASSUME IInv, NEW c \in Channels, NEW w \in Waits, Call(c, w)
    PROVE  IInv'
<1>1. gen[c] # 0 /\ answer[c] = NoAnswer /\ due' = TRUE /\ UNCHANGED <<gen, nextGen>>
  BY DEF Call, CanCall, IInv, Types
<1>2. PICK p \in PdRecord, message \in BOOLEAN, n \in {0, ev.mouse.moves} :
         LET s == [ev EXCEPT !.pd = [@ EXCEPT ![c] = p]]
             what == ReadyMask(s, c, message, TRUE)
         IN  /\ s \in EventState
             /\ p.gen = gen[c] /\ RingFits(p) /\ p.wait = w /\ ~p.rang
             /\ ev.pd[c].gen = gen[c] => SameKeys(ev.pd[c], p)
             /\ IF what = {}
                THEN ev' = s /\ UNCHANGED answer
                ELSE /\ ev' = [ev EXCEPT !.pd = [@ EXCEPT ![c] = Ended(p, what)],
                                         !.mouse = [@ EXCEPT !.moves = n]]
                     /\ answer' = [answer EXCEPT ![c] = Result(s, c, what, TRUE)]
  BY CallIs
<1> USE DEF IInv, Types
<1>3. PICK s : s = [ev EXCEPT !.pd = [@ EXCEPT ![c] = p]]
  OBVIOUS
<1>4. PICK what : what = ReadyMask(s, c, message, TRUE)
  OBVIOUS
<1>5. s \in EventState /\ s.pd[c] = p /\ ev.mouse \in MouseRecord /\ ev.rate \in DOMAIN Rates
  BY <1>2, <1>3 DEF EventState
<1>6. CASE what = {}
  <2>1. ev' = s /\ UNCHANGED answer
    BY <1>2, <1>3, <1>4, <1>6
  <2>2. "TIMER" \in p.wait.flags => ~p.rang /\ (p.lo # 0 \/ p.hi # 0)
    <3>1. "TIMER" \in s.pd[c].wait.flags => ~(s.pd[c].rang \/ (s.pd[c].lo = 0 /\ s.pd[c].hi = 0))
      BY <1>4, <1>5, <1>6, MaskFits
    <3> QED BY <3>1, <1>2, <1>5
  <2>3. ev' = [ev EXCEPT !.pd = [@ EXCEPT ![c] = p], !.mouse = ev.mouse, !.rate = ev.rate]
    BY <2>1, <1>3 DEF EventState
  <2>4. SameMouse(ev.mouse, ev.mouse)
    BY DEF SameMouse
  <2>5. answer' \in [Channels -> AnswerRecord] /\ due' \in BOOLEAN
        /\ (\A d \in Channels \ {c} : answer'[d] = answer[d]) /\ answer'[c] = NoAnswer
    BY <2>1, <1>1
  <2>6. p.gen = gen[c] /\ RingFits(p)
    BY <1>2
  <2> QED BY <1>1, <1>5, <2>2, <2>3, <2>4, <2>5, <2>6, RecordKeeps
<1>7. CASE what # {}
  <2>1. PICK q : q = Ended(p, what)
    OBVIOUS
  <2>2. PICK m : m = [ev.mouse EXCEPT !.moves = n]
    OBVIOUS
  <2>3. what \in SUBSET Flags /\ ("KEYBD" \in what => p.count > 0)
    BY <1>4, <1>5, MaskFits
  <2>4. q \in PdRecord /\ RingFits(q) /\ q.gen = gen[c] /\ q.wait = NoWait
    BY <1>2, <2>1, <2>3, EndedFits
  <2>5. m \in MouseRecord /\ SameMouse(ev.mouse, m)
    BY <1>5, <2>2 DEF MouseRecord, SameMouse
  <2>6. ev' = [ev EXCEPT !.pd = [@ EXCEPT ![c] = q], !.mouse = m, !.rate = ev.rate]
    <3>1. ev' = [ev EXCEPT !.pd = [@ EXCEPT ![c] = q], !.mouse = [@ EXCEPT !.moves = n]]
      BY <1>2, <1>3, <1>4, <1>7, <2>1
    <3> QED BY <3>1, <2>2 DEF EventState
  <2>7. Result(s, c, what, TRUE) \in AnswerRecord
    <3>1. ReadyMask(s, c, message, TRUE) # {}
      BY <1>4, <1>7
    <3> QED BY <1>4, <1>5, <3>1, ResultFits
  <2>8. answer' = [answer EXCEPT ![c] = Result(s, c, what, TRUE)]
    BY <1>2, <1>3, <1>4, <1>7
  <2>9. answer' \in [Channels -> AnswerRecord] /\ due' \in BOOLEAN
        /\ (\A d \in Channels \ {c} : answer'[d] = answer[d])
    BY <2>7, <2>8, <1>1
  <2>10. "TIMER" \notin q.wait.flags
    BY <2>4 DEF NoWait
  <2> QED BY <1>1, <1>5, <2>4, <2>5, <2>6, <2>9, <2>10, RecordKeeps
<1> QED BY <1>6, <1>7

\* EVNT_DCLICK binds the record as any call does.
LEMMA SetRateKeeps ==
    ASSUME IInv, NEW c \in Channels, NEW rate \in DOMAIN Rates, SetRate(c, rate)
    PROVE  IInv'
<1> USE DEF IInv, Types
<1>1. gen[c] # 0 /\ ~Parked(ev, c) /\ due' = TRUE /\ UNCHANGED <<gen, nextGen, answer>>
      /\ ev' = [Bind(ev, c) EXCEPT !.rate = rate]
  BY DEF SetRate, CanCall
<1>2. gen[c] \in Nat
  BY EventAssumption
<1>3. PICK p \in PdRecord :
         /\ Bind(ev, c) = [ev EXCEPT !.pd = [@ EXCEPT ![c] = p]]
         /\ p.gen = gen[c] /\ RingFits(p)
         /\ p = IF ev.pd[c].gen = gen[c] THEN ev.pd[c] ELSE [FreePd EXCEPT !.gen = gen[c]]
  BY <1>2, BindFits
<1>4. p.wait = NoWait
  BY <1>1, <1>3 DEF Parked, FreePd
<1>5. ev' = [ev EXCEPT !.pd = [@ EXCEPT ![c] = p], !.mouse = ev.mouse, !.rate = rate]
  BY <1>1, <1>3 DEF EventState
<1>6. SameMouse(ev.mouse, ev.mouse) /\ ev.mouse \in MouseRecord
  BY DEF SameMouse, EventState
<1>7. "TIMER" \notin p.wait.flags
  BY <1>4 DEF NoWait
<1>8. answer' \in [Channels -> AnswerRecord] /\ due' \in BOOLEAN
      /\ (\A d \in Channels \ {c} : answer'[d] = answer[d])
  BY <1>1
<1> QED BY <1>1, <1>3, <1>4, <1>5, <1>6, <1>7, <1>8, RecordKeeps

\* A channel that is attached had neither the input nor a wait.
LEMMA AttachKeeps ==
    ASSUME IInv, NEW c \in Channels, Attach(c)
    PROVE  IInv'
<1> USE DEF IInv, Types
<1>1. /\ gen[c] = 0 /\ nextGen <= MaxGeneration /\ gen' = [gen EXCEPT ![c] = nextGen]
      /\ nextGen' = nextGen + 1 /\ due' = TRUE /\ UNCHANGED <<answer, ev>>
  BY DEF Attach
<1>2. MaxGeneration \in Nat
  BY EventAssumption
<1>3. Types'
  BY <1>1, <1>2
<1>4. ev.mouse.valid => ev.mouse.owner # c
  BY <1>1 DEF InputFits
<1>5. InputFits(ev)'
  BY <1>1, <1>4 DEF InputFits
<1>6. ~Parked(ev, c)
  BY <1>1 DEF WaitsFit
<1>7. WaitsFit(ev)' /\ WaitersUnanswered' /\ TimersRun(ev)'
  BY <1>1, <1>6 DEF WaitsFit, WaitersUnanswered, TimersRun, Parked
<1> QED BY <1>1, <1>3, <1>5, <1>7

\* A client that goes gives up its record, and the input state if it is its.
LEMMA DetachKeeps ==
    ASSUME IInv, NEW c \in Channels, gen[c] # 0, DetachEvents(c), due' \in BOOLEAN
    PROVE  IInv'
<1> USE DEF IInv, Types
<1>1. /\ ev' = Detached(c) /\ gen' = [gen EXCEPT ![c] = 0]
      /\ answer' = [answer EXCEPT ![c] = NoAnswer] /\ UNCHANGED nextGen
  BY DEF DetachEvents
<1>2. MaxGeneration \in Nat
  BY EventAssumption
<1>3. NoAnswer \in AnswerRecord
  BY DEF NoAnswer, AnswerRecord
<1>4. gen' \in [Channels -> 0 .. MaxGeneration] /\ answer' \in [Channels -> AnswerRecord]
  BY <1>1, <1>2, <1>3
<1>5. CASE ev.pd[c].gen # gen[c]
  <2>1. ev' = ev
    BY <1>1, <1>5 DEF Detached
  <2>2. ev.mouse.valid => ev.mouse.owner # c
    BY <1>5 DEF InputFits
  <2>3. ~Parked(ev, c)
    BY <1>5 DEF WaitsFit
  <2>4. InputFits(ev)'
    BY <1>1, <2>1, <2>2 DEF InputFits
  <2>5. WaitsFit(ev)' /\ WaitersUnanswered' /\ TimersRun(ev)'
    BY <1>1, <2>1, <2>3 DEF WaitsFit, WaitersUnanswered, TimersRun, Parked
  <2> QED BY <1>1, <1>4, <2>1, <2>4, <2>5
<1>6. CASE ev.pd[c].gen = gen[c]
  <2>1. PICK m : m = IF OwnsInput(ev, c)
                     THEN [ev.mouse EXCEPT !.valid = FALSE, !.owner = Null, !.moves = 0]
                     ELSE ev.mouse
    OBVIOUS
  <2>2. PICK b : b = IF ev.batch.owner = c /\ ev.batch.gen = gen[c] THEN NoBatch ELSE ev.batch
    OBVIOUS
  <2>3. ev' = [ev EXCEPT !.pd = [ev.pd EXCEPT ![c] = FreePd], !.mouse = m, !.batch = b]
    BY <1>1, <1>6, <2>1, <2>2 DEF Detached, EventState
  <2>4. ev.mouse \in MouseRecord /\ ev.batch \in BatchRecord
    BY DEF EventState
  <2>5. m \in MouseRecord /\ (m.valid => m = ev.mouse /\ ev.mouse.owner # c)
    <3>1. CASE OwnsInput(ev, c)
      <4>1. m = [ev.mouse EXCEPT !.valid = FALSE, !.owner = Null, !.moves = 0]
        BY <2>1, <3>1
      <4>2. 0 \in 0 .. 2
        OBVIOUS
      <4> QED BY <2>4, <4>1, <4>2 DEF MouseRecord
    <3>2. CASE ~OwnsInput(ev, c)
      <4>1. m = ev.mouse
        BY <2>1, <3>2
      <4>2. ev.mouse.valid /\ ev.mouse.owner = c => ev.mouse.gen = ev.pd[c].gen
        BY DEF InputFits
      <4> QED BY <2>4, <3>2, <4>1, <4>2 DEF OwnsInput
    <3> QED BY <3>1, <3>2
  <2>6. b \in BatchRecord /\ (b.delay > 0 => b = ev.batch /\ m.valid)
    <3>1. NoBatch \in BatchRecord /\ NoBatch.delay = 0
      BY EventAssumption DEF NoBatch, BatchRecord
    <3>2. CASE ev.batch.owner = c /\ ev.batch.gen = gen[c]
      <4>1. b = NoBatch
        BY <2>2, <3>2
      <4> QED BY <3>1, <4>1
    <3>3. CASE ~(ev.batch.owner = c /\ ev.batch.gen = gen[c])
      <4>1. b = ev.batch
        BY <2>2, <3>3
      <4>2. ev.batch.delay > 0 => ev.mouse.valid /\ ~OwnsInput(ev, c)
        BY <1>6, <3>3 DEF InputFits, OwnsInput
      <4> QED BY <2>1, <2>4, <4>1, <4>2
    <3> QED BY <3>2, <3>3
  <2>7. /\ ev' \in EventState /\ ev'.pd = [ev.pd EXCEPT ![c] = FreePd]
        /\ ev'.mouse = m /\ ev'.batch = b
    <3>1. [ev.pd EXCEPT ![c] = FreePd] \in [Channels -> PdRecord]
      BY FreeFits DEF EventState
    <3> QED BY <2>3, <2>5, <2>6, <3>1 DEF EventState
  <2>8. \A d \in Channels : ev'.pd[d] = IF d = c THEN FreePd ELSE ev.pd[d]
    BY <2>7 DEF EventState
  <2>9. \A d \in Channels : gen'[d] = IF d = c THEN 0 ELSE gen[d]
    BY <1>1
  <2>10. InputFits(ev)'
    BY <2>5, <2>6, <2>7, <2>8, <2>9 DEF InputFits
  <2>11. \A d \in Channels : RingFits(ev'.pd[d])
    BY <2>8, FreeFits
  <2>12. ~Parked(ev, c)'
    BY <2>8 DEF Parked, FreePd
  <2>13. \A d \in Channels \ {c} : ev'.pd[d] = ev.pd[d] /\ gen'[d] = gen[d]
                                   /\ answer'[d] = answer[d]
    BY <1>1, <2>8, <2>9
  <2>14. WaitsFit(ev)'
    BY <2>12, <2>13 DEF WaitsFit, Parked
  <2>15. WaitersUnanswered'
    BY <2>12, <2>13 DEF WaitersUnanswered, Parked
  <2>16. TimersRun(ev)'
    BY <2>12, <2>13 DEF TimersRun, Parked
  <2> QED BY <1>1, <1>4, <2>7, <2>10, <2>11, <2>14, <2>15, <2>16
<1> QED BY <1>5, <1>6

\* A poll leaves parked only waits that are not met.
LEMMA PollKeeps ==
    ASSUME IInv, NEW ms \in {0, TickMs}, Poll(ms)
    PROVE  IInv'
<1> USE DEF IInv, Types
<1>1. UNCHANGED <<gen, nextGen>> /\ due' = FALSE
  BY DEF Poll
<1>2. PICK s \in EventState, messages \in SUBSET Channels : Fed(s, ms) /\ Serve(s, messages)
  BY PollFeeds
<1>3. /\ ev' \in EventState
      /\ SameMouse(s.mouse, ev'.mouse)
      /\ ev'.batch = s.batch
      /\ answer' \in [Channels -> AnswerRecord]
      /\ \A c \in Channels :
            /\ RingFits(ev'.pd[c])
            /\ IF Met(s, c, messages) = {}
               THEN ev'.pd[c] = s.pd[c] /\ answer'[c] = answer[c]
               ELSE /\ ev'.pd[c] = Ended(s.pd[c], Met(s, c, messages))
                    /\ answer'[c] = Result(s, c, Met(s, c, messages), FALSE)
  <2>1. \A c \in Channels : RingFits(s.pd[c])
    BY <1>2 DEF Fed
  <2> QED BY <1>2, <2>1, ServeIs
<1>4. ASSUME NEW c \in Channels
      PROVE  /\ ev'.pd[c].gen = s.pd[c].gen
             /\ Parked(ev, c)' =>
                   /\ ev'.pd[c] = s.pd[c] /\ answer'[c] = answer[c] /\ Parked(s, c)
                   /\ "TIMER" \in s.pd[c].wait.flags =>
                         ~s.pd[c].rang /\ (s.pd[c].lo # 0 \/ s.pd[c].hi # 0)
  <2>1. (c \in messages) \in BOOLEAN
    OBVIOUS
  <2>2. CASE Met(s, c, messages) = {}
    <3>1. ev'.pd[c] = s.pd[c] /\ answer'[c] = answer[c]
      BY <1>3, <2>2
    <3>2. ASSUME Parked(s, c)
          PROVE  "TIMER" \in s.pd[c].wait.flags =>
                         ~s.pd[c].rang /\ (s.pd[c].lo # 0 \/ s.pd[c].hi # 0)
      <4>1. ReadyMask(s, c, c \in messages, FALSE) = {}
        BY <2>2, <3>2 DEF Met
      <4>2. "TIMER" \in ReadyMask(s, c, c \in messages, FALSE) <=>
               /\ "TIMER" \in s.pd[c].wait.flags
               /\ s.pd[c].rang \/ (s.pd[c].lo = 0 /\ s.pd[c].hi = 0)
        BY <1>2, <2>1, MaskFits
      <4> QED BY <4>1, <4>2
    <3> QED BY <3>1, <3>2 DEF Parked
  <2>3. CASE Met(s, c, messages) # {}
    <3>1. ev'.pd[c] = Ended(s.pd[c], Met(s, c, messages))
      BY <1>3, <2>3
    <3>2. Parked(s, c)
      BY <2>3 DEF Met
    <3>3. Met(s, c, messages) \in SUBSET Flags
          /\ ("KEYBD" \in Met(s, c, messages) => s.pd[c].count > 0)
      BY <3>2, MetFits
    <3>4. s.pd[c] \in PdRecord /\ RingFits(s.pd[c])
      BY <1>2 DEF Fed, EventState
    <3>5. ev'.pd[c].gen = s.pd[c].gen /\ ev'.pd[c].wait = NoWait
      BY <3>1, <3>3, <3>4, EndedFits
    <3> QED BY <3>5 DEF Parked
  <2> QED BY <2>2, <2>3
<1>5. Types'
  BY <1>1, <1>3
<1>6. InputFits(ev)'
  BY <1>1, <1>2, <1>3, <1>4 DEF Fed, InputFits, SameMouse
<1>7. WaitsFit(ev)'
  <2>1. \A c \in Channels : Parked(s, c) => Parked(ev, c) /\ s.pd[c].gen = ev.pd[c].gen
    BY <1>2 DEF Fed, Parked
  <2> QED BY <1>1, <1>4, <2>1 DEF WaitsFit
<1>8. WaitersUnanswered'
  <2>1. \A c \in Channels : Parked(s, c) => Parked(ev, c)
    BY <1>2 DEF Fed, Parked
  <2> QED BY <1>4, <2>1 DEF WaitersUnanswered
<1>9. TimersRun(ev)'
  BY <1>4 DEF TimersRun
<1> QED BY <1>3, <1>5, <1>6, <1>7, <1>8, <1>9

\* The invariant holds in every reachable state.
THEOREM Invariance == EventSpec => []IInv
<1>1. EventInit => IInv
  <2> SUFFICES ASSUME EventInit PROVE IInv
    OBVIOUS
  <2>1. ev.pd = [c \in Channels |-> FreePd] /\ ~ev.mouse.valid /\ ev.batch = NoBatch
    BY DEF EventInit
  <2>2. ev \in EventState
    <3>1. ev.pd \in [Channels -> PdRecord]
      BY <2>1, FreeFits
    <3>2. ev.mouse \in MouseRecord
      BY DEF EventInit, MouseRecord
    <3>3. NoBatch \in BatchRecord
      BY EventAssumption DEF NoBatch, BatchRecord
    <3>4. 1 \in DOMAIN Rates
      BY EventAssumption
    <3> QED BY <3>1, <3>2, <3>3, <3>4 DEF EventInit, EventState
  <2>3. Types
    <3>1. NoAnswer \in AnswerRecord
      BY DEF NoAnswer, AnswerRecord
    <3>2. MaxGeneration \in Nat
      BY EventAssumption
    <3>3. gen = [c \in Channels |-> 0] /\ nextGen = 1 /\ due = FALSE
          /\ answer = [c \in Channels |-> NoAnswer]
      BY DEF EventInit
    <3>4. due \in BOOLEAN
      BY <3>3
    <3>5. gen \in [Channels -> 0 .. MaxGeneration] /\ nextGen \in 1 .. MaxGeneration + 1
          /\ answer \in [Channels -> AnswerRecord]
      BY <3>1, <3>2, <3>3
    <3> QED BY <2>2, <3>4, <3>5 DEF Types
  <2>4. \A c \in Channels : RingFits(ev.pd[c]) /\ ~Parked(ev, c)
    <3>1. FreePd.wait = NoWait
      BY DEF FreePd
    <3> QED BY <2>1, <3>1, FreeFits DEF Parked
  <2>5. InputFits(ev)
    BY <2>1 DEF InputFits, NoBatch
  <2> QED BY <2>3, <2>4, <2>5 DEF IInv, WaitsFit, WaitersUnanswered, TimersRun
<1>2. IInv /\ [EventNext]_eventVars => IInv'
  <2> SUFFICES ASSUME IInv, [EventNext]_eventVars PROVE IInv'
    OBVIOUS
  <2>1. CASE UNCHANGED eventVars
    BY <2>1 DEF eventVars, IInv, Types, InputFits, WaitsFit, WaitersUnanswered, TimersRun, Parked
  <2>2. ASSUME NEW c \in Channels, Attach(c) PROVE IInv'
    BY <2>2, AttachKeeps
  <2>3. ASSUME NEW c \in Channels, ApplExit(c) PROVE IInv'
    <3>1. gen[c] # 0 /\ DetachEvents(c) /\ due' = TRUE
      BY <2>3 DEF ApplExit, CanCall
    <3> QED BY <3>1, DetachKeeps
  <2>4. ASSUME NEW c \in Channels, Hangup(c) PROVE IInv'
    <3>1. gen[c] # 0 /\ DetachEvents(c) /\ due' = due /\ due \in BOOLEAN
      BY <2>4 DEF Hangup, IInv, Types
    <3> QED BY <3>1, DetachKeeps
  <2>5. ASSUME NEW c \in Channels, NEW w \in Waits, Call(c, w) PROVE IInv'
    BY <2>5, CallKeeps
  <2>6. ASSUME NEW c \in Channels, NEW rate \in DOMAIN Rates, SetRate(c, rate) PROVE IInv'
    BY <2>6, SetRateKeeps
  <2>7. ASSUME NEW c \in Channels, Return(c) PROVE IInv'
    <3>1. /\ answer' = [answer EXCEPT ![c] = NoAnswer]
          /\ UNCHANGED <<gen, nextGen, due, ev>>
      BY <2>7 DEF Return
    <3>2. NoAnswer \in AnswerRecord
      BY DEF NoAnswer, AnswerRecord
    <3>3. Types'
      BY <3>1, <3>2 DEF IInv, Types
    <3>4. WaitersUnanswered'
      BY <3>1 DEF IInv, Types, WaitersUnanswered, Parked
    <3> QED BY <3>1, <3>3, <3>4 DEF IInv, InputFits, WaitsFit, TimersRun, Parked
  <2>8. CASE Poll(0)
    BY <2>8, PollKeeps
  <2>9. CASE Poll(TickMs)
    BY <2>9, PollKeeps
  <2> QED BY <2>1, <2>2, <2>3, <2>4, <2>5, <2>6, <2>7, <2>8, <2>9 DEF EventNext
<1> QED BY <1>1, <1>2, PTL DEF EventSpec

\* In every reachable state words are words, the ring holds its keys, and the
\* input state is that of a client that is attached now.
THEOREM EventsAreSafe == EventSpec => []EventSafety
<1>1. IInv => EventSafety
  <2> SUFFICES ASSUME IInv PROVE EventSafety
    OBVIOUS
  <2>1. EventTypeOK
    BY DEF IInv, Types, EventTypeOK, EventState, PdRecord, BatchRecord, Word
  <2>2. InputIsCurrent
    BY EventAssumption DEF IInv, InputFits, InputIsCurrent
  <2> QED BY <2>1, <2>2 DEF EventSafety
<1> QED BY <1>1, Invariance, PTL
-----------------------------------------------------------------------------
(* Timers and click batches *)

\* A poll as a whole: what it is fed, and what it makes of each channel.
LEMMA PollIs ==
    ASSUME IInv, NEW ms \in {0, TickMs}, Poll(ms)
    PROVE  \E s \in EventState, messages \in SUBSET Channels :
              /\ Fed(s, ms)
              /\ SameMouse(s.mouse, ev'.mouse) /\ ev'.batch = s.batch
              /\ \A c \in Channels :
                    IF Met(s, c, messages) = {}
                    THEN ev'.pd[c] = s.pd[c] /\ answer'[c] = answer[c]
                    ELSE /\ ev'.pd[c] = Ended(s.pd[c], Met(s, c, messages))
                         /\ ev'.pd[c].wait = NoWait /\ ev'.pd[c].gen = s.pd[c].gen
                         /\ answer'[c] = Result(s, c, Met(s, c, messages), FALSE)
                         /\ answer'[c].what = Met(s, c, messages)
                         /\ answer'[c] # NoAnswer
<1>1. PICK s \in EventState, messages \in SUBSET Channels : Fed(s, ms) /\ Serve(s, messages)
  BY PollFeeds
<1>2. \A c \in Channels : RingFits(s.pd[c])
  BY <1>1 DEF Fed
<1>3. /\ SameMouse(s.mouse, ev'.mouse) /\ ev'.batch = s.batch
      /\ \A c \in Channels :
            IF Met(s, c, messages) = {}
            THEN ev'.pd[c] = s.pd[c] /\ answer'[c] = answer[c]
            ELSE /\ ev'.pd[c] = Ended(s.pd[c], Met(s, c, messages))
                 /\ answer'[c] = Result(s, c, Met(s, c, messages), FALSE)
  BY <1>1, <1>2, ServeIs DEF IInv, Types
<1>4. ASSUME NEW c \in Channels, Met(s, c, messages) # {}
      PROVE  /\ ev'.pd[c].wait = NoWait /\ ev'.pd[c].gen = s.pd[c].gen
             /\ answer'[c].what = Met(s, c, messages)
             /\ answer'[c] # NoAnswer
  <2>1. Parked(s, c)
    BY <1>4 DEF Met
  <2>2. /\ Met(s, c, messages) \in SUBSET Flags
        /\ "KEYBD" \in Met(s, c, messages) => s.pd[c].count > 0
        /\ Result(s, c, Met(s, c, messages), FALSE).what = Met(s, c, messages)
        /\ Result(s, c, Met(s, c, messages), FALSE) # NoAnswer
    BY <1>4, <2>1, MetFits
  <2>3. s.pd[c] \in PdRecord
    BY DEF EventState
  <2>4. Ended(s.pd[c], Met(s, c, messages)).wait = NoWait
        /\ Ended(s.pd[c], Met(s, c, messages)).gen = s.pd[c].gen
    BY <1>2, <2>2, <2>3, EndedFits
  <2> QED BY <1>3, <1>4, <2>2, <2>4
<1> QED BY <1>1, <1>3, <1>4

\* A step that is not a poll leaves a parked call as it is, or ends it with
\* its client; and it ends no batch of a client that keeps the input.
LEMMA QuietStep ==
    ASSUME IInv, [EventNext]_eventVars, ~Poll(0), ~Poll(TickMs), NEW c \in Channels
    PROVE  /\ Parked(ev, c) =>
                 \/ ev'.pd[c] = ev.pd[c] /\ answer'[c] = answer[c]
                 \/ ~Parked(ev', c) /\ answer'[c] = NoAnswer
           /\ (OwnsInput(ev, c) /\ OwnsInput(ev', c) /\ ev.batch.delay > 0) => ev'.batch = ev.batch
<1>1. CASE UNCHANGED eventVars
  BY <1>1 DEF eventVars
<1>2. ASSUME NEW d \in Channels, Attach(d) \/ Return(d)
      PROVE  /\ ev' = ev
             /\ Parked(ev, c) => answer'[c] = answer[c]
  BY <1>2 DEF Attach, Return, IInv, Types, WaitersUnanswered
<1>3. ASSUME NEW d \in Channels, ApplExit(d) \/ Hangup(d)
      PROVE  /\ Parked(ev, c) =>
                   \/ ev'.pd[c] = ev.pd[c] /\ answer'[c] = answer[c]
                   \/ ~Parked(ev', c) /\ answer'[c] = NoAnswer
             /\ (OwnsInput(ev, c) /\ OwnsInput(ev', c) /\ ev.batch.delay > 0) => ev'.batch = ev.batch
  <2>1. gen[d] # 0 /\ ev' = Detached(d) /\ answer' = [answer EXCEPT ![d] = NoAnswer]
    BY <1>3 DEF ApplExit, Hangup, DetachEvents, CanCall
  <2>2. ev \in EventState /\ answer \in [Channels -> AnswerRecord] /\ InputFits(ev) /\ WaitsFit(ev)
    BY DEF IInv, Types
  <2>3. CASE ev.pd[d].gen # gen[d]
    <3>1. ev' = ev
      BY <2>1, <2>3 DEF Detached
    <3>2. ~Parked(ev, d)
      BY <2>2, <2>3 DEF WaitsFit
    <3> QED BY <2>1, <2>2, <3>1, <3>2
  <2>4. CASE ev.pd[d].gen = gen[d]
    <3>1. PICK m : m = IF OwnsInput(ev, d)
                       THEN [ev.mouse EXCEPT !.valid = FALSE, !.owner = Null, !.moves = 0]
                       ELSE ev.mouse
      OBVIOUS
    <3>2. PICK b : b = IF ev.batch.owner = d /\ ev.batch.gen = gen[d] THEN NoBatch ELSE ev.batch
      OBVIOUS
    <3>3. ev' = [ev EXCEPT !.pd = [ev.pd EXCEPT ![d] = FreePd], !.mouse = m, !.batch = b]
      BY <2>1, <2>2, <2>4, <3>1, <3>2 DEF Detached, EventState
    <3>4. /\ ev'.pd = [ev.pd EXCEPT ![d] = FreePd] /\ ev'.mouse = m /\ ev'.batch = b
      BY <2>2, <3>3 DEF EventState
    <3>5. CASE c = d
      <4>1. ev'.pd[c] = FreePd /\ answer'[c] = NoAnswer
        BY <2>1, <2>2, <3>4, <3>5 DEF EventState
      <4>2. OwnsInput(ev, c) => ~OwnsInput(ev', c)
        <5>1. OwnsInput(ev, c) => m = [ev.mouse EXCEPT !.valid = FALSE, !.owner = Null, !.moves = 0]
          BY <3>1, <3>5
        <5>2. OwnsInput(ev, c) => ~m.valid
          BY <2>2, <5>1 DEF EventState, MouseRecord
        <5> QED BY <3>4, <5>2 DEF OwnsInput
      <4> QED BY <4>1, <4>2 DEF Parked, FreePd
    <3>6. CASE c # d
      <4>1. ev'.pd[c] = ev.pd[c] /\ answer'[c] = answer[c]
        BY <2>1, <2>2, <3>4, <3>6 DEF EventState
      <4>2. OwnsInput(ev, c) /\ ev.batch.delay > 0 => ev.batch.owner = c
        BY <2>2 DEF OwnsInput, InputFits
      <4> QED BY <3>2, <3>4, <3>6, <4>1, <4>2
    <3> QED BY <3>5, <3>6
  <2> QED BY <2>3, <2>4
<1>4. ASSUME NEW d \in Channels, NEW w \in Waits, Call(d, w)
      PROVE  /\ Parked(ev, c) => ev'.pd[c] = ev.pd[c] /\ answer'[c] = answer[c]
             /\ ev'.batch = ev.batch
  <2>1. ~Parked(ev, d)
    BY <1>4 DEF Call, CanCall
  <2>2. PICK p \in PdRecord, message \in BOOLEAN, n \in {0, ev.mouse.moves} :
           LET s == [ev EXCEPT !.pd = [@ EXCEPT ![d] = p]]
               what == ReadyMask(s, d, message, TRUE)
           IN  /\ s \in EventState
               /\ p.gen = gen[d] /\ RingFits(p) /\ p.wait = w /\ ~p.rang
               /\ ev.pd[d].gen = gen[d] => SameKeys(ev.pd[d], p)
               /\ IF what = {}
                  THEN ev' = s /\ UNCHANGED answer
                  ELSE /\ ev' = [ev EXCEPT !.pd = [@ EXCEPT ![d] = Ended(p, what)],
                                           !.mouse = [@ EXCEPT !.moves = n]]
                       /\ answer' = [answer EXCEPT ![d] = Result(s, d, what, TRUE)]
    BY <1>4, CallIs
  <2>3. ev \in EventState /\ answer \in [Channels -> AnswerRecord]
    BY DEF IInv, Types
  <2>4. ev'.batch = ev.batch /\ (d # c => ev'.pd[c] = ev.pd[c] /\ answer'[c] = answer[c])
    BY <2>2, <2>3 DEF EventState
  <2> QED BY <2>1, <2>4
<1>5. ASSUME NEW d \in Channels, NEW rate \in DOMAIN Rates, SetRate(d, rate)
      PROVE  /\ Parked(ev, c) => ev'.pd[c] = ev.pd[c] /\ answer'[c] = answer[c]
             /\ ev'.batch = ev.batch
  <2>1. ~Parked(ev, d) /\ ev' = [Bind(ev, d) EXCEPT !.rate = rate] /\ answer' = answer
    BY <1>5 DEF SetRate, CanCall
  <2>2. ev \in EventState /\ gen[d] \in Nat /\ RingFits(ev.pd[d])
    BY EventAssumption DEF IInv, Types
  <2>3. PICK p \in PdRecord : Bind(ev, d) = [ev EXCEPT !.pd = [@ EXCEPT ![d] = p]]
    BY <2>2, BindFits
  <2>4. ev'.batch = ev.batch /\ (d # c => ev'.pd[c] = ev.pd[c])
    BY <2>1, <2>2, <2>3 DEF EventState
  <2> QED BY <2>1, <2>4
<1> QED BY <1>1, <1>2, <1>3, <1>4, <1>5 DEF EventNext

\* A timer counts down as a number does, and no wait is answered for its time
\* before the last tick of it.
THEOREM TimersCountExactly == EventSpec => TimersAreExact
<1>1. ASSUME IInv, [EventNext]_eventVars, NEW c \in Channels, Parked(ev, c),
             "TIMER" \in ev.pd[c].wait.flags
      PROVE  LET left == TimeLeft(ev.pd[c])
             IN  /\ Parked(ev', c) =>
                       TimeLeft(ev'.pd[c]) \in {left, left - TickMs} \ {0}
                 /\ (Answered(c) /\ "TIMER" \in answer'[c].what) => left <= TickMs
  <2>1. ev.pd[c] \in PdRecord
    BY <1>1 DEF IInv, Types, EventState
  <2>2. ~ev.pd[c].rang /\ TimeLeft(ev.pd[c]) # 0
    BY <1>1, <2>1, NoTimeLeft DEF IInv, TimersRun
  <2>3. answer[c] = NoAnswer
    BY <1>1 DEF IInv, WaitersUnanswered
  <2>4. CASE ~Poll(0) /\ ~Poll(TickMs)
    <3>1. \/ ev'.pd[c] = ev.pd[c] /\ answer'[c] = answer[c]
          \/ ~Parked(ev', c) /\ answer'[c] = NoAnswer
      BY <1>1, <2>4, QuietStep
    <3> QED BY <2>2, <2>3, <3>1 DEF Answered
  <2>5. ASSUME NEW ms \in {0, TickMs}, Poll(ms)
        PROVE  LET left == TimeLeft(ev.pd[c])
               IN  /\ Parked(ev', c) =>
                         TimeLeft(ev'.pd[c]) \in {left, left - TickMs} \ {0}
                   /\ (Answered(c) /\ "TIMER" \in answer'[c].what) => left <= TickMs
    <3>1. PICK s \in EventState, messages \in SUBSET Channels :
             /\ Fed(s, ms)
             /\ IF Met(s, c, messages) = {}
                THEN ev'.pd[c] = s.pd[c] /\ answer'[c] = answer[c]
                ELSE /\ ev'.pd[c].wait = NoWait
                     /\ answer'[c].what = Met(s, c, messages)
      BY <1>1, <2>5, PollIs
    <3>2. s.pd[c] \in PdRecord /\ s.pd[c].wait = ev.pd[c].wait /\ Parked(s, c)
      BY <1>1, <3>1 DEF Fed, EventState, Parked
    <3>3. \/ SameCall(ev.pd[c], s.pd[c])
          \/ Ticked(ev.pd[c], s.pd[c])
      BY <1>1, <3>1 DEF Fed
    <3>4. \/ TimeLeft(s.pd[c]) = TimeLeft(ev.pd[c]) /\ ~s.pd[c].rang
          \/ TimeLeft(ev.pd[c]) <= TickMs /\ s.pd[c].rang
          \/ TimeLeft(s.pd[c]) = TimeLeft(ev.pd[c]) - TickMs /\ ~s.pd[c].rang
             /\ (s.pd[c].lo # 0 \/ s.pd[c].hi # 0)
      BY <1>1, <2>2, <3>3 DEF SameCall, Ticked, TimeLeft
    <3>5. "TIMER" \in Met(s, c, messages) <=>
             s.pd[c].rang \/ (s.pd[c].lo = 0 /\ s.pd[c].hi = 0)
      BY <1>1, <3>2, MetFits
    <3>6. s.pd[c].lo = 0 /\ s.pd[c].hi = 0 <=> TimeLeft(s.pd[c]) = 0
      BY <3>2, NoTimeLeft
    <3>7. Parked(ev', c) => Met(s, c, messages) = {} /\ ev'.pd[c] = s.pd[c]
      BY <3>1 DEF Parked
    <3>8. Parked(ev', c) => TimeLeft(ev'.pd[c]) \in
                               {TimeLeft(ev.pd[c]), TimeLeft(ev.pd[c]) - TickMs} \ {0}
      BY <2>2, <3>4, <3>5, <3>6, <3>7
    <3>9. (Answered(c) /\ "TIMER" \in answer'[c].what) => "TIMER" \in Met(s, c, messages)
      BY <2>3, <3>1 DEF Answered
    <3>10. "TIMER" \in Met(s, c, messages) => TimeLeft(ev.pd[c]) <= TickMs
      BY <2>2, <3>4, <3>5, <3>6
    <3> QED BY <3>8, <3>9, <3>10
  <2>6. CASE Poll(0)
    BY <2>5, <2>6
  <2>7. CASE Poll(TickMs)
    BY <2>5, <2>7
  <2> QED BY <2>4, <2>6, <2>7
<1>2. IInv /\ [EventNext]_eventVars =>
         [\A c \in Channels :
             (Parked(ev, c) /\ "TIMER" \in ev.pd[c].wait.flags) =>
                LET left == TimeLeft(ev.pd[c])
                IN  /\ Parked(ev', c) =>
                          TimeLeft(ev'.pd[c]) \in {left, left - TickMs} \ {0}
                    /\ (Answered(c) /\ "TIMER" \in answer'[c].what) =>
                          left <= TickMs]_eventVars
  BY <1>1
<1> QED BY <1>2, Invariance, PTL DEF EventSpec, TimersAreExact
\* When a batch runs out while its client keeps the input and the wait, that
\* wait is answered in the same poll, with the clicks counted.
THEOREM ClicksAreReported == EventSpec => BatchIsReported
<1>1. ASSUME IInv, [EventNext]_eventVars, NEW c \in Channels,
             ev.batch.delay > 0, ev'.batch.delay = 0, OwnsInput(ev, c), OwnsInput(ev', c),
             WantsClicks(ev, c), ButtonReady(ev.pd[c].wait, ev.batch.desired)
      PROVE  /\ Answered(c) /\ "BUTTON" \in answer'[c].what
             /\ answer'[c].clicks = Least2(ev.batch.count, ev.pd[c].wait.clicks)
  <2>1. ev \in EventState /\ ev.batch \in BatchRecord
    BY <1>1 DEF IInv, Types, EventState
  <2>2. Parked(ev, c) /\ "BUTTON" \in ev.pd[c].wait.flags /\ ev.pd[c].wait.clicks > 1
    BY <1>1 DEF WantsClicks, Parked, NoWait
  <2>3. answer[c] = NoAnswer
    BY <1>1, <2>2 DEF IInv, WaitersUnanswered
  <2>4. ev.batch.owner = c /\ ev.batch.gen = ev.pd[c].gen
    BY <1>1 DEF IInv, InputFits, OwnsInput
  <2>5. PICK ms \in {0, TickMs} : Poll(ms)
    <3>1. CASE ~Poll(0) /\ ~Poll(TickMs)
      BY <1>1, <3>1, QuietStep
    <3> QED BY <3>1
  <2>6. PICK s \in EventState, messages \in SUBSET Channels :
           /\ Fed(s, ms)
           /\ SameMouse(s.mouse, ev'.mouse) /\ ev'.batch = s.batch
           /\ IF Met(s, c, messages) = {}
              THEN ev'.pd[c] = s.pd[c] /\ answer'[c] = answer[c]
              ELSE /\ ev'.pd[c].gen = s.pd[c].gen
                   /\ answer'[c] = Result(s, c, Met(s, c, messages), FALSE)
                   /\ answer'[c].what = Met(s, c, messages)
                   /\ answer'[c] # NoAnswer
    BY <1>1, <2>5, PollIs
  <2>7. s.pd[c].wait = ev.pd[c].wait /\ s.pd[c].gen = ev.pd[c].gen /\ Parked(s, c)
    BY <2>2, <2>6 DEF Fed, Parked
  <2>8. OwnsInput(s, c)
    BY <1>1, <2>6 DEF OwnsInput, SameMouse
  <2>9. s.done = [ev.batch EXCEPT !.delay = 0] /\ s.pd[c].batched
    BY <1>1, <2>2, <2>6, <2>8 DEF Fed, OwnBatchEnds
  <2>10. s.done.owner = c /\ s.done.gen = s.pd[c].gen /\ s.done.desired = ev.batch.desired
         /\ s.done.count = ev.batch.count
    BY <2>1, <2>4, <2>7, <2>9 DEF BatchRecord
  <2>11. ButtonClicks(s, c, FALSE) = {Least2(ev.batch.count, ev.pd[c].wait.clicks)}
    BY <1>1, <2>2, <2>7, <2>9, <2>10 DEF ButtonClicks
  <2>12. "BUTTON" \in Met(s, c, messages)
    BY <2>2, <2>7, <2>8, <2>11, MetFits
  <2>13. Result(s, c, Met(s, c, messages), FALSE).clicks
         = CHOOSE n \in ButtonClicks(s, c, FALSE) : TRUE
    BY <2>12 DEF Result
  <2>14. (CHOOSE n \in ButtonClicks(s, c, FALSE) : TRUE)
         = Least2(ev.batch.count, ev.pd[c].wait.clicks)
    BY <2>11
  <2> QED BY <2>3, <2>6, <2>12, <2>13, <2>14 DEF Answered
<1>2. IInv /\ [EventNext]_eventVars =>
         [\A c \in Channels :
             LET w == ev.pd[c].wait
             IN  (/\ ev.batch.delay > 0 /\ ev'.batch.delay = 0
                  /\ OwnsInput(ev, c) /\ OwnsInput(ev', c)
                  /\ WantsClicks(ev, c)
                  /\ ButtonReady(w, ev.batch.desired))
                 => /\ Answered(c) /\ "BUTTON" \in answer'[c].what
                    /\ answer'[c].clicks = Least2(ev.batch.count, w.clicks)]_eventVars
  BY <1>1
<1> QED BY <1>2, Invariance, PTL DEF EventSpec, BatchIsReported

-----------------------------------------------------------------------------
(* The key ring *)

\* Two places of the ring less than its size apart are different slots.
LEMMA SlotsDiffer ==
    ASSUME NEW a \in Int, NEW j \in 1 .. KeyRoom - 1
    PROVE  (a + j) % KeyRoom # a % KeyRoom
<1> DEFINE q == a \div KeyRoom
           r == a % KeyRoom
<1>1. KeyRoom \in Nat /\ KeyRoom > 0
  BY EventAssumption
<1>2. q \in Int /\ r \in 0 .. KeyRoom - 1 /\ a = KeyRoom * q + r
  BY <1>1, Division
<1> HIDE DEF q, r
<1>3. CASE r + j < KeyRoom
  <2>1. r + j \in 0 .. KeyRoom - 1 /\ a + j = KeyRoom * q + (r + j)
    BY <1>1, <1>2, <1>3
  <2>2. (a + j) % KeyRoom = r + j
    BY <1>1, <1>2, <2>1, Residue
  <2> QED BY <1>1, <1>2, <2>2 DEF r
<1>4. CASE ~(r + j < KeyRoom)
  <2>1. r + j - KeyRoom \in 0 .. KeyRoom - 1 /\ q + 1 \in Int
        /\ a + j = KeyRoom * (q + 1) + (r + j - KeyRoom)
    <3>1. KeyRoom * (q + 1) = KeyRoom * q + KeyRoom /\ KeyRoom * q \in Int
      BY <1>1, <1>2
    <3> QED BY <1>1, <1>2, <1>4, <3>1
  <2>2. (a + j) % KeyRoom = r + j - KeyRoom
    BY <1>1, <2>1, Residue
  <2> QED BY <1>1, <1>2, <2>2 DEF r
<1> QED BY <1>3, <1>4

\* The keys of a record are keys, one for each place that is taken.
LEMMA KeysAre ==
    ASSUME NEW p \in PdRecord
    PROVE  /\ KeysOf(p) \in Seq(Keys \cup {Null})
           /\ Len(KeysOf(p)) = p.count
           /\ \A i \in 1 .. p.count : KeysOf(p)[i] = p.ring[(p.front + i - 1) % KeyRoom]
<1>1. p.count \in Nat /\ p.front \in Int
  BY EventAssumption DEF PdRecord, Slots
<1>2. ASSUME NEW i \in 1 .. p.count
      PROVE  p.ring[(p.front + i - 1) % KeyRoom] \in Keys \cup {Null}
  <2>1. p.front + i - 1 \in Int
    BY <1>1
  <2>2. (p.front + i - 1) % KeyRoom \in Slots
    BY <2>1, AddMod
  <2> QED BY <2>2 DEF PdRecord
<1>3. KeysOf(p) \in [1 .. p.count -> Keys \cup {Null}]
  BY <1>2 DEF KeysOf
<1>4. KeysOf(p) \in Seq(Keys \cup {Null})
  BY <1>1, <1>3, SeqDef
<1> QED BY <1>1, <1>3, <1>4 DEF KeysOf

\* Whatever else changes, the same ring holds the same keys.
LEMMA SameKeysOf ==
    ASSUME NEW p \in PdRecord, NEW q \in PdRecord, SameKeys(p, q)
    PROVE  KeysOf(q) = KeysOf(p)
BY DEF KeysOf, SameKeys

\* A key is stored behind the others, or dropped when the ring is full.
LEMMA EnqueueOrder ==
    ASSUME NEW p \in PdRecord, RingFits(p), NEW k \in Keys
    PROVE  \/ KeysOf(Enqueue(p, k)) = KeysOf(p)
           \/ KeysOf(Enqueue(p, k)) = KeysOf(p) \o <<k>>
<1>1. CASE p.count >= KeyRoom
  BY <1>1 DEF Enqueue
<1>2. CASE ~(p.count >= KeyRoom)
  <2> DEFINE q == Enqueue(p, k)
             E == Keys \cup {Null}
  <2>1. p.front \in Slots /\ p.rear \in Slots /\ p.count \in Nat /\ p.count < KeyRoom
        /\ KeyRoom \in Nat /\ p.front \in Int
    BY <1>2, EventAssumption DEF PdRecord, Slots
  <2>2. q \in PdRecord
    BY EnqueueFits
  <2>3. q.count = p.count + 1 /\ q.front = p.front /\ q.ring = [p.ring EXCEPT ![p.rear] = k]
    BY <1>2 DEF Enqueue, PdRecord
  <2>4. KeysOf(p) \in Seq(E) /\ <<k>> \in Seq(E) /\ KeysOf(q) \in Seq(E)
        /\ Len(KeysOf(p)) = p.count /\ Len(KeysOf(q)) = p.count + 1 /\ Len(<<k>>) = 1
    BY <2>2, <2>3, KeysAre
  <2>5. /\ KeysOf(p) \o <<k>> \in Seq(E) /\ Len(KeysOf(p) \o <<k>>) = p.count + 1
        /\ \A i \in 1 .. p.count + 1 :
              (KeysOf(p) \o <<k>>)[i] = IF i <= p.count THEN KeysOf(p)[i] ELSE <<k>>[i - p.count]
    <3> HIDE DEF E
    <3> QED BY <2>4, ConcatProperties
  <2>6. ASSUME NEW i \in 1 .. p.count + 1
        PROVE  KeysOf(q)[i] = (KeysOf(p) \o <<k>>)[i]
    <3>1. KeysOf(q)[i] = q.ring[(p.front + i - 1) % KeyRoom]
      BY <2>2, <2>3, KeysAre
    <3>2. p.front + i - 1 \in Int /\ (p.front + i - 1) % KeyRoom \in Slots
      <4>1. p.front + i - 1 \in Int
        BY <2>1
      <4> QED BY <4>1, AddMod
    <3>3. CASE i = p.count + 1
      <4>1. p.front + i - 1 = p.front + p.count
        BY <2>1, <3>3
      <4>2. KeysOf(q)[i] = k
        BY <2>1, <2>3, <3>1, <4>1 DEF RingFits, PdRecord
      <4>3. i - p.count = 1 /\ ~(i <= p.count)
        BY <2>1, <3>3
      <4> QED BY <2>5, <4>2, <4>3
    <3>4. CASE i # p.count + 1
      <4>1. i \in 1 .. p.count /\ i <= p.count
        BY <2>1, <3>4
      <4> DEFINE a == p.front + i - 1
                 j == p.count - i + 1
      <4>2. a \in Int /\ j \in 1 .. KeyRoom - 1 /\ a + j = p.front + p.count
        BY <2>1, <4>1
      <4> HIDE DEF a, j
      <4>3. p.rear # a % KeyRoom
        BY <4>2, SlotsDiffer DEF RingFits
      <4>4. q.ring[a % KeyRoom] = p.ring[a % KeyRoom]
        BY <2>3, <3>2, <4>3 DEF PdRecord, a
      <4>5. KeysOf(p)[i] = p.ring[a % KeyRoom]
        BY <4>1, KeysAre DEF a
      <4> QED BY <2>5, <3>1, <4>1, <4>4, <4>5 DEF a
    <3> QED BY <3>3, <3>4
  <2>7. KeysOf(q) = KeysOf(p) \o <<k>>
    <3> HIDE DEF E
    <3> QED BY <2>4, <2>5, <2>6, SeqEqual
  <2> QED BY <2>7
<1> QED BY <1>1, <1>2

\* The key that is taken is the oldest.
LEMMA DequeueOrder ==
    ASSUME NEW p \in PdRecord, RingFits(p), p.count > 0
    PROVE  <<p.ring[p.front]>> \o KeysOf(Dequeue(p)) = KeysOf(p)
<1> DEFINE q == Dequeue(p)
           E == Keys \cup {Null}
           k == p.ring[p.front]
<1>1. p.front \in Slots /\ p.front \in Int /\ p.count \in 1 .. KeyRoom /\ p.count \in Nat
      /\ KeyRoom \in Nat /\ KeyRoom > 0 /\ k \in E
  BY EventAssumption DEF PdRecord, Slots
<1>2. q \in PdRecord
  BY DequeueFits
<1>3. q.count = p.count - 1 /\ q.front = (p.front + 1) % KeyRoom
      /\ q.ring = [p.ring EXCEPT ![p.front] = Null]
  BY <1>1, NextSlot DEF Dequeue, PdRecord
<1>4. KeysOf(p) \in Seq(E) /\ <<k>> \in Seq(E) /\ KeysOf(q) \in Seq(E)
      /\ Len(KeysOf(p)) = p.count /\ Len(KeysOf(q)) = p.count - 1 /\ Len(<<k>>) = 1
  BY <1>1, <1>2, <1>3, KeysAre
<1>5. /\ <<k>> \o KeysOf(q) \in Seq(E) /\ Len(<<k>> \o KeysOf(q)) = p.count
      /\ \A i \in 1 .. p.count :
            (<<k>> \o KeysOf(q))[i] = IF i <= 1 THEN <<k>>[i] ELSE KeysOf(q)[i - 1]
  <2>1. 1 + (p.count - 1) = p.count
    BY <1>1
  <2> HIDE DEF E, k
  <2> QED BY <1>4, <2>1, ConcatProperties
<1>6. ASSUME NEW i \in 1 .. p.count
      PROVE  (<<k>> \o KeysOf(q))[i] = KeysOf(p)[i]
  <2>1. KeysOf(p)[i] = p.ring[(p.front + i - 1) % KeyRoom]
    BY KeysAre
  <2>2. CASE i = 1
    <3>1. (p.front + i - 1) % KeyRoom = p.front
      <4>1. p.front + i - 1 = p.front
        BY <1>1, <2>2
      <4>2. p.front % KeyRoom = p.front
        BY <1>1 DEF Slots
      <4> QED BY <4>1, <4>2
    <3>2. (<<k>> \o KeysOf(q))[i] = k
      BY <1>1, <1>5, <2>2
    <3> QED BY <2>1, <3>1, <3>2
  <2>3. CASE i # 1
    <3>1. i - 1 \in 1 .. p.count - 1 /\ ~(i <= 1)
      BY <1>1, <2>3
    <3>2. (<<k>> \o KeysOf(q))[i] = KeysOf(q)[i - 1]
      BY <1>5, <3>1
    <3>3. KeysOf(q)[i - 1] = q.ring[(q.front + (i - 1) - 1) % KeyRoom]
      BY <1>2, <1>3, <3>1, KeysAre
    <3>4. (q.front + (i - 1) - 1) % KeyRoom = (p.front + i - 1) % KeyRoom
      <4>1. p.front + 1 \in Int /\ i - 2 \in Int /\ (p.front + 1) + (i - 2) = p.front + i - 1
        BY <1>1, <3>1
      <4>2. (((p.front + 1) % KeyRoom) + (i - 2)) % KeyRoom = (p.front + i - 1) % KeyRoom
            /\ (p.front + 1) % KeyRoom \in Int
        <5>1. (((p.front + 1) % KeyRoom) + (i - 2)) % KeyRoom = ((p.front + 1) + (i - 2)) % KeyRoom
              /\ (p.front + 1) % KeyRoom \in Slots
          BY <4>1, AddMod
        <5> QED BY <4>1, <5>1 DEF Slots
      <4>3. q.front + (i - 1) - 1 = q.front + (i - 2)
        BY <1>3, <3>1, <4>2
      <4> QED BY <1>3, <4>2, <4>3
    <3>5. (p.front + i - 1) % KeyRoom # p.front /\ (p.front + i - 1) % KeyRoom \in Slots
      <4>1. i - 1 \in 1 .. KeyRoom - 1 /\ p.front + (i - 1) = p.front + i - 1
            /\ p.front + i - 1 \in Int
        BY <1>1, <3>1
      <4>2. p.front % KeyRoom = p.front
        BY <1>1 DEF Slots
      <4>3. (p.front + (i - 1)) % KeyRoom # p.front % KeyRoom
        BY <1>1, <4>1, SlotsDiffer
      <4>4. (p.front + i - 1) % KeyRoom \in Slots
        BY <4>1, AddMod
      <4> QED BY <4>1, <4>2, <4>3, <4>4
    <3> QED BY <1>3, <2>1, <3>2, <3>3, <3>4, <3>5 DEF PdRecord
  <2> QED BY <2>2, <2>3
<1>7. <<k>> \o KeysOf(q) = KeysOf(p)
  <2> HIDE DEF E, k
  <2> QED BY <1>4, <1>5, <1>6, SeqEqual
<1> QED BY <1>7
\* What a wait that is answered gives out and what it leaves is what was there.
LEMMA EndedOrder ==
    ASSUME NEW p \in PdRecord, RingFits(p), NEW what \in SUBSET Flags,
           "KEYBD" \in what => p.count > 0
    PROVE  (IF "KEYBD" \in what THEN <<p.ring[p.front]>> ELSE <<>>) \o KeysOf(Ended(p, what))
              = KeysOf(p)
<1>1. Ended(p, what) \in PdRecord
      /\ SameKeys(IF "KEYBD" \in what THEN Dequeue(p) ELSE p, Ended(p, what))
  BY EndedFits
<1>2. CASE "KEYBD" \in what
  <2>1. Dequeue(p) \in PdRecord
    BY <1>2, DequeueFits
  <2>2. KeysOf(Ended(p, what)) = KeysOf(Dequeue(p))
    BY <1>1, <1>2, <2>1, SameKeysOf
  <2> QED BY <1>2, <2>2, DequeueOrder
<1>3. CASE "KEYBD" \notin what
  <2>1. KeysOf(Ended(p, what)) = KeysOf(p)
    BY <1>1, <1>3, SameKeysOf
  <2>2. KeysOf(p) \in Seq(Keys \cup {Null})
    BY KeysAre
  <2>3. <<>> \o KeysOf(p) = KeysOf(p)
    BY <2>2, ConcatEmptySeq
  <2> QED BY <1>3, <2>1, <2>3
<1> QED BY <1>2, <1>3

\* The keys after Keyed are those before, with at most one more.
LEMMA KeyedOrder ==
    ASSUME NEW p \in PdRecord, RingFits(p), NEW q \in PdRecord, Keyed(p, q)
    PROVE  \E new \in {<<>>} \cup {<<k>> : k \in Keys} : KeysOf(q) = KeysOf(p) \o new
<1>1. KeysOf(p) \in Seq(Keys \cup {Null})
  BY KeysAre
<1>2. KeysOf(p) = KeysOf(p) \o <<>>
  BY <1>1, ConcatEmptySeq
<1>3. CASE SameKeys(p, q)
  <2>1. KeysOf(q) = KeysOf(p)
    BY <1>3, SameKeysOf
  <2> QED BY <1>2, <2>1
<1>4. ASSUME NEW k \in Keys, SameKeys(Enqueue(p, k), q)
      PROVE  KeysOf(q) = KeysOf(p) \/ KeysOf(q) = KeysOf(p) \o <<k>>
  <2>1. Enqueue(p, k) \in PdRecord
    BY EnqueueFits
  <2>2. KeysOf(q) = KeysOf(Enqueue(p, k))
    BY <1>4, <2>1, SameKeysOf
  <2> QED BY <2>2, EnqueueOrder
<1> QED BY <1>2, <1>3, <1>4 DEF Keyed

\* The ring is a FIFO: what a client that stays is given and what is left is
\* what was there, with at most one new key behind.
THEOREM KeysStayInOrder == EventSpec => KeysInOrder
<1> DEFINE given(c) == IF Answered(c) /\ "KEYBD" \in answer'[c].what
                       THEN <<answer'[c].key>> ELSE <<>>
           Ordered(c) == \E new \in {<<>>} \cup {<<k>> : k \in Keys} :
                            given(c) \o KeysOf(ev'.pd[c]) = KeysOf(ev.pd[c]) \o new
<1>1. ASSUME IInv, NEW c \in Channels, ~Answered(c) \/ "KEYBD" \notin answer'[c].what,
             SameKeys(ev.pd[c], ev'.pd[c]), ev'.pd[c] \in PdRecord
      PROVE  Ordered(c)
  <2>1. ev.pd[c] \in PdRecord
    BY <1>1 DEF IInv, Types, EventState
  <2>2. KeysOf(ev'.pd[c]) = KeysOf(ev.pd[c]) /\ KeysOf(ev.pd[c]) \in Seq(Keys \cup {Null})
    BY <1>1, <2>1, SameKeysOf, KeysAre
  <2>3. given(c) = <<>>
    BY <1>1
  <2>4. <<>> \o KeysOf(ev.pd[c]) = KeysOf(ev.pd[c]) \o <<>>
    BY <2>2, ConcatEmptySeq
  <2> HIDE DEF given
  <2> QED BY <2>2, <2>3, <2>4
<1>2. ASSUME IInv, [EventNext]_eventVars, IInv', NEW c \in Channels,
             gen[c] # 0, ev.pd[c].gen = gen[c], gen'[c] = gen[c]
      PROVE  Ordered(c)
  <2>1. ev.pd[c] \in PdRecord /\ RingFits(ev.pd[c]) /\ ev \in EventState
        /\ ev'.pd[c] \in PdRecord /\ answer \in [Channels -> AnswerRecord]
        /\ gen \in [Channels -> 0 .. MaxGeneration]
    BY <1>2 DEF IInv, Types, EventState
  <2>2. SameKeys(ev.pd[c], ev.pd[c])
    BY DEF SameKeys
  <2> HIDE DEF Ordered
  <2>3. CASE UNCHANGED eventVars
    <3>1. ~Answered(c) /\ ev' = ev
      BY <2>3 DEF eventVars, Answered
    <3> QED BY <1>1, <1>2, <2>1, <2>2, <3>1
  <2>4. ASSUME NEW d \in Channels, Attach(d) PROVE Ordered(c)
    <3>1. ~Answered(c) /\ ev' = ev
      BY <2>4 DEF Attach, Answered
    <3> QED BY <1>1, <1>2, <2>1, <2>2, <3>1
  <2>5. ASSUME NEW d \in Channels, ApplExit(d) \/ Hangup(d) PROVE Ordered(c)
    <3>1. /\ ev' = Detached(d) /\ gen' = [gen EXCEPT ![d] = 0]
          /\ answer' = [answer EXCEPT ![d] = NoAnswer]
      BY <2>5 DEF ApplExit, Hangup, DetachEvents
    <3>2. c # d
      BY <1>2, <2>1, <3>1
    <3>3. ev'.pd[c] = ev.pd[c]
      BY <2>1, <3>1, <3>2 DEF Detached, EventState
    <3>4. ~Answered(c)
      BY <2>1, <3>1, <3>2 DEF Answered
    <3> QED BY <1>1, <1>2, <2>1, <2>2, <3>3, <3>4
  <2>6. ASSUME NEW d \in Channels, Return(d) PROVE Ordered(c)
    <3>1. ev' = ev /\ answer' = [answer EXCEPT ![d] = NoAnswer]
      BY <2>6 DEF Return
    <3>2. ~Answered(c)
      BY <2>1, <3>1 DEF Answered
    <3> QED BY <1>1, <1>2, <2>1, <2>2, <3>1, <3>2
  <2>7. ASSUME NEW d \in Channels, NEW rate \in DOMAIN Rates, SetRate(d, rate)
        PROVE  Ordered(c)
    <3>1. ev' = [Bind(ev, d) EXCEPT !.rate = rate] /\ answer' = answer
      BY <2>7 DEF SetRate
    <3>2. ev'.pd[c] = ev.pd[c]
      BY <1>2, <2>1, <3>1 DEF Bind, EventState
    <3>3. ~Answered(c)
      BY <3>1 DEF Answered
    <3> QED BY <1>1, <1>2, <2>1, <2>2, <3>2, <3>3
  <2>8. ASSUME NEW d \in Channels, NEW w \in Waits, Call(d, w) PROVE Ordered(c)
    <3>1. PICK p \in PdRecord, message \in BOOLEAN, n \in {0, ev.mouse.moves} :
             LET s == [ev EXCEPT !.pd = [@ EXCEPT ![d] = p]]
                 what == ReadyMask(s, d, message, TRUE)
             IN  /\ s \in EventState
                 /\ p.gen = gen[d] /\ RingFits(p) /\ p.wait = w /\ ~p.rang
                 /\ ev.pd[d].gen = gen[d] => SameKeys(ev.pd[d], p)
                 /\ IF what = {}
                    THEN ev' = s /\ UNCHANGED answer
                    ELSE /\ ev' = [ev EXCEPT !.pd = [@ EXCEPT ![d] = Ended(p, what)],
                                             !.mouse = [@ EXCEPT !.moves = n]]
                         /\ answer' = [answer EXCEPT ![d] = Result(s, d, what, TRUE)]
      BY <1>2, <2>8, CallIs
    <3>2. PICK s : s = [ev EXCEPT !.pd = [@ EXCEPT ![d] = p]]
      OBVIOUS
    <3>3. PICK what : what = ReadyMask(s, d, message, TRUE)
      OBVIOUS
    <3>4. /\ s \in EventState /\ RingFits(p)
          /\ ev.pd[d].gen = gen[d] => SameKeys(ev.pd[d], p)
          /\ IF what = {}
             THEN ev' = s /\ UNCHANGED answer
             ELSE /\ ev' = [ev EXCEPT !.pd = [@ EXCEPT ![d] = Ended(p, what)],
                                      !.mouse = [@ EXCEPT !.moves = n]]
                  /\ answer' = [answer EXCEPT ![d] = Result(s, d, what, TRUE)]
      BY <3>1, <3>2, <3>3
    <3>5. CASE d # c
      <4>1. ev'.pd[c] = ev.pd[c] /\ answer'[c] = answer[c]
        <5>1. CASE what = {}
          <6>1. ev' = s /\ answer' = answer
            BY <3>4, <5>1
          <6> QED BY <2>1, <3>2, <3>5, <6>1 DEF EventState
        <5>2. CASE what # {}
          <6>1. ev' = [ev EXCEPT !.pd = [@ EXCEPT ![d] = Ended(p, what)],
                                 !.mouse = [@ EXCEPT !.moves = n]]
                /\ answer' = [answer EXCEPT ![d] = Result(s, d, what, TRUE)]
            BY <3>4, <5>2
          <6> QED BY <2>1, <3>5, <6>1 DEF EventState
        <5> QED BY <5>1, <5>2
      <4>2. ~Answered(c)
        BY <4>1 DEF Answered
      <4> QED BY <1>1, <1>2, <2>1, <2>2, <4>1, <4>2
    <3>6. CASE d = c
      <4>1. SameKeys(ev.pd[c], p) /\ s.pd[c] = p
        BY <1>2, <2>1, <3>2, <3>4, <3>6 DEF EventState
      <4>2. CASE what = {}
        <5>1. ev'.pd[c] = p /\ ~Answered(c)
          BY <3>4, <4>1, <4>2 DEF Answered
        <5> QED BY <1>1, <1>2, <4>1, <5>1
      <4>3. CASE what # {}
        <5>1. ev'.pd[c] = Ended(p, what) /\ answer'[c] = Result(s, c, what, TRUE)
          <6>1. ev' = [ev EXCEPT !.pd = [@ EXCEPT ![c] = Ended(p, what)],
                                 !.mouse = [@ EXCEPT !.moves = n]]
                /\ answer' = [answer EXCEPT ![c] = Result(s, c, what, TRUE)]
            BY <3>4, <3>6, <4>3
          <6> QED BY <2>1, <6>1 DEF EventState
        <5>2. TRUE \in BOOLEAN /\ what = ReadyMask(s, c, message, TRUE)
          BY <3>3, <3>6
        <5>3. what \in SUBSET Flags /\ ("KEYBD" \in what => p.count > 0)
          BY <3>4, <4>1, <5>2, MaskFits
        <5>4. answer'[c].what = what /\ answer'[c] # NoAnswer
          BY <3>4, <4>3, <5>1, <5>2, ResultFits
        <5>5. "KEYBD" \in what => answer'[c].key = p.ring[p.front]
          BY <4>1, <5>1 DEF Result
        <5>6. answer[c] = NoAnswer
          BY <2>8, <3>6 DEF Call, CanCall
        <5>7. given(c) = IF "KEYBD" \in what THEN <<p.ring[p.front]>> ELSE <<>>
          BY <5>4, <5>5, <5>6 DEF Answered
        <5>8. given(c) \o KeysOf(ev'.pd[c]) = KeysOf(p)
          BY <3>4, <5>1, <5>3, <5>7, EndedOrder
        <5>9. KeysOf(p) = KeysOf(ev.pd[c]) /\ KeysOf(p) \in Seq(Keys \cup {Null})
          BY <2>1, <4>1, SameKeysOf, KeysAre
        <5>10. KeysOf(p) = KeysOf(p) \o <<>>
          BY <5>9, ConcatEmptySeq
        <5> HIDE DEF given
        <5> QED BY <5>8, <5>9, <5>10 DEF Ordered
      <4> QED BY <4>2, <4>3
    <3> QED BY <3>5, <3>6
  <2>9. ASSUME NEW ms \in {0, TickMs}, Poll(ms) PROVE Ordered(c)
    <3>1. PICK s \in EventState, messages \in SUBSET Channels :
             /\ Fed(s, ms)
             /\ IF Met(s, c, messages) = {}
                THEN ev'.pd[c] = s.pd[c] /\ answer'[c] = answer[c]
                ELSE /\ ev'.pd[c] = Ended(s.pd[c], Met(s, c, messages))
                     /\ answer'[c] = Result(s, c, Met(s, c, messages), FALSE)
                     /\ answer'[c].what = Met(s, c, messages)
                     /\ answer'[c] # NoAnswer
      BY <1>2, <2>9, PollIs
    <3>2. s.pd[c] \in PdRecord /\ RingFits(s.pd[c]) /\ Keyed(ev.pd[c], s.pd[c])
      BY <3>1 DEF Fed, EventState
    <3>3. PICK new \in {<<>>} \cup {<<k>> : k \in Keys} :
             KeysOf(s.pd[c]) = KeysOf(ev.pd[c]) \o new
      BY <2>1, <3>2, KeyedOrder
    <3>4. given(c) \o KeysOf(ev'.pd[c]) = KeysOf(s.pd[c])
      <4>1. CASE Met(s, c, messages) = {}
        <5>1. ev'.pd[c] = s.pd[c] /\ ~Answered(c)
          BY <3>1, <4>1 DEF Answered
        <5>2. KeysOf(s.pd[c]) \in Seq(Keys \cup {Null})
          BY <3>2, KeysAre
        <5> QED BY <5>1, <5>2, ConcatEmptySeq
      <4>2. CASE Met(s, c, messages) # {}
        <5>1. Parked(s, c)
          BY <4>2 DEF Met
        <5>2. Met(s, c, messages) \in SUBSET Flags
              /\ ("KEYBD" \in Met(s, c, messages) => s.pd[c].count > 0)
          BY <5>1, MetFits
        <5>3. answer[c] = NoAnswer
          <6>1. Parked(ev, c)
            BY <3>1, <5>1 DEF Fed, Parked
          <6> QED BY <1>2, <6>1 DEF IInv, WaitersUnanswered
        <5>4. ev'.pd[c] = Ended(s.pd[c], Met(s, c, messages))
              /\ answer'[c] = Result(s, c, Met(s, c, messages), FALSE)
              /\ answer'[c].what = Met(s, c, messages)
              /\ answer'[c] # NoAnswer
          BY <3>1, <4>2
        <5>5. "KEYBD" \in Met(s, c, messages) => answer'[c].key = s.pd[c].ring[s.pd[c].front]
          BY <5>4 DEF Result
        <5>6. given(c) = IF "KEYBD" \in Met(s, c, messages)
                         THEN <<s.pd[c].ring[s.pd[c].front]>> ELSE <<>>
          BY <5>3, <5>4, <5>5 DEF Answered
        <5> HIDE DEF given
        <5> QED BY <3>2, <5>2, <5>4, <5>6, EndedOrder
      <4> QED BY <4>1, <4>2
    <3> HIDE DEF given
    <3> QED BY <3>3, <3>4 DEF Ordered
  <2>10. CASE Poll(0)
    BY <2>9, <2>10
  <2>11. CASE Poll(TickMs)
    BY <2>9, <2>11
  <2> QED BY <1>2, <2>3, <2>4, <2>5, <2>6, <2>7, <2>8, <2>10, <2>11 DEF EventNext
<1>3. IInv /\ [EventNext]_eventVars /\ IInv' =>
         [\A c \in Channels :
             (gen[c] # 0 /\ ev.pd[c].gen = gen[c] /\ gen'[c] = gen[c]) =>
                LET given_1 == IF Answered(c) /\ "KEYBD" \in answer'[c].what
                               THEN <<answer'[c].key>> ELSE <<>>
                IN  \E new \in {<<>>} \cup {<<k>> : k \in Keys} :
                       given_1 \o KeysOf(ev'.pd[c]) = KeysOf(ev.pd[c]) \o new]_eventVars
  BY <1>2
<1> QED BY <1>3, Invariance, PTL DEF EventSpec, KeysInOrder
=============================================================================
