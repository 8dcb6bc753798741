------------------------------- MODULE GemEvent -------------------------------
(***************************************************************************)
(* The EVNT_* waits of the resident AES (gem_event_resident.c) as its tick *)
(* drives them (gem_aes_resident_poll): timers advance, one client is fed  *)
(* an input sample, then each parked wait is looked at once.               *)
(*                                                                         *)
(* The mouse has one button; where it is matters only through the          *)
(* rectangles it is in, so a rectangle is the set of places at which its   *)
(* wait is met, and a jitter of up to two pixels is no movement.  The      *)
(* transition and batch serials are modelled by whether they have changed  *)
(* since a wait was armed.  Coordinates returned to clients are not.       *)
(***************************************************************************)
EXTENDS Integers, Sequences

CONSTANTS
    Channels,
    Null,        \* GEM_EVENT_OWNER_NONE
    Keys,        \* key codes
    KeyRoom,     \* GEM_EVENT_KEY_QUEUE_WORDS, 8 in the code
    Places,      \* mouse positions
    Buttons,     \* states of the mouse button, pressed is 1
    TickMs,      \* gem_event_tick_ms and the time between two ticks
    Rates,       \* gem_event_dclick_rates
    MaxDelay,    \* the largest word, for a delay
    MaxClicks,   \* the largest word, for a click count
    WordBase,    \* 2^16, the base of the two words of a timer
    Waits,       \* the waits clients ask for
    MaxGeneration

Flags == {"KEYBD", "BUTTON", "M1", "M2", "MESAG", "TIMER"}
Opcodes == {"KEYBD", "BUTTON", "MOUSE", "MESAG", "TIMER", "MULTI"}

\* clicks is the low byte of the click word, leave its high byte; one and two
\* are the places where the mouse rectangles are met.
WaitRecord ==
    [op : Opcodes, flags : SUBSET Flags, clicks : Nat, leave : BOOLEAN,
     desired : {0, 1}, one : SUBSET Places, two : SUBSET Places, timer : Nat]

ASSUME EventAssumption ==
    /\ Null \notin Channels \cup Keys
    /\ KeyRoom \in Nat \ {0}
    /\ Places \subseteq Int
    /\ Buttons \subseteq {0, 1}
    /\ WordBase \in Nat \ {0, 1}
    /\ TickMs \in 1 .. WordBase - 1
    /\ MaxDelay \in Nat
    /\ 1 \in DOMAIN Rates
    /\ \A i \in DOMAIN Rates : Rates[i] \in 1 .. MaxDelay
    /\ MaxClicks \in Nat \ {0}
    /\ Waits \subseteq WaitRecord
    /\ \A w \in Waits : w.timer < WordBase * WordBase
    /\ MaxGeneration \in Nat

VARIABLES
    gen,      \* generation of the attached PD of each channel, 0 if none
    nextGen,
    answer,   \* what a finished call of each channel returns, until it is sent
    due,      \* an AES request was handled, the poll after it is due
    ev        \* the state of the event manager, the record below

eventVars == <<gen, nextGen, answer, due, ev>>

NoWait == [op |-> "none", flags |-> {}, clicks |-> 0, leave |-> FALSE,
           desired |-> 0, one |-> {}, two |-> {}, timer |-> 0]
NoAnswer == [what |-> {}, key |-> Null, clicks |-> 0]
NoBatch == [delay |-> 0, owner |-> Null, gen |-> 0, desired |-> 0, count |-> 0]

\* gem_event_clear_pd
FreePd == [gen |-> 0, wait |-> NoWait, edged |-> FALSE, batched |-> FALSE,
           lo |-> 0, hi |-> 0, rang |-> FALSE,
           ring |-> [i \in 0 .. KeyRoom - 1 |-> Null],
           front |-> 0, rear |-> 0, count |-> 0]

\* gem_event_resident_reset
EventInit ==
    /\ gen = [c \in Channels |-> 0]
    /\ nextGen = 1
    /\ answer = [c \in Channels |-> NoAnswer]
    /\ due = FALSE
    /\ ev = [pd    |-> [c \in Channels |-> FreePd],
             mouse |-> [valid |-> FALSE, owner |-> Null, gen |-> 0,
                        place |-> 0, button |-> 0, clicks |-> 0,
                        moves |-> 0, oldButton |-> 0, oldClicks |-> 0],
             batch |-> NoBatch,                             \* being counted
             done  |-> NoBatch,      \* the last finished
             rate  |-> 1]

Least2(a, b) == IF a < b THEN a ELSE b

Parked(s, c) == s.pd[c].wait # NoWait

----------------------------------------------------------------------------
(* The key ring *)

\* Mutant: the rear does not wrap at the end of the ring but one before it.
EnqueueShort(p, k) ==
    IF p.count >= KeyRoom THEN p
    ELSE [p EXCEPT !.ring[p.rear] = k,
                   !.rear = IF @ + 1 >= KeyRoom - 1 THEN 0 ELSE @ + 1,
                   !.count = @ + 1]

\* gem_event_enqueue_key: a full ring drops the key.
Enqueue(p, k) ==
    IF p.count >= KeyRoom THEN p
    ELSE [p EXCEPT !.ring[p.rear] = k,
                   !.rear = IF @ + 1 = KeyRoom THEN 0 ELSE @ + 1,
                   !.count = @ + 1]

\* gem_event_dequeue_key
Dequeue(p) ==
    [p EXCEPT !.ring[p.front] = Null,
              !.front = IF @ + 1 = KeyRoom THEN 0 ELSE @ + 1,
              !.count = @ - 1]

----------------------------------------------------------------------------
(* Transitions and click batches *)

\* A new transition serial: every wait armed before sees that it changed.
Edge(s) ==
    [s EXCEPT !.pd = [c \in Channels |->
                         [s.pd[c] EXCEPT !.edged = @ \/ Parked(s, c)]]]

\* Mutant: the batch serial does not change.
FinishBatchUnseen(s) ==
    LET b == s.batch
    IN  IF b.delay = 0 THEN s
        ELSE [s EXCEPT
                !.batch = NoBatch,
                !.done = [b EXCEPT !.delay = 0],
                !.mouse = IF b.desired # @.button
                          THEN [@ EXCEPT !.oldButton = b.desired,
                                         !.oldClicks = b.count,
                                         !.moves = 2, !.clicks = 1]
                          ELSE [@ EXCEPT !.clicks = b.count]]

\* gem_event_finish_click_batch.  If the button has moved on, the state of
\* the batch becomes the previous transition.
FinishBatch(s) ==
    LET b == s.batch
        seen == [c \in Channels |->
                    [s.pd[c] EXCEPT !.batched = @ \/ Parked(s, c)]]
    IN  IF b.delay = 0 THEN s
        ELSE [s EXCEPT
                !.pd = seen,
                !.batch = NoBatch,
                !.done = [b EXCEPT !.delay = 0],
                !.mouse = IF b.desired # @.button
                          THEN [@ EXCEPT !.oldButton = b.desired,
                                         !.oldClicks = b.count,
                                         !.moves = 2, !.clicks = 1]
                          ELSE [@ EXCEPT !.clicks = b.count]]

OwnsInput(s, c) ==
    s.mouse.valid /\ s.mouse.owner = c /\ s.mouse.gen = s.pd[c].gen

\* gem_event_has_multiclick_wait
WantsClicks(s, c) ==
    "BUTTON" \in s.pd[c].wait.flags /\ s.pd[c].wait.clicks > 1

\* A repeated click extends the batch by three ticks, counted one by one with
\* gem_event_millisecond_add, which stops at the largest word.
CountClick(b) ==
    [b EXCEPT !.count = Least2(@ + 1, MaxClicks),
              !.delay = Least2(@ + 3 * TickMs, MaxDelay)]

\* The transition is published at once.
Publish(m) ==
    [m EXCEPT !.oldButton = m.button, !.oldClicks = m.clicks,
              !.moves = Least2(@ + 1, 2), !.clicks = 1]

\* What a sample does to transitions and batches.
Transition(s, c, x) ==
    LET changed == s.mouse.valid /\ x.button # s.mouse.button
        b == s.batch
    IN  IF ~OwnsInput(s, c)
        THEN [Edge(s) EXCEPT !.batch = NoBatch, !.mouse.moves = 0]
        ELSE IF ~changed THEN s
        ELSE IF b.delay > 0
        THEN [Edge(s) EXCEPT !.batch = IF x.button = b.desired
                                       THEN CountClick(b) ELSE b]
        ELSE IF x.button # 0 /\ WantsClicks(s, c)
        THEN [Edge(s) EXCEPT !.batch = [delay |-> Rates[s.rate], owner |-> c,
                                        gen |-> s.pd[c].gen,
                                        desired |-> x.button, count |-> 1]]
        ELSE [Edge(s) EXCEPT !.mouse = Publish(@)]

MovedAway(p, q) == p - q > 2 \/ q - p > 2

\* gem_event_resident_input: a sample for the PD of channel c, which must
\* have made an EVNT_* call before.
Input(s, c, x) ==
    LET m == s.mouse
        t == IF m.valid /\ MovedAway(m.place, x.place) THEN FinishBatch(s) ELSE s
        u == Transition(t, c, x)
        v == [u EXCEPT !.mouse = [@ EXCEPT !.valid = TRUE, !.owner = c,
                                           !.gen = gen[c], !.place = x.place,
                                           !.button = x.button]]
    IN  IF s.pd[c].gen # gen[c] THEN s
        ELSE IF x.key = Null THEN v
        ELSE [v EXCEPT !.pd[c] = Enqueue(@, x.key)]

----------------------------------------------------------------------------
(* Timers *)

\* Mutant: no borrow from the high word.
CountDownNoBorrow(p, ms) ==
    IF p.hi = 0 /\ p.lo <= ms THEN [p EXCEPT !.lo = 0, !.hi = 0, !.rang = TRUE]
    ELSE [p EXCEPT !.lo = (@ - ms) % WordBase]

\* Mutant: no stop at zero.
CountDownUnclamped(p, ms) ==
    IF p.hi = 0 /\ p.lo = ms THEN [p EXCEPT !.lo = 0, !.hi = 0, !.rang = TRUE]
    ELSE [p EXCEPT !.lo = (@ - ms) % WordBase,
                   !.hi = IF p.lo < ms THEN (@ - 1) % WordBase ELSE @]

\* gem_event_timer_subtract on the two words.
CountDown(p, ms) ==
    IF p.hi = 0 /\ p.lo <= ms THEN [p EXCEPT !.lo = 0, !.hi = 0, !.rang = TRUE]
    ELSE [p EXCEPT !.lo = (@ - ms) % WordBase,
                   !.hi = IF p.lo < ms THEN @ - 1 ELSE @]

\* gem_event_resident_tick
Tick(s, ms) ==
    LET t == IF s.batch.delay <= ms THEN FinishBatch(s)
             ELSE [s EXCEPT !.batch.delay = @ - ms]
        running(p) == "TIMER" \in p.wait.flags /\ ~p.rang
    IN  [t EXCEPT !.pd = [c \in Channels |->
            IF running(t.pd[c]) THEN CountDown(t.pd[c], ms) ELSE t.pd[c]]]

----------------------------------------------------------------------------
(* Waits *)

\* gem_event_button_ready
ButtonReady(w, button) == (button = w.desired) # w.leave

\* The clicks a wait for the button reports, as a set of at most one: a new
\* wait looks at the state and the previous transition, a parked one at
\* what has changed since it was armed.
ButtonClicks(s, c, quick) ==
    LET p == s.pd[c]
        w == p.wait
        m == s.mouse
        d == s.done
    IN  IF quick
        THEN IF m.moves > 1 /\ ButtonReady(w, m.oldButton) THEN {m.oldClicks}
             ELSE IF ButtonReady(w, m.button) THEN {m.clicks}
             ELSE {}
        ELSE IF w.clicks > 1
        THEN IF ~(p.batched /\ d.owner = c /\ d.gen = p.gen) THEN {}
             ELSE IF ButtonReady(w, d.desired) THEN {Least2(d.count, w.clicks)}
             ELSE IF ButtonReady(w, m.button) THEN {1}
             ELSE {}
        ELSE IF p.edged /\ ButtonReady(w, m.button)
        THEN {Least2(m.clicks, w.clicks)}
        ELSE {}

\* gem_event_ready_mask: what of the wait is met.
ReadyMask(s, c, message, quick) ==
    LET p == s.pd[c]
        w == p.wait
    IN  {f \in w.flags :
            \/ f = "KEYBD" /\ p.count > 0
            \/ f = "BUTTON" /\ OwnsInput(s, c) /\ ButtonClicks(s, c, quick) # {}
            \/ f = "M1" /\ OwnsInput(s, c) /\ s.mouse.place \in w.one
            \/ f = "M2" /\ OwnsInput(s, c) /\ s.mouse.place \in w.two
            \/ f = "MESAG" /\ message
            \/ f = "TIMER" /\ (p.rang \/ (p.lo = 0 /\ p.hi = 0))}

\* gem_event_build_result.  EVNT_BUTTON met at once returns one click.
Result(s, c, what, quick) ==
    [what   |-> what,
     key    |-> IF "KEYBD" \in what THEN s.pd[c].ring[s.pd[c].front] ELSE Null,
     clicks |-> IF "BUTTON" \notin what THEN 0
                ELSE IF quick /\ s.pd[c].wait.op = "BUTTON" THEN 1
                ELSE CHOOSE n \in ButtonClicks(s, c, quick) : TRUE]

\* A met wait is over, and so is the pending transition of its client.
EndWait(s, c, what) ==
    LET p == IF "KEYBD" \in what THEN Dequeue(s.pd[c]) ELSE s.pd[c]
    IN  [s EXCEPT
            !.pd[c] = [p EXCEPT !.wait = NoWait, !.edged = FALSE,
                                !.batched = FALSE, !.rang = FALSE,
                                !.lo = 0, !.hi = 0],
            !.mouse.moves = IF OwnsInput(s, c) THEN 0 ELSE @]

\* gem_event_bind_pd: a reused channel loses what the old client left.
Bind(s, c) ==
    IF s.pd[c].gen = gen[c] THEN s
    ELSE [s EXCEPT !.pd[c] = [FreePd EXCEPT !.gen = gen[c]]]

\* gem_event_begin_wait; EVNT_TIMER of zero waits for one tick.
Armed(s, c, w) ==
    LET ms == IF w.op = "TIMER" /\ w.timer = 0 THEN TickMs ELSE w.timer
    IN  [s EXCEPT !.pd[c] = [@ EXCEPT !.wait = w, !.rang = FALSE,
                                      !.lo = ms % WordBase, !.hi = ms \div WordBase]]

----------------------------------------------------------------------------
(* Actions *)

\* APPL_INIT; gem_server_dispatch polls right after every AES request.
Attach(c) ==
    /\ ~due
    /\ gen[c] = 0
    /\ nextGen <= MaxGeneration
    /\ gen' = [gen EXCEPT ![c] = nextGen]
    /\ nextGen' = nextGen + 1
    /\ due' = TRUE
    /\ UNCHANGED <<answer, ev>>

\* Mutant: the input state is not given up with the client.
DetachedKeepsInput(c) == [ev EXCEPT !.pd[c] = FreePd]

\* gem_event_resident_detach of a client that has made an EVNT_* call.
Detached(c) ==
    LET mine == ev.batch.owner = c /\ ev.batch.gen = gen[c]
    IN  IF ev.pd[c].gen # gen[c] THEN ev
        ELSE [ev EXCEPT
                 !.pd[c] = FreePd,
                 !.mouse = IF OwnsInput(ev, c)
                           THEN [@ EXCEPT !.valid = FALSE, !.owner = Null,
                                          !.moves = 0]
                           ELSE @,
                 !.batch = IF mine THEN NoBatch ELSE @]

\* The client is attached and not in a call already.
CanCall(c) == ~due /\ gen[c] # 0 /\ ~Parked(ev, c) /\ answer[c] = NoAnswer

DetachEvents(c) ==
    /\ ev' = Detached(c)
    /\ gen' = [gen EXCEPT ![c] = 0]
    /\ answer' = [answer EXCEPT ![c] = NoAnswer]
    /\ UNCHANGED nextGen

\* APPL_EXIT is a request, the end of a connection is not.
ApplExit(c) == CanCall(c) /\ DetachEvents(c) /\ due' = TRUE
Hangup(c) == ~due /\ gen[c] # 0 /\ DetachEvents(c) /\ UNCHANGED due

\* gem_event_resident_dispatch of a wait: answered at once or parked.
Call(c, w) ==
    /\ CanCall(c)
    /\ \E message \in {FALSE, "MESAG" \in w.flags} :
          LET s == Armed(Bind(ev, c), c, w)
              what == ReadyMask(s, c, message, TRUE)
          IN  IF what = {}
              THEN ev' = s /\ UNCHANGED answer
              ELSE /\ ev' = EndWait(s, c, what)
                   /\ answer' = [answer EXCEPT ![c] = Result(s, c, what, TRUE)]
    /\ due' = TRUE
    /\ UNCHANGED <<gen, nextGen>>

\* EVNT_DCLICK
SetRate(c, rate) ==
    /\ CanCall(c)
    /\ ev' = [Bind(ev, c) EXCEPT !.rate = rate]
    /\ due' = TRUE
    /\ UNCHANGED <<gen, nextGen, answer>>

\* gem_resident_event_progress: each parked wait once.  A wait clears only
\* its own state and the pending transition of its own input, so the order
\* of the channels does not matter.
Serve(s, messages) ==
    LET what == [c \in Channels |->
                    IF Parked(s, c) THEN ReadyMask(s, c, c \in messages, FALSE)
                    ELSE {}]
        met == {c \in Channels : what[c] # {}}
    IN  /\ ev' = [s EXCEPT
                     !.pd = [c \in Channels |->
                                IF c \in met THEN EndWait(s, c, what[c]).pd[c]
                                ELSE s.pd[c]],
                     !.mouse.moves = IF \E c \in met : OwnsInput(s, c) THEN 0 ELSE @]
        /\ answer' = [c \in Channels |->
                         IF c \in met THEN Result(s, c, what[c], FALSE)
                         ELSE answer[c]]

Samples == [place : Places, button : Buttons, key : Keys \cup {Null}]

\* gem_aes_resident_poll on the timer, or after any AES request (ms is 0):
\* with a sample for one client, or with none that gets as far as this.
Poll(ms) ==
    /\ due => ms = 0
    /\ due' = FALSE
    /\ \E messages \in SUBSET {c \in Channels : "MESAG" \in ev.pd[c].wait.flags} :
          LET s == IF ms > 0 THEN Tick(ev, ms) ELSE ev
          IN  \/ Serve(s, messages)
              \/ \E c \in {d \in Channels : gen[d] # 0}, x \in Samples :
                    Serve(Input(s, c, x), messages)
    /\ UNCHANGED <<gen, nextGen>>

\* The answer is sent to the client.
Return(c) ==
    /\ ~due
    /\ answer[c] # NoAnswer
    /\ answer' = [answer EXCEPT ![c] = NoAnswer]
    /\ UNCHANGED <<gen, nextGen, due, ev>>

EventNext ==
    \/ \E c \in Channels :
          \/ Attach(c)
          \/ ApplExit(c)
          \/ Hangup(c)
          \/ \E w \in Waits : Call(c, w)
          \/ \E rate \in DOMAIN Rates : SetRate(c, rate)
          \/ Return(c)
    \/ Poll(0)
    \/ Poll(TickMs)

EventSpec == EventInit /\ [][EventNext]_eventVars

\* The poll that a request makes due always comes, and the loop of the server
\* looks at its timer in every round, however many requests it reads in
\* between.  Nothing is assumed of the input: a poll need not bring a sample.
DuePoll == due /\ Poll(0)

EventFairSpec == EventSpec /\ WF_eventVars(DuePoll) /\ SF_eventVars(Poll(TickMs))

----------------------------------------------------------------------------
(* Properties *)

EventTypeOK ==
    /\ gen \in [Channels -> 0 .. MaxGeneration]
    /\ nextGen \in 1 .. MaxGeneration + 1
    /\ \A c \in Channels :
          /\ ev.pd[c].wait \in Waits \cup {NoWait}
          /\ ev.pd[c].lo \in 0 .. WordBase - 1
          /\ ev.pd[c].hi \in 0 .. WordBase - 1
          /\ ev.pd[c].count \in 0 .. KeyRoom
    /\ ev.batch.delay \in 0 .. MaxDelay
    /\ ev.batch.count \in 0 .. MaxClicks
    /\ ev.rate \in DOMAIN Rates

\* The keys in the ring, oldest first.
KeysOf(p) == [i \in 1 .. p.count |-> p.ring[(p.front + i - 1) % KeyRoom]]

\* Whether channel c gets an answer in this step.
Answered(c) == answer[c] = NoAnswer /\ answer'[c] # NoAnswer

\* The ring is a FIFO: in every step of a client that stays, what it is
\* given and what is left is what was there, with at most one new key behind.
KeysInOrder ==
    [][\A c \in Channels :
          (gen[c] # 0 /\ ev.pd[c].gen = gen[c] /\ gen'[c] = gen[c]) =>
             LET given == IF Answered(c) /\ "KEYBD" \in answer'[c].what
                          THEN <<answer'[c].key>> ELSE <<>>
             IN  \E new \in {<<>>} \cup {<<k>> : k \in Keys} :
                    given \o KeysOf(ev'.pd[c]) = KeysOf(ev.pd[c]) \o new]_eventVars

\* A double click is not lost: when the delay of a batch runs out and its
\* client still has the input and the wait, that wait is answered in that
\* very poll, with the clicks counted, or as many as it asked for.
BatchIsReported ==
    [][\A c \in Channels :
          LET w == ev.pd[c].wait
          IN  (/\ ev.batch.delay > 0 /\ ev'.batch.delay = 0
               /\ OwnsInput(ev, c) /\ OwnsInput(ev', c)
               /\ WantsClicks(ev, c)
               /\ ButtonReady(w, ev.batch.desired))
              => /\ Answered(c) /\ "BUTTON" \in answer'[c].what
                 /\ answer'[c].clicks = Least2(ev.batch.count, w.clicks)]_eventVars

TimeLeft(p) == p.hi * WordBase + p.lo

\* The two words of a timer count down like a number, no timer fires before
\* its time, and none is still waited for when it has come down to zero.
TimersAreExact ==
    [][\A c \in Channels :
          (Parked(ev, c) /\ "TIMER" \in ev.pd[c].wait.flags) =>
             LET left == TimeLeft(ev.pd[c])
             IN  /\ Parked(ev', c) =>
                       TimeLeft(ev'.pd[c]) \in {left, left - TickMs} \ {0}
                 /\ (Answered(c) /\ "TIMER" \in answer'[c].what) =>
                       left <= TickMs]_eventVars

\* The input state belongs to a client that is attached now, and the clicks
\* being counted are clicks of that client.
InputIsCurrent ==
    /\ ev.mouse.valid =>
          ev.mouse.owner # Null /\ gen[ev.mouse.owner] = ev.mouse.gen
    /\ ev.batch.delay > 0 =>
          /\ ev.mouse.valid
          /\ ev.batch.owner = ev.mouse.owner /\ ev.batch.gen = ev.mouse.gen

\* Words stay words, the ring holds its keys, and the input state is that of
\* the client it is for.
EventSafety == EventTypeOK /\ InputIsCurrent

\* A wait with a timer ends.
TimersEnd ==
    \A c \in Channels :
        (Parked(ev, c) /\ "TIMER" \in ev.pd[c].wait.flags) ~> ~Parked(ev, c)
=============================================================================
