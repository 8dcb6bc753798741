------------------------------ MODULE GemCalls ------------------------------
(***************************************************************************)
(* The parked calls of the resident AES (gem_pending.c, the pending part   *)
(* of gem_aes_resident.c, gem_aes_tick.c).                                 *)
(*                                                                         *)
(* Each client channel has one request slot.  A call that cannot finish is *)
(* parked in it - APPL_READ and APPL_WRITE on a FIFO of the target's       *)
(* message queue, BEG_UPDATE on the screen lock's FIFO, EVNT_* and modal   *)
(* FORM/GRAF calls on nothing but the tick - and is finished later by      *)
(* whatever some other call, the tick, or the death of some other client   *)
(* does; then it waits on the READY list for the server's reply.           *)
(*                                                                         *)
(* The server is one loop, so a request handler runs to its end, followed  *)
(* by one poll (phase "poll").  Data are byte counts: which bytes a queue  *)
(* holds is not modelled.  Where windows overlap is not modelled either:   *)
(* a redraw may concern any set of attached PDs, one message each.  That a *)
(* startup record can be bound to an old generation is proved not to      *)
(* matter in GemUpdateLock (BindIsHarmless in GemScreenProofs), so the     *)
(* lock is an owner and a depth.                                           *)
(***************************************************************************)
EXTENDS GemFifo, Integers, FiniteSets

CONSTANTS
    ChannelCount,   \* GEM_CHANNEL_COUNT, 6 in the code
    Channels,       \* the channels clients use; channel 1 is the AES itself
    NONE,           \* GEM_PENDING_NONE and GEM_STARTUP_OWNER_NONE
    QueueBytes,     \* GEM_RESIDENT_QUEUE_BYTES, 128 in the code
    MessageBytes,   \* one AES message, 16 in the code
    Lengths,        \* the lengths clients read and write
    MaxDepth,       \* the largest update_depth, 0xffff in the code
    MaxGeneration,  \* bound on the generations the server hands out
    Used            \* the kinds of call the clients make

ASSUME ChannelsAssumption ==
    /\ ChannelCount \in Nat
    /\ Channels \subseteq 0 .. ChannelCount - 1
    /\ NONE \notin Channels
Kinds == {"QUEUE", "EVENT", "WINDOW", "UPDATE", "FORM", "REINIT"}

ASSUME SizesAssumption ==
    /\ QueueBytes \in Nat
    /\ MessageBytes \in 1 .. QueueBytes
    /\ Lengths \subseteq 1 .. QueueBytes
    /\ MaxDepth \in Nat \ {0}
    /\ MaxGeneration \in Nat
    /\ Used \subseteq Kinds

VARIABLES
    conn,     \* generation of the server's connection per channel, 0 if none
    nextGen,  \* the server's generation counter
    phase,    \* "poll" between a request and the poll that follows it
    aes       \* the resident's own state, the record below

vars == <<conn, nextGen, phase, aes>>

\* gem_pending_clear
FreeSlot == [state |-> "FREE", op |-> "none", target |-> NONE, len |-> 0,
             gen |-> 0, tgen |-> 0, result |-> "none"]

Init ==
    /\ conn = [c \in Channels |-> 0]
    /\ nextGen = 1
    /\ phase = "idle"
    /\ aes = [gen     |-> [c \in Channels |-> 0],   \* attached PD, 0 if FREE
              queue   |-> [c \in Channels |-> 0],   \* queue_index
              readers |-> [c \in Channels |-> <<>>],
              writers |-> [c \in Channels |-> <<>>],
              slot    |-> [c \in Channels |-> FreeSlot],
              ready   |-> <<>>,
              owner   |-> NONE,                     \* the update lock
              depth   |-> 0,
              line    |-> <<>>]                     \* its waiters

----------------------------------------------------------------------------
(* Slots and lists *)

\* A loop over all channels in ascending order.
ForEachChannel(Body(_, _), s) ==
    LET after[n \in 0 .. ChannelCount] ==
            IF n = 0 THEN s
            ELSE IF n - 1 \in Channels THEN Body(after[n - 1], n - 1)
            ELSE after[n - 1]
    IN  after[ChannelCount]

\* n turns of a loop body.
Repeat(Body(_), s, n) ==
    LET turn[i \in 0 .. n] == IF i = 0 THEN s ELSE Body(turn[i - 1])
    IN  turn[n]

Parked(s, c, op) == s.slot[c].state = "WAITING" /\ s.slot[c].op = op

\* gem_pending_park.  tgen, the generation of the target at that moment, is
\* not in the code: the properties compare it with the target of later.
Park(s, c, op, target, len) ==
    [s EXCEPT !.slot[c] = [state |-> "WAITING", op |-> op, target |-> target,
                           len |-> len, gen |-> s.gen[c],
                           tgen |-> s.gen[target], result |-> "none"]]

Finished(p, result) ==
    [FreeSlot EXCEPT !.state = "READY", !.gen = p.gen, !.result = result]

\* gem_pending_complete, gem_pending_finish_words.  Nothing looks at the
\* operation and the target of a READY slot, so they are forgotten here.
Complete(s, c, result) ==
    [s EXCEPT !.slot[c] = Finished(@, result), !.ready = Append(@, c)]

----------------------------------------------------------------------------
(* Message queues *)

\* Mutant: the pump serves readers only.
PumpReadersOnce(s, t) ==
    LET r == s.readers[t]
    IN  IF r # <<>> /\ s.slot[Head(r)].len <= s.queue[t]
        THEN Complete([s EXCEPT !.readers[t] = Tail(r),
                                !.queue[t] = @ - s.slot[Head(r)].len],
                      Head(r), "done")
        ELSE s

\* Mutant: the pump serves the newest reader that it can.
PumpNewestOnce(s, t) ==
    LET fits == {i \in DOMAIN s.readers[t] :
                    s.slot[s.readers[t][i]].len <= s.queue[t]}
        c == s.readers[t][CHOOSE i \in fits : \A j \in fits : j <= i]
    IN  IF fits # {}
        THEN Complete([s EXCEPT !.readers[t] = Without(@, c),
                                !.queue[t] = @ - s.slot[c].len], c, "done")
        ELSE s

\* One turn of gem_resident_queue_progress: the oldest reader, if the queue
\* has enough for it, or else the oldest writer, if the queue has room.
PumpOnce(s, t) ==
    LET r == s.readers[t]
        w == s.writers[t]
    IN  IF r # <<>> /\ s.slot[Head(r)].len <= s.queue[t]
        THEN Complete([s EXCEPT !.readers[t] = Tail(r),
                                !.queue[t] = @ - s.slot[Head(r)].len],
                      Head(r), "done")
        ELSE IF w # <<>> /\ s.slot[Head(w)].len <= QueueBytes - s.queue[t]
        THEN Complete([s EXCEPT !.writers[t] = Tail(w),
                                !.queue[t] = @ + s.slot[Head(w)].len],
                      Head(w), "done")
        ELSE s

\* gem_resident_queue_progress, its passes capped at the channel count.
QueueProgress(s, t) == Repeat(LAMBDA u : PumpOnce(u, t), s, ChannelCount)

\* Room for one message in the queue of every PD concerned.
RoomFor(s, pds) ==
    \A d \in pds : s.gen[d] # 0 /\ MessageBytes <= QueueBytes - s.queue[d]

\* gem_resident_window_apply_effects: all of the messages or none, then the
\* pump of every queue that got one.
Deliver(s, pds) ==
    LET filled == [s EXCEPT !.queue =
                      [d \in Channels |->
                          IF d \in pds THEN @[d] + MessageBytes ELSE @[d]]]
    IN  ForEachChannel(LAMBDA u, d : IF d \in pds THEN QueueProgress(u, d) ELSE u,
                       filled)

Post(s, pds) == IF RoomFor(s, pds) THEN Deliver(s, pds) ELSE s

----------------------------------------------------------------------------
(* The update lock *)

LiveWaiter(s, c) ==
    Parked(s, c, "UPDATE") /\ s.gen[c] # 0 /\ s.slot[c].gen = s.gen[c]

\* A head whose slot is no parked BEG_UPDATE is unlinked; one of a reused
\* channel is failed as well.
DropStaleHead(s) ==
    IF s.line = <<>> \/ LiveWaiter(s, Head(s.line)) THEN s
    ELSE LET c == Head(s.line)
             unlinked == [s EXCEPT !.line = Tail(@)]
         IN  IF Parked(s, c, "UPDATE") THEN Complete(unlinked, c, "failed")
             ELSE unlinked

\* gem_resident_update_progress
UpdateProgress(s) ==
    LET t == Repeat(DropStaleHead, s, ChannelCount)
    IN  IF t.line = <<>> \/ t.owner # NONE THEN t
        ELSE Complete([t EXCEPT !.owner = Head(t.line), !.depth = 1,
                                !.line = Tail(@)],
                      Head(t.line), "done")

BeginUpdate(s, c) == [s EXCEPT !.owner = c, !.depth = @ + 1]

\* Mutant: the lock is freed and not handed on.
EndUpdateAlone(s, c) ==
    IF s.owner # c THEN s
    ELSE IF s.depth > 1 THEN [s EXCEPT !.depth = @ - 1]
    ELSE [s EXCEPT !.depth = 0, !.owner = NONE]

\* END_UPDATE of one level; refused to anybody but the owner.
EndUpdate(s, c) ==
    IF s.owner # c THEN s
    ELSE IF s.depth > 1 THEN UpdateProgress([s EXCEPT !.depth = @ - 1])
    ELSE UpdateProgress([s EXCEPT !.depth = 0, !.owner = NONE])

----------------------------------------------------------------------------
(* Modal forms.  A FORM call (or GRAF tracker) is held while its form is    *)
(* open; len is 1 for an alert, whose background must be redrawn at its end.*)

\* gem_resident_form_apply_effects at the end of a form: the redraw first,
\* which a full queue refuses; the lock level goes back either way.
WindDown(s, c, pds) ==
    LET isAlert == s.slot[c].len = 1
        redrawn == ~isAlert \/ RoomFor(s, pds)
        t == IF isAlert /\ redrawn THEN Deliver(s, pds) ELSE s
    IN  [state |-> EndUpdate(t, c), drawn |-> redrawn]

\* gem_resident_form_complete: the answer, or -1 if the redraw was refused.
Settle(s, c, pds) ==
    LET down == WindDown(s, c, pds)
    IN  Complete(down.state, c, IF down.drawn THEN "done" ELSE "failed")

----------------------------------------------------------------------------
(* Event waits; len is 1 when the wait includes messages (MU_MESAG).        *)

\* gem_resident_event_message
TakeMessage(s, c) ==
    QueueProgress([s EXCEPT !.queue[c] = @ - MessageBytes], c)

EventComplete(s, c, fired) ==
    IF ~Parked(s, c, "EVENT") THEN s
    ELSE IF s.slot[c].len = 1 /\ s.queue[c] >= MessageBytes
    THEN Complete(TakeMessage(s, c), c, "done")
    ELSE IF c \in fired THEN Complete(s, c, "done")
    ELSE s

\* Mutant: the last channel is left out of the loop.
EventProgressShort(s, fired) ==
    ForEachChannel(LAMBDA t, c : IF c < ChannelCount - 1
                                 THEN EventComplete(t, c, fired) ELSE t, s)

\* gem_resident_event_progress: every parked wait once.  fired are the waits
\* whose key, button, mouse or timer part is met.
EventProgress(s, fired) ==
    ForEachChannel(LAMBDA t, c : EventComplete(t, c, fired), s)

----------------------------------------------------------------------------
(* Teardown *)

\* Take a parked call off the FIFO it is on.
Unlink(s, c) ==
    LET p == s.slot[c]
    IN  CASE p.op = "UPDATE" -> [s EXCEPT !.line = Without(@, c)]
          [] p.op = "READ"   -> [s EXCEPT !.readers[p.target] = Without(@, c)]
          [] p.op = "WRITE"  -> [s EXCEPT !.writers[p.target] = Without(@, c)]
          [] OTHER           -> s

\* Mutant: only the dying channel's own request is swept.
SweepOwn(s, dying, c) ==
    IF s.slot[c].state = "WAITING" /\ c = dying
    THEN [Unlink(s, c) EXCEPT !.slot[c] = FreeSlot]
    ELSE IF s.slot[c].state = "READY" /\ c = dying
    THEN [s EXCEPT !.ready = Without(@, c), !.slot[c] = FreeSlot]
    ELSE s

\* What the death of a channel does to the slot of channel c: its own
\* request is cancelled, one parked on the dying PD's queue is failed.
Sweep(s, dying, c) ==
    LET p == s.slot[c]
    IN  IF p.state = "WAITING" /\ (c = dying \/ p.target = dying)
        THEN IF c = dying
             THEN [Unlink(s, c) EXCEPT !.slot[c] = FreeSlot]
             ELSE Complete(Unlink(s, c), c, "failed")
        ELSE IF p.state = "READY" /\ c = dying
        THEN [s EXCEPT !.ready = Without(@, c), !.slot[c] = FreeSlot]
        ELSE s

\* gem_resident_drop_channel after the form is wound down.
Drop(s, c) ==
    [ForEachChannel(LAMBDA t, x : Sweep(t, c, x), s) EXCEPT
        !.queue[c] = 0, !.readers[c] = <<>>, !.writers[c] = <<>>]

\* The rest of gem_resident_detach and gem_aes_resident_exit: the windows
\* uncovered are redrawn if there is room, the lock goes to the next in
\* line, the PD is cleared.
Detach(s, c, pds) ==
    LET redrawn == Post(s, pds)
        released == IF redrawn.owner = c
                    THEN [redrawn EXCEPT !.owner = NONE, !.depth = 0]
                    ELSE redrawn
    IN  [UpdateProgress(released) EXCEPT
            !.gen[c] = 0, !.queue[c] = 0,
            !.readers[c] = <<>>, !.writers[c] = <<>>]

----------------------------------------------------------------------------
(* Requests *)

Attached == {c \in Channels : aes.gen[c] # 0}

\* gem_resident_pd_for_request finds the PD of this very connection, and no
\* earlier call of the client is held.
CanCall(c) ==
    /\ phase = "idle"
    /\ conn[c] # 0
    /\ aes.gen[c] = conn[c]
    /\ aes.slot[c].state = "FREE"

\* A request was handled; gem_server_dispatch polls before anything else.
Handled(s) ==
    /\ aes' = s
    /\ phase' = "poll"
    /\ UNCHANGED <<conn, nextGen>>

\* The server accepts a connection on a free channel.
Connect(c) ==
    /\ phase = "idle"
    /\ conn[c] = 0
    /\ nextGen <= MaxGeneration
    /\ conn' = [conn EXCEPT ![c] = nextGen]
    /\ nextGen' = nextGen + 1
    /\ UNCHANGED <<phase, aes>>

\* APPL_INIT attaches a FREE PD only.
ApplInit(c) ==
    /\ phase = "idle"
    /\ conn[c] # 0
    /\ aes.gen[c] = 0
    /\ Handled([aes EXCEPT !.gen[c] = conn[c]])

\* A second APPL_INIT changes nothing, but if its XBUF does not check out it
\* detaches the PD without dropping what is parked on it (REINIT).
ApplInitAgain(c) ==
    LET detached == IF "REINIT" \notin Used THEN {}
                    ELSE {Detach(aes, c, pds) : pds \in SUBSET (Attached \ {c})}
    IN  /\ CanCall(c)
        /\ \E s \in {aes} \cup detached : Handled(s)

\* APPL_WRITE of len bytes to t: done if they fit, parked if not, without
\* regard to writers parked before it.
ApplWrite(c, t, len) ==
    /\ CanCall(c) /\ "QUEUE" \in Used
    /\ aes.gen[t] # 0
    /\ IF len <= QueueBytes - aes.queue[t]
       THEN Handled(QueueProgress([aes EXCEPT !.queue[t] = @ + len], t))
       ELSE Handled([Park(aes, c, "WRITE", t, len) EXCEPT
                        !.writers[t] = Append(@, c)])

\* APPL_READ of len bytes from the queue of t.
ApplRead(c, t, len) ==
    /\ CanCall(c) /\ "QUEUE" \in Used
    /\ aes.gen[t] # 0
    /\ IF len <= aes.queue[t]
       THEN Handled(QueueProgress([aes EXCEPT !.queue[t] = @ - len], t))
       ELSE Handled([Park(aes, c, "READ", t, len) EXCEPT
                        !.readers[t] = Append(@, c)])

\* An EVNT_* call: a waiting message is taken at once; a wait whose other
\* part is met is answered at once (nothing changes); else it is parked.
EventCall(c, wantsMessage) ==
    /\ CanCall(c) /\ "EVENT" \in Used
    /\ IF wantsMessage /\ aes.queue[c] >= MessageBytes
       THEN Handled(TakeMessage(aes, c))
       ELSE \/ Handled(aes)
            \/ Handled(Park(aes, c, "EVENT", c, IF wantsMessage THEN 1 ELSE 0))

\* A window call whose redraw concerns the windows of pds.
WindowCall(c, pds) ==
    /\ CanCall(c) /\ "WINDOW" \in Used
    /\ Handled(Post(aes, pds))

\* WIND_UPDATE(BEG_UPDATE): taken, refused at the largest depth, or parked.
WindBegin(c) ==
    /\ CanCall(c) /\ "UPDATE" \in Used
    /\ IF aes.owner \in {NONE, c}
       THEN Handled(IF aes.depth < MaxDepth THEN BeginUpdate(aes, c) ELSE aes)
       ELSE Handled([Park(aes, c, "UPDATE", c, 0) EXCEPT
                        !.line = Append(@, c)])

WindEnd(c) ==
    /\ CanCall(c) /\ "UPDATE" \in Used
    /\ Handled(EndUpdate(aes, c))

\* A form or tracker begins only if it gets the lock at once.  Refused at
\* the largest depth, a form gives a level back while it is wound down.
FormBegin(c, isAlert) ==
    /\ CanCall(c) /\ "FORM" \in Used
    /\ IF aes.owner \in {NONE, c} /\ aes.depth < MaxDepth
       THEN Handled(Park(BeginUpdate(aes, c), c, "FORM", c,
                         IF isAlert THEN 1 ELSE 0))
       ELSE Handled(EndUpdate(aes, c))

ApplExit(c) ==
    /\ CanCall(c)
    /\ \E pds \in SUBSET (Attached \ {c}) : Handled(Detach(Drop(aes, c), c, pds))

----------------------------------------------------------------------------
(* The tick, the replies, and clients that go away *)

\* What one input sample can do: nothing, settle the form of one channel,
\* or move windows and menus, which messages their owners.
Sampled ==
    {aes}
    \cup {Settle(aes, c, pds) : c \in {x \in Channels : Parked(aes, x, "FORM")},
                                pds \in SUBSET Attached}
    \cup {Post(aes, pds) : pds \in SUBSET Attached}

\* gem_aes_resident_poll, after a request or on the 20 ms timer.
Poll ==
    /\ \E s \in Sampled, fired \in SUBSET {c \in Channels : Parked(aes, c, "EVENT")} :
          aes' = EventProgress(s, fired)
    /\ phase' = "idle"
    /\ UNCHANGED <<conn, nextGen>>

\* gem_pending_take_ready: the server answers the oldest finished call.
TakeReady ==
    /\ phase = "idle"
    /\ aes.ready # <<>>
    /\ aes' = [aes EXCEPT !.ready = Tail(@), !.slot[Head(aes.ready)] = FreeSlot]
    /\ UNCHANGED <<conn, nextGen, phase>>

\* gem_aes_resident_exit for a connection that closed.  An exit whose alert
\* cannot be redrawn stops after the sweep; the server does not look at the
\* result.
Exit(c) ==
    \E alertPds \in SUBSET Attached, pds \in SUBSET (Attached \ {c}) :
        LET down == IF Parked(aes, c, "FORM") THEN WindDown(aes, c, alertPds)
                    ELSE [state |-> aes, drawn |-> TRUE]
            dropped == Drop(down.state, c)
        IN  aes' = IF down.drawn THEN Detach(dropped, c, pds) ELSE dropped

Hangup(c) ==
    /\ phase = "idle"
    /\ conn[c] # 0
    /\ IF aes.gen[c] = conn[c] THEN Exit(c) ELSE UNCHANGED aes
    /\ conn' = [conn EXCEPT ![c] = 0]
    /\ UNCHANGED <<nextGen, phase>>

----------------------------------------------------------------------------
Next ==
    \/ \E c \in Channels :
          \/ Connect(c)
          \/ ApplInit(c)
          \/ ApplInitAgain(c)
          \/ \E t \in Channels, len \in Lengths : ApplWrite(c, t, len)
          \/ \E t \in Channels, len \in Lengths : ApplRead(c, t, len)
          \/ \E wantsMessage \in BOOLEAN : EventCall(c, wantsMessage)
          \/ \E pds \in SUBSET Attached : WindowCall(c, pds)
          \/ WindBegin(c)
          \/ WindEnd(c)
          \/ \E isAlert \in BOOLEAN : FormBegin(c, isAlert)
          \/ ApplExit(c)
          \/ Hangup(c)
    \/ Poll
    \/ TakeReady

Spec == Init /\ [][Next]_vars

----------------------------------------------------------------------------
(* Properties *)

SlotStates == {"FREE", "WAITING", "READY"}
Operations == {"none", "READ", "WRITE", "EVENT", "FORM", "UPDATE"}

\* Type invariant; a queue never holds more than its 128 bytes.
TypeOK ==
    /\ conn \in [Channels -> 0 .. MaxGeneration]
    /\ nextGen \in 1 .. MaxGeneration + 1
    /\ phase \in {"idle", "poll"}
    /\ aes.gen \in [Channels -> 0 .. MaxGeneration]
    /\ aes.queue \in [Channels -> 0 .. QueueBytes]
    /\ aes.owner \in Channels \cup {NONE}
    /\ aes.depth \in 0 .. MaxDepth
    /\ \A c \in Channels :
          /\ aes.slot[c].state \in SlotStates
          /\ aes.slot[c].op \in Operations

\* How often channel c appears on the lists of the pending machinery.
Links(c) ==
    LET on(list) == IF Listed(list, c) THEN 1 ELSE 0
        count[t \in -1 .. ChannelCount - 1] ==
            IF t = -1 THEN on(aes.ready) + on(aes.line)
            ELSE IF t \in Channels
            THEN count[t - 1] + on(aes.readers[t]) + on(aes.writers[t])
            ELSE count[t - 1]
    IN  count[ChannelCount - 1]

\* A call is on the one list that will finish it, once, and on no other: no
\* parked call is forgotten and none is finished twice.
SlotsOnTheirLists ==
    \A c \in Channels :
        LET p == aes.slot[c]
        IN  /\ p.state = "READY" => Listed(aes.ready, c) /\ Links(c) = 1
            /\ p.state = "FREE" => Links(c) = 0
            /\ Parked(aes, c, "UPDATE") => Listed(aes.line, c) /\ Links(c) = 1
            /\ Parked(aes, c, "READ") =>
                  Listed(aes.readers[p.target], c) /\ Links(c) = 1
            /\ Parked(aes, c, "WRITE") =>
                  Listed(aes.writers[p.target], c) /\ Links(c) = 1
            /\ (Parked(aes, c, "EVENT") \/ Parked(aes, c, "FORM")) => Links(c) = 0

\* No call outlives its client or its target: a held call belongs to the
\* connection that is open now, and the queue it is parked on belongs to
\* the PD it was parked for, not to a later user of the channel.
CallsAreCurrent ==
    \A c \in Channels :
        LET p == aes.slot[c]
        IN  /\ p.state # "FREE" => p.gen = aes.gen[c] /\ p.gen = conn[c]
            /\ Parked(aes, c, "READ") \/ Parked(aes, c, "WRITE") =>
                  p.tgen # 0 /\ p.tgen = aes.gen[p.target]

\* The lock follows the forms: an open form or tracker holds it, and no
\* unattached channel does.
LockFollowsForms ==
    /\ \A c \in Channels : Parked(aes, c, "FORM") => aes.owner = c
    /\ aes.owner # NONE => aes.gen[aes.owner] # 0
    /\ aes.owner = NONE <=> aes.depth = 0

\* Every held call is on the one list that will finish it, belongs to the
\* connection and the target it was made for, and the lock follows the forms.
CallSafety == TypeOK /\ SlotsOnTheirLists /\ CallsAreCurrent /\ LockFollowsForms

\* The head of a FIFO could go on, if only somebody looked.
HeadCanGo(s, t) ==
    \/ s.readers[t] # <<>> /\ s.slot[Head(s.readers[t])].len <= s.queue[t]
    \/ /\ s.writers[t] # <<>>
       /\ s.slot[Head(s.writers[t])].len <= QueueBytes - s.queue[t]

\* Whenever the bytes in a queue change, the pump has run until neither the
\* oldest reader nor the oldest writer can move (gem_pending.c: "keep
\* alternating until neither can move").
PumpedDry ==
    [][\A t \in Channels :
          aes'.queue[t] # aes.queue[t] => ~HeadCanGo(aes', t)]_vars

\* Nobody parked on a queue is served before one parked earlier on the same
\* side of it.
OldestFirst ==
    [][\A t \in Channels :
          \A list \in {aes.readers[t], aes.writers[t]} :
              \A i, j \in DOMAIN list :
                  /\ i < j
                  /\ aes'.slot[list[j]].state = "READY"
                  /\ aes'.slot[list[j]].result = "done"
                  => aes'.slot[list[i]].state # "WAITING"]_vars

\* A poll leaves no message wait parked whose message is in the queue.
PollServesMessages ==
    [][Poll => \A c \in Channels :
           ~ (Parked(aes', c, "EVENT") /\ aes'.slot[c].len = 1
              /\ aes'.queue[c] >= MessageBytes)]_vars

\* Among all those calls, ticks and deaths the screen lock is still the
\* plain one: a line in order of arrival, never free while somebody waits.
Promise == INSTANCE ScreenLock
               WITH Clients <- Channels, holder <- aes.owner, line <- aes.line

ImplementsScreenLock == Promise!Spec

----------------------------------------------------------------------------
(* What the comments of the code say and the code does not do *)

\* gem_pending.c: "a call that dont fit is parked on the target PDs reader
\* or writer FIFO and the pump below finishes it once the queue has drained
\* or filled enough".  So no call stays parked that the pump could finish.
NothingFinishableIsParked == \A t \in Channels : ~HeadCanGo(aes, t)
===========================================================================
