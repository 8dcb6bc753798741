------------------------------ MODULE GemServer ------------------------------
(***************************************************************************)
(* The server process (server/gem_main.c): its loop, the signals that      *)
(* interrupt it, its table of client connections, and the client processes *)
(* it is the parent of.                                                    *)
(*                                                                         *)
(* The loop is modelled step by step, because signals, exits and the bytes *)
(* of clients arrive between any two steps.  The resident AES behind it is *)
(* reduced to what the server sees of it: a request is answered at once or *)
(* held, and whatever the AES does may finish any calls it holds           *)
(* (GemCalls says which).  A request frame is two pieces, so that it can   *)
(* arrive in part; which call it carries is not modelled.                  *)
(*                                                                         *)
(* The clients follow bindings/original/ppdgem.c: one connection, one      *)
(* request at a time, and a new connection after a broken one.  System     *)
(* calls that fail for want of kernel resources are not modelled, nor is a *)
(* process that the server did not start.                                  *)
(***************************************************************************)
EXTENDS Integers, Sequences, FiniteSets

CONSTANTS
    ChannelCount,   \* GEM_CHANNEL_COUNT, 6 in the code
    Desktop,        \* the process started as /bin/gemdesk
    Apps,           \* the processes SHEL_WRITE can start
    NONE,           \* no process
    MaxGeneration   \* bound on the connections ever made

Procs == {Desktop} \cup Apps
DesktopChannel == 0
FirstApp == 2

\* gem_server_channel_valid
Channels == {DesktopChannel} \cup (FirstApp .. ChannelCount - 1)

ASSUME ServerAssumption ==
    /\ ChannelCount \in Nat
    /\ FirstApp < ChannelCount
    /\ Desktop \notin Apps
    /\ NONE \notin Procs
    /\ MaxGeneration \in Nat

FramePieces == 2

VARIABLES
    \* the client processes
    proc,       \* "none", "run", "exiting" (its files are closed), "zombie", "gone"
    link,       \* its end of the connection: "off", "open", "cut" by the server
    wrote,      \* pieces of the current request it has written
    up, down,   \* pieces on their way to the server, replies on their way back
    backlog,    \* connections not yet accepted
    \* the server
    pc, readers,                   \* where the loop is; the rest of select's set
    stop, children, tick, armed,   \* the flags of the signals, the one-shot timer
    client,                        \* gem_server_clients
    nextGen,
    \* the resident AES as the server sees it
    call

clientVars == <<proc, link, wrote, up, down, backlog>>
signalVars == <<stop, children, tick, armed>>
vars == <<clientVars, pc, readers, signalVars, client, nextGen, call>>

\* gem_server_reset_client
Closed == [peer |-> NONE, received |-> 0, identified |-> FALSE,
           waiting |-> FALSE, gen |-> 0]

NoCall == [state |-> "none", gen |-> 0]

\* main up to its loop
Init ==
    /\ proc = [p \in Procs |-> IF p = Desktop THEN "run" ELSE "none"]
    /\ link = [p \in Procs |-> "off"]
    /\ wrote = [p \in Procs |-> 0]
    /\ up = [p \in Procs |-> 0]
    /\ down = [p \in Procs |-> 0]
    /\ backlog = <<>>
    /\ pc = "loop"
    /\ readers = {}
    /\ stop = FALSE
    /\ children = FALSE
    /\ tick = FALSE
    /\ armed = TRUE
    /\ client = [c \in Channels |-> Closed]
    /\ nextGen = 1
    /\ call = [c \in Channels |-> NoCall]

Least(S) == CHOOSE c \in S : \A d \in S : c <= d

Opened == {c \in Channels : client[c].peer # NONE}

\* The peer has bytes to read, or has closed its end.
Readable(c) ==
    LET p == client[c].peer
    IN  p # NONE /\ (up[p] > 0 \/ link[p] # "open")

----------------------------------------------------------------------------
(* What the resident AES does to its held calls *)

\* Any of the held calls may be finished.
Finishing(calls) ==
    LET held == {c \in Channels : calls[c].state = "held"}
    IN  {[c \in Channels |-> IF c \in done THEN [calls[c] EXCEPT !.state = "ready"]
                             ELSE calls[c]] : done \in SUBSET held}

\* Mutant: gem_aes_resident_exit is not told.
AesExitForgotten(calls, c, k) == {calls}

\* gem_aes_resident_exit: the call of this connection is gone, and others
\* may be finished by the locks and the queues it frees.
AesExit(calls, c, k) ==
    IF ~k.identified THEN {calls}
    ELSE Finishing(IF calls[c].gen = k.gen THEN [calls EXCEPT ![c] = NoCall]
                   ELSE calls)

----------------------------------------------------------------------------
(* Dropping and answering a client *)

\* gem_server_drop_client of the open connection k on channel c: the AES
\* forgets it, the descriptor is closed, and an identified process is
\* reaped, after it was killed if it is still alive.
Drop(c, k, calls, procs) ==
    LET p == k.peer
    IN  /\ call' \in AesExit(calls, c, k)
        /\ link' = [link EXCEPT ![p] = IF @ = "open" THEN "cut" ELSE @]
        /\ up' = [up EXCEPT ![p] = 0]
        /\ client' = [client EXCEPT ![c] = Closed]
        /\ proc' = IF k.identified THEN [procs EXCEPT ![p] = "gone"] ELSE procs
        /\ children' = (children \/ (k.identified /\ procs[p] \in {"run", "exiting"}))

DropClient(c) == Drop(c, client[c], call, proc)

\* gem_server_reply reaches the client of this generation only, and only
\* while it is there.
CanReply(c, k, gen) == k.identified /\ k.gen = gen /\ link[k.peer] = "open"

Reply(p) == down' = [down EXCEPT ![p] = @ + 1]

\* Mutant: an answered client still counts as waiting.
AnsweredStillWaiting(k) == k

Answered(k) == [k EXCEPT !.waiting = FALSE]

----------------------------------------------------------------------------
(* The loop of main *)

Go(where) == pc' = where /\ UNCHANGED readers

LoopTop ==
    /\ pc = "loop"
    /\ \/ stop /\ Go("stopping") /\ UNCHANGED tick
       \/ ~stop /\ tick /\ Go("rearm") /\ tick' = FALSE
       \/ ~stop /\ ~tick /\ Go("reply") /\ UNCHANGED tick
    /\ UNCHANGED <<clientVars, stop, children, armed, client, nextGen, call>>

\* Mutant: the flag is cleared once more after the timer was armed.
RearmThenClear ==
    /\ pc = "rearm"
    /\ IF armed \/ tick
       THEN tick' = FALSE /\ Go("reply") /\ UNCHANGED armed
       ELSE armed' = TRUE /\ UNCHANGED <<tick, pc, readers>>
    /\ call' \in Finishing(call)
    /\ UNCHANGED <<clientVars, stop, children, client, nextGen>>

\* The one-shot timer is armed again, and the tick polls the AES.
Rearm ==
    /\ pc = "rearm"
    /\ armed' = TRUE
    /\ call' \in Finishing(call)
    /\ Go("reply")
    /\ UNCHANGED <<clientVars, stop, children, tick, client, nextGen>>

\* gem_server_reply_ready, one finished call: its client is answered, or
\* dropped if it cannot be.
ReplyReady ==
    /\ pc = "reply"
    /\ \E c \in Channels :
          LET k == client[c]
              taken == [call EXCEPT ![c] = NoCall]
          IN  /\ call[c].state = "ready"
              /\ IF k.peer = NONE
                 THEN call' = taken /\ UNCHANGED <<proc, link, up, down, client, children>>
                 ELSE IF CanReply(c, k, call[c].gen)
                 THEN /\ Reply(k.peer)
                      /\ call' = taken
                      /\ client' = [client EXCEPT ![c] = Answered(k)]
                      /\ UNCHANGED <<proc, link, up, children>>
                 ELSE Drop(c, k, taken, proc) /\ UNCHANGED down
    /\ UNCHANGED <<wrote, backlog, pc, readers, stop, tick, armed, nextGen>>

RepliesDone ==
    /\ pc = "reply"
    /\ \A c \in Channels : call[c].state # "ready"
    /\ Go(IF children THEN "reap" ELSE IF stop THEN "stopping" ELSE "wait")
    /\ UNCHANGED <<clientVars, signalVars, client, nextGen, call>>

\* gem_server_reap_children: the flag is cleared before the children are
\* asked for, and looked at again when none is left.
ReapBegin ==
    /\ pc = "reap"
    /\ children' = FALSE
    /\ Go("reaping")
    /\ UNCHANGED <<clientVars, stop, tick, armed, client, nextGen, call>>

\* One dead child: its connection is dropped (gem_server_drop_pid), and the
\* death of the Desktop stops the server.
ReapOne ==
    /\ pc = "reaping"
    /\ \E p \in {q \in Procs : proc[q] = "zombie"} :
          LET mine == {c \in Channels : client[c].identified /\ client[c].peer = p}
              procs == [proc EXCEPT ![p] = "gone"]
          IN  /\ stop' = (stop \/ p = Desktop)
              /\ IF mine = {}
                 THEN proc' = procs /\ UNCHANGED <<call, link, up, client, children>>
                 ELSE Drop(Least(mine), client[Least(mine)], call, procs)
    /\ UNCHANGED <<wrote, down, backlog, pc, readers, tick, armed, nextGen>>

ReapNone ==
    /\ pc = "reaping"
    /\ \A p \in Procs : proc[p] # "zombie"
    /\ Go("reaped")
    /\ UNCHANGED <<clientVars, signalVars, client, nextGen, call>>

\* Mutant: the flag is cleared at the end, whatever died meanwhile.
ReapEndClears ==
    /\ pc = "reaped"
    /\ children' = FALSE
    /\ Go(IF stop THEN "stopping" ELSE "wait")
    /\ UNCHANGED <<clientVars, stop, tick, armed, client, nextGen, call>>

ReapEnd ==
    /\ pc = "reaped"
    /\ Go(IF children THEN "reap" ELSE IF stop THEN "stopping" ELSE "wait")
    /\ UNCHANGED <<clientVars, signalVars, client, nextGen, call>>

\* select: what can be read now; nothing after a timeout or a signal.
Select ==
    /\ pc = "wait"
    /\ readers' = {c \in Channels : Readable(c)}
    /\ pc' = IF backlog # <<>> THEN "accept"
             ELSE IF readers' # {} THEN "serve" ELSE "loop"
    /\ UNCHANGED <<clientVars, signalVars, client, nextGen, call>>

\* gem_server_accept_client, one connection: it gets the Desktop's channel
\* if that is free, else the first free one, and is closed if there is none.
Accept ==
    /\ pc = "accept"
    /\ LET p == Head(backlog)
           free == {c \in Channels : client[c].peer = NONE}
       IN  IF free = {}
           THEN /\ link' = [link EXCEPT ![p] = IF @ = "open" THEN "cut" ELSE @]
                /\ up' = [up EXCEPT ![p] = 0]
                /\ UNCHANGED <<client, nextGen>>
           ELSE /\ client' = [client EXCEPT ![Least(free)] =
                                 [Closed EXCEPT !.peer = p, !.gen = nextGen]]
                /\ nextGen' = nextGen + 1
                /\ UNCHANGED <<link, up>>
    /\ backlog' = Tail(backlog)
    /\ pc' = IF readers # {} THEN "serve" ELSE "loop"
    /\ UNCHANGED <<proc, wrote, down, readers, signalVars, call>>

----------------------------------------------------------------------------
(* One readable channel after the other: gem_server_read_client *)

Serving(c) == pc = "serve" /\ readers # {} /\ c = Least(readers)

\* Mutant: the scan ends with the first channel that is served.
ServedFirst(c) == readers' = {} /\ pc' = "loop"

Served(c) ==
    /\ readers' = readers \ {c}
    /\ pc' = IF readers' = {} THEN "loop" ELSE "serve"

\* A byte or the end from a client that waits, the end from one that does
\* not: the client is dropped.
ReadEnd(c) ==
    /\ Serving(c)
    /\ client[c].waiting \/ up[client[c].peer] = 0
    /\ DropClient(c)
    /\ Served(c)
    /\ UNCHANGED <<wrote, down, backlog, stop, tick, armed, nextGen>>

Arrived(c) == client[c].received + up[client[c].peer]

CanRead(c) == Serving(c) /\ ~client[c].waiting /\ up[client[c].peer] > 0

\* A frame in part is kept until the rest arrives.
ReadPart(c) ==
    /\ CanRead(c)
    /\ Arrived(c) < FramePieces
    /\ client' = [client EXCEPT ![c].received = Arrived(c)]
    /\ up' = [up EXCEPT ![client[c].peer] = 0]
    /\ Served(c)
    /\ UNCHANGED <<proc, link, wrote, down, backlog, signalVars, nextGen, call>>

\* gem_server_identify: the Desktop's channel takes no other process.
Refused(c) ==
    c = DesktopChannel /\ ~client[c].identified /\ client[c].peer # Desktop

ReadRefused(c) ==
    /\ CanRead(c)
    /\ Arrived(c) >= FramePieces
    /\ Refused(c)
    /\ DropClient(c)
    /\ Served(c)
    /\ UNCHANGED <<wrote, down, backlog, stop, tick, armed, nextGen>>

ReadWhole(c) ==
    /\ CanRead(c)
    /\ Arrived(c) >= FramePieces
    /\ ~Refused(c)
    /\ Served(c)

\* The client after gem_server_identify.
Took(c) == [client[c] EXCEPT !.received = 0, !.identified = TRUE]

\* SHEL_WRITE starts a process; other requests start none.
Starting ==
    {proc} \cup {[proc EXCEPT ![a] = "run"] : a \in {b \in Apps : proc[b] = "none"}}

\* gem_server_dispatch of a request that is answered now, which may finish
\* other calls; a client that is gone is dropped instead.
DispatchAnswer(c) ==
    LET k == Took(c)
    IN  /\ ReadWhole(c)
        /\ \E calls \in Finishing(call), procs \in Starting :
              IF CanReply(c, k, k.gen)
              THEN /\ Reply(k.peer)
                   /\ client' = [client EXCEPT ![c] = k]
                   /\ up' = [up EXCEPT ![k.peer] = 0]
                   /\ call' = calls
                   /\ proc' = procs
                   /\ UNCHANGED <<link, children>>
              ELSE Drop(c, k, calls, procs) /\ UNCHANGED down
        /\ UNCHANGED <<wrote, backlog, stop, tick, armed, nextGen>>

\* A request that is held; the poll after it may already finish it.
DispatchHold(c) ==
    /\ ReadWhole(c)
    /\ client' = [client EXCEPT ![c] = [Took(c) EXCEPT !.waiting = TRUE]]
    /\ up' = [up EXCEPT ![client[c].peer] = 0]
    /\ call' \in Finishing([call EXCEPT ![c] =
                               [state |-> "held", gen |-> client[c].gen]])
    /\ UNCHANGED <<proc, link, wrote, down, backlog, signalVars, nextGen>>

----------------------------------------------------------------------------
(* The end: gem_server_stop_clients *)

\* The applications in order of their channels, then the Desktop.
StopOrder == {c \in Channels \ {DesktopChannel} : client[c].peer # NONE}

StopOne ==
    /\ pc = "stopping"
    /\ StopOrder # {}
    /\ DropClient(Least(StopOrder))
    /\ UNCHANGED <<wrote, down, backlog, pc, readers, stop, tick, armed, nextGen>>

\* A Desktop without a connection is killed by its pid.
StopLast ==
    /\ pc = "stopping"
    /\ StopOrder = {}
    /\ IF client[DesktopChannel].peer # NONE THEN DropClient(DesktopChannel)
       ELSE /\ proc' = [proc EXCEPT ![Desktop] = "gone"]
            /\ children' = (children \/ proc[Desktop] \in {"run", "exiting"})
            /\ UNCHANGED <<call, link, up, client>>
    /\ Go("ended")
    /\ armed' = FALSE
    /\ UNCHANGED <<wrote, down, backlog, stop, tick, nextGen>>

----------------------------------------------------------------------------
(* The clients (ppdgem.c) and the signals *)

Running == pc # "ended"

Connect(p) ==
    /\ Running /\ proc[p] = "run" /\ link[p] = "off"
    /\ nextGen + Len(backlog) <= MaxGeneration
    /\ link' = [link EXCEPT ![p] = "open"]
    /\ backlog' = Append(backlog, p)
    /\ UNCHANGED <<proc, wrote, up, down, pc, readers, signalVars, client, nextGen, call>>

Write(p) ==
    /\ Running /\ proc[p] = "run" /\ link[p] = "open" /\ wrote[p] < FramePieces
    /\ \E n \in 1 .. FramePieces - wrote[p] :
          /\ wrote' = [wrote EXCEPT ![p] = @ + n]
          /\ up' = [up EXCEPT ![p] = @ + n]
    /\ UNCHANGED <<proc, link, down, backlog, pc, readers, signalVars, client, nextGen, call>>

ReadReply(p) ==
    /\ Running /\ proc[p] = "run" /\ down[p] > 0
    /\ down' = [down EXCEPT ![p] = @ - 1]
    /\ wrote' = [wrote EXCEPT ![p] = 0]
    /\ UNCHANGED <<proc, link, up, backlog, pc, readers, signalVars, client, nextGen, call>>

\* gem_bindings_disconnect after a failed read or write.
Disconnect(p) ==
    /\ Running /\ proc[p] = "run" /\ link[p] = "cut"
    /\ link' = [link EXCEPT ![p] = "off"]
    /\ wrote' = [wrote EXCEPT ![p] = 0]
    /\ down' = [down EXCEPT ![p] = 0]
    /\ UNCHANGED <<proc, up, backlog, pc, readers, signalVars, client, nextGen, call>>

\* A process ends: first its files are closed, then its parent is told.
ExitClose(p) ==
    /\ Running /\ proc[p] = "run"
    /\ proc' = [proc EXCEPT ![p] = "exiting"]
    /\ link' = [link EXCEPT ![p] = "off"]
    /\ wrote' = [wrote EXCEPT ![p] = 0]
    /\ down' = [down EXCEPT ![p] = 0]
    /\ UNCHANGED <<up, backlog, pc, readers, signalVars, client, nextGen, call>>

ExitDone(p) ==
    /\ Running /\ proc[p] = "exiting"
    /\ proc' = [proc EXCEPT ![p] = "zombie"]
    /\ children' = TRUE
    /\ UNCHANGED <<link, wrote, up, down, backlog, pc, readers, stop, tick, armed,
                   client, nextGen, call>>

\* gem_server_tick_signal
Alarm ==
    /\ Running /\ armed
    /\ armed' = FALSE
    /\ tick' = TRUE
    /\ UNCHANGED <<clientVars, pc, readers, stop, children, client, nextGen, call>>

\* gem_server_stop_signal
Terminate ==
    /\ Running /\ ~stop
    /\ stop' = TRUE
    /\ UNCHANGED <<clientVars, pc, readers, children, tick, armed, client, nextGen, call>>

----------------------------------------------------------------------------
ReadClient(c) ==
    \/ ReadEnd(c)
    \/ ReadPart(c)
    \/ ReadRefused(c)
    \/ DispatchAnswer(c)
    \/ DispatchHold(c)

ServerStep ==
    \/ LoopTop
    \/ Rearm
    \/ ReplyReady
    \/ RepliesDone
    \/ ReapBegin
    \/ ReapOne
    \/ ReapNone
    \/ ReapEnd
    \/ Select
    \/ Accept
    \/ \E c \in Channels : ReadClient(c)
    \/ StopOne
    \/ StopLast

ClientStep(p) ==
    \/ Connect(p)
    \/ Write(p)
    \/ ReadReply(p)
    \/ Disconnect(p)
    \/ ExitClose(p)
    \/ ExitDone(p)

Next ==
    \/ ServerStep
    \/ \E p \in Procs : ClientStep(p)
    \/ Alarm
    \/ Terminate

Spec == Init /\ [][Next]_vars

\* The server's process keeps running, and an exit that began is finished by
\* the kernel.  Nothing is assumed of what the clients do.
FairSpec == Spec /\ WF_vars(ServerStep) /\ \A p \in Procs : WF_vars(ExitDone(p))

----------------------------------------------------------------------------
(* Properties *)

ClientRecord ==
    [peer : Procs \cup {NONE}, received : 0 .. FramePieces - 1,
     identified : BOOLEAN, waiting : BOOLEAN, gen : 0 .. MaxGeneration]

\* Type invariant; never two replies are on their way to one client.
TypeOK ==
    /\ proc \in [Procs -> {"none", "run", "exiting", "zombie", "gone"}]
    /\ link \in [Procs -> {"off", "open", "cut"}]
    /\ wrote \in [Procs -> 0 .. FramePieces]
    /\ up \in [Procs -> 0 .. FramePieces]
    /\ down \in [Procs -> 0 .. 1]
    /\ backlog \in Seq(Procs)
    /\ pc \in {"loop", "rearm", "reply", "reap", "reaping", "reaped", "wait",
               "accept", "serve", "stopping", "ended"}
    /\ readers \subseteq Channels
    /\ stop \in BOOLEAN /\ children \in BOOLEAN
    /\ tick \in BOOLEAN /\ armed \in BOOLEAN
    /\ client \in [Channels -> ClientRecord]
    /\ nextGen \in 1 .. MaxGeneration + 1
    /\ call \in [Channels -> [state : {"none", "held", "ready"},
                              gen : 0 .. MaxGeneration]]

\* The bytes of the request of client p that the server has or will get,
\* with a held call and a reply each counting for the whole frame.
Accounted(p) ==
    LET mine == {c \in Channels : client[c].peer = p}
        k == client[Least(mine)]
        held == k.waiting /\ call[Least(mine)].state # "none"
    IN  up[p] + FramePieces * down[p]
        + (IF mine = {} THEN 0
           ELSE k.received + (IF held THEN FramePieces ELSE 0))

\* What a connected client has written of its request is in exactly one
\* place: on its way, read in part, held by the AES, or answered.  No request
\* is lost, answered twice, or mixed with bytes of an earlier connection.
RequestsAreAccountedFor ==
    \A p \in Procs : link[p] = "open" => Accounted(p) = wrote[p]

\* A call the AES holds or has finished belongs to the connection that is
\* open on its channel now, which is marked as waiting, and to no other.
HeldForConnection ==
    \A c \in Channels :
        /\ client[c].waiting <=> call[c].state # "none"
        /\ client[c].waiting => client[c].identified /\ call[c].gen = client[c].gen

\* No request is lost, answered twice, mixed up or held for somebody gone.
RequestSafety == TypeOK /\ RequestsAreAccountedFor /\ HeldForConnection

\* The one-shot timer is armed or its tick is still to be handled: no order
\* of alarm and loop makes the server lose its clock.
TickIsNeverLost ==
    pc \in {"rearm", "stopping", "ended"} \/ armed \/ tick

\* A client that keeps to the protocol is not dropped by a running server,
\* unless it is an application on the Desktop's channel.
ProtocolIsRespected ==
    [][\A c \in Channels :
          LET p == client[c].peer
          IN  (p # NONE /\ client'[c].peer = NONE /\ pc # "stopping") =>
                  \/ link[p] # "open"
                  \/ c = DesktopChannel /\ p # Desktop]_vars

\* Every child that dies is reaped, in whatever order its exit, its signal
\* and the server's own waits come, unless the server ends.
ChildrenAreReaped ==
    \A p \in Procs : proc[p] = "zombie" ~> proc[p] = "gone" \/ pc = "ended"

\* A whole request does not stay in the socket: the server takes it up or
\* drops the client, however busy the other clients are.
RequestsAreTakenUp ==
    \A p \in Procs :
        (up[p] = FramePieces /\ link[p] = "open") ~> (up[p] = 0 \/ pc = "ended")
=============================================================================
