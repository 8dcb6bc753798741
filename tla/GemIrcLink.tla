----------------------------- MODULE GemIrcLink -----------------------------
(***************************************************************************)
(* The connection of the IRC client: the nonblocking socket with its queue *)
(* of two lines and its line assembler (gem_irc_transport_elks.c), the     *)
(* registration and the session that retries, joins and quits (gem_irc.c), *)
(* and the protocol's view of whether it is registered.                    *)
(*                                                                         *)
(* A byte is a record that names its line and its place in it, so a byte   *)
(* lost, doubled or out of order shows.  Every line sent has two bytes;    *)
(* the server's lines have the sizes Incoming gives them.  The server and  *)
(* the network act between any two calls of the socket.                    *)
(***************************************************************************)
EXTENDS Integers, Sequences, SequencesExt

CONSTANTS
    LineMax,         \* bytes a received line may have: GEM_IRC_LINE_MAX
    ChunkMax,        \* bytes one read may bring: GEM_IRC_TRANSPORT_CHUNK_SIZE
    PollLines,       \* lines taken per poll: IRC_POLL_LINES
    ReconnectTicks,  \* passes between two attempts: IRC_RECONNECT_TICKS
    FlushTicks,      \* passes the last lines may take: IRC_QUIT_FLUSH_TICKS
    Takes,           \* what a write may take: 0 or more bytes, or fail (-1)
    Incoming,        \* what the server may say: [line kind -> size in bytes]
    MaxConnections,  \* bound: connections made
    MaxSent,         \* bound: lines the server sends on a connection
    MaxAccepted      \* bound: lines accepted on a connection

VARIABLES
    irc,   \* transport, session and protocol flags of the client
    net,   \* the socket between client and server, and what went over it
    at     \* the place in the event loop

linkVars == <<irc, net, at>>

-----------------------------------------------------------------------------
(* Lines and bytes.                                                        *)

Bytes(line, size) == [k \in 1..size |-> [of |-> line, no |-> k]]
OutSize == 2
Out(line) == Bytes(line, OutSize)
In(line) == Bytes(line, Incoming[line])
Newline(byte) == byte.no = Incoming[byte.of]

\* The bytes still queued: what is left of the line at the head, the next one.
Queued(c) ==
    IF c.length = 0 THEN <<>>
    ELSE SubSeq(Out(c.buffer[c.head]), c.offset + 1, c.length)
         \o (IF c.next = 0 THEN <<>> ELSE Out(c.buffer[1 - c.head]))

-----------------------------------------------------------------------------
(* The transport.  A call takes and returns w, the client with its socket. *)

World == [irc |-> irc, net |-> net]
Become(w) == irc' = w.irc /\ net' = w.net

Cleared(c) == [c EXCEPT !.offset = 0, !.length = 0, !.next = 0, !.head = 0,
                        !.receive = <<>>, !.chunk = <<>>, !.discarding = FALSE]

\* gem_irc_transport_drop: the socket is closed, what it held is forgotten.
Dropped(w, again) ==
    [irc |-> [Cleared(w.irc) EXCEPT
                 !.state = IF again /\ w.irc.saved THEN "RECONNECT" ELSE "CLOSED"],
     net |-> [w.net EXCEPT !.up = FALSE]]

\* Mutant: the next line moves up but the head stays at the buffer just sent.
AdvancedInPlace(c) ==
    [c EXCEPT !.offset = 0, !.length = c.next, !.next = 0]

\* A line goes out whole: the one behind it moves to the head.
Advanced(c) ==
    IF c.next > 0
    THEN [c EXCEPT !.offset = 0, !.head = 1 - @, !.length = c.next, !.next = 0]
    ELSE [c EXCEPT !.offset = 0, !.head = 0, !.length = 0]

\* One write: it takes up to `took` bytes, none (EAGAIN), or fails (-1).
Flush(w, took) ==
    LET c == w.irc
        end == IF c.offset + took < c.length THEN c.offset + took ELSE c.length
        moved == [c EXCEPT !.offset = end]
    IN  IF c.length = 0 \/ took = 0 THEN w
        ELSE IF took < 0 THEN Dropped(w, TRUE)
        ELSE [irc |-> IF end = c.length THEN Advanced(moved) ELSE moved,
              net |-> [w.net EXCEPT !.wire = @ \o SubSeq(Out(c.buffer[c.head]),
                                                         c.offset + 1, end)]]

Room(c) == c.length = 0 \/ c.next = 0

\* The buffer that does not hold the line at the head takes the new one.
Enqueued(c, line) ==
    IF c.length = 0
    THEN [c EXCEPT !.head = 0, !.buffer[0] = line, !.offset = 0, !.length = OutSize]
    ELSE [c EXCEPT !.buffer[1 - c.head] = line, !.next = OutSize]

\* gem_irc_transport_output: the result is positive when the line was taken.
\* A failure tells the application it is not connected.
Write(w, line, took) ==
    LET c == w.irc
        flushed == Flush([w EXCEPT !.irc = Enqueued(c, line)], took)
    IN  IF c.state # "CONNECTED"
        THEN [w |-> [w EXCEPT !.irc.connected = FALSE], result |-> -1]
        ELSE IF ~Room(c) THEN [w |-> w, result |-> 0]
        ELSE IF flushed.irc.state # "CONNECTED"
        THEN [w |-> [flushed EXCEPT !.irc.connected = FALSE], result |-> -1]
        ELSE [w |-> [flushed EXCEPT !.net.accepted = Append(@, line)],
              result |-> 1]

\* gem_irc_transport_open_saved: resolve and connect, or leave it to a retry.
Opened(w, succeeds) ==
    LET closed == Dropped(w, TRUE)
    IN  IF ~succeeds THEN closed
        ELSE [irc |-> [closed.irc EXCEPT !.state = "CONNECTED"],
              net |-> [up |-> TRUE, wire |-> <<>>, way |-> <<>>,
                       sent |-> <<>>, accepted |-> <<>>, delivered |-> <<>>,
                       made |-> w.net.made + 1]]

\* gem_irc_transport_assemble: take one run of the chunk, up to a newline.
FirstNewline(chunk) ==
    LET ends == {k \in DOMAIN chunk : Newline(chunk[k])}
    IN  IF ends = {} THEN 0 ELSE CHOOSE k \in ends : \A j \in ends : k <= j

Assemble(c) ==
    LET newline == FirstNewline(c.chunk)
        run == IF newline = 0 THEN c.chunk ELSE SubSeq(c.chunk, 1, newline)
        line == c.receive \o run
        rest == [c EXCEPT !.chunk = SubSeq(@, Len(run) + 1, Len(@))]
        tooLong == c.discarding \/ Len(line) > LineMax
    IN  IF newline = 0
        THEN [c |-> [rest EXCEPT !.discarding = tooLong,
                                 !.receive = IF tooLong THEN <<>> ELSE line],
              result |-> "IDLE"]
        ELSE IF tooLong
        THEN [c |-> [rest EXCEPT !.discarding = FALSE, !.receive = <<>>],
              result |-> "LINE_TOO_LONG"]
        ELSE [c |-> [rest EXCEPT !.receive = <<>>], result |-> Last(line).of]

-----------------------------------------------------------------------------
(* Registration and the session.                                           *)

ConnectionFailed(w) ==
    [w EXCEPT !.irc.started = FALSE, !.irc.joined = FALSE,
              !.irc.reconnect = ReconnectTicks, !.irc.connected = FALSE]

\* irc_start_registration: NICK, then USER.  A nickname that is no parameter
\* (it holds a blank or a colon) is refused before it reaches the socket.
StartRegistration(w, takes) ==
    LET reset == [w EXCEPT !.irc.registered = FALSE, !.irc.joined = FALSE]
        nick == IF reset.irc.nick = "bad" THEN [w |-> reset, result |-> -1]
                ELSE Write(reset, "NICK", takes[1])
        user == Write(nick.w, "USER", takes[2])
    IN  IF nick.result <= 0 THEN ConnectionFailed(Dropped(nick.w, TRUE))
        ELSE IF user.result <= 0 THEN ConnectionFailed(Dropped(user.w, TRUE))
        ELSE [user.w EXCEPT !.irc.connected = TRUE, !.irc.started = TRUE]

ConnectResult(w, takes) ==
    IF w.irc.state = "CONNECTED" THEN StartRegistration(w, takes)
    ELSE ConnectionFailed(w)

\* Quit politely, stop the transport, forget what the session had reached.
Stopped(w, took) ==
    LET said == IF w.irc.connected THEN Write(w, "QUIT", took).w ELSE w
    IN  [Dropped([said EXCEPT !.irc.saved = FALSE], FALSE) EXCEPT
            !.irc.started = FALSE, !.irc.joined = FALSE, !.irc.reconnect = 0,
            !.irc.connected = FALSE, !.irc.registered = FALSE]

UserDisconnect(w, took) == [Stopped(w, took) EXCEPT !.irc.manual = TRUE]

UserReconnect(w, took, succeeds, takes) ==
    LET saved == [Stopped(w, took) EXCEPT !.irc.manual = FALSE, !.irc.saved = TRUE]
    IN  ConnectResult(Opened(saved, succeeds), takes)

\* irc_network_step after the poll: the channel of the command line is joined
\* once per registration; another channel is left first.
AutoJoined(w, takes) ==
    LET c == w.irc
        part == IF c.home = "other" THEN Write(w, "PART", takes[1])
                ELSE [w |-> w, result |-> 1]
        join == Write(part.w, "JOIN", takes[2])
    IN  IF ~(c.started /\ ~c.joined /\ c.registered) THEN w
        ELSE IF part.result <= 0 THEN part.w
        ELSE [join.w EXCEPT !.irc.joined = join.result > 0]

-----------------------------------------------------------------------------
(* What a received line does: 001 registers, PING is answered, an own JOIN *)
(* names the channel.                                                      *)

Received(w, line, took) ==
    LET taken == [w EXCEPT !.net.delivered = Append(@, line)]
    IN  CASE line = "welcome" ->
               [taken EXCEPT !.irc.registered = TRUE, !.irc.connected = TRUE]
          [] line = "ping" -> Write(taken, "PONG", took).w
          [] line = "other" -> [taken EXCEPT !.irc.home = "other"]
          [] OTHER -> taken

\* gem_irc_app_poll on a failed transport: a client that took itself for
\* connected forgets the registration and closes.
PollFailed(w) ==
    IF w.irc.connected
    THEN [Dropped(w, TRUE) EXCEPT !.irc.connected = FALSE, !.irc.registered = FALSE]
    ELSE w

\* What transport_poll finds once its chunk is used up: the flush, the read.
\* The read brings n bytes, nothing (0), or the end of the stream or an error,
\* which close alike (-1).
Reads(w) ==
    (IF w.net.way = <<>> THEN {0} ELSE {})
        \cup 1..(IF Len(w.net.way) < ChunkMax THEN Len(w.net.way) ELSE ChunkMax)
        \cup {-1}

ReadInto(w, n) ==
    IF w.irc.state # "CONNECTED" THEN w
    ELSE IF n < 0 THEN Dropped(w, TRUE)
    ELSE [w EXCEPT !.irc.chunk = SubSeq(w.net.way, 1, n),
                   !.net.way = SubSeq(@, n + 1, Len(@))]

-----------------------------------------------------------------------------
(* The event loop.  It waits at "net" for a pass that polls the socket, at *)
(* "user" it handles what the user does, then it looks whether to end.     *)

Fresh == [state |-> "CLOSED", saved |-> FALSE, buffer |-> [k \in 0..1 |-> "NICK"],
          head |-> 0, length |-> 0, next |-> 0, offset |-> 0, receive |-> <<>>,
          chunk |-> <<>>, discarding |-> FALSE, nick |-> "good",
          connected |-> FALSE, registered |-> FALSE, closing |-> FALSE,
          started |-> FALSE, joined |-> FALSE, reconnect |-> 0, manual |-> TRUE,
          home |-> "none", left |-> 0, before |-> FALSE, quit |-> 0, waited |-> 0]

\* The program starts with its dialog, or connects to the server it was given.
LinkInit ==
    /\ irc = Fresh
    /\ net = [up |-> FALSE, wire |-> <<>>, way |-> <<>>, sent |-> <<>>,
              accepted |-> <<>>, delivered |-> <<>>, made |-> 0]
    /\ at \in {"start", "user"}

CanConnect(succeeds) == succeeds => net.made < MaxConnections
CanAccept == Len(net.accepted) < MaxAccepted

Start ==
    /\ at = "start"
    /\ \E succeeds \in BOOLEAN, t1, t2 \in Takes :
          Become(ConnectResult(
              Opened([World EXCEPT !.irc.saved = TRUE, !.irc.manual = FALSE], succeeds),
              <<t1, t2>>))
    /\ at' = "user"

\* irc_reconnect_step: count down, then connect again.
Reconnect ==
    /\ at = "net"
    /\ irc.state # "CONNECTED"
    /\ at' = "join"
    /\ IF irc.state # "RECONNECT" \/ irc.manual THEN UNCHANGED <<irc, net>>
       ELSE IF irc.reconnect > 1
       THEN irc' = [irc EXCEPT !.reconnect = @ - 1] /\ UNCHANGED net
       ELSE \E succeeds \in BOOLEAN, t1, t2 \in Takes :
               /\ CanConnect(succeeds)
               /\ Become(ConnectResult(Opened([World EXCEPT !.irc.reconnect = 0], succeeds),
                                       <<t1, t2>>))

StartPoll ==
    /\ at = "net"
    /\ irc.state = "CONNECTED"
    /\ irc' = [irc EXCEPT !.left = PollLines]
    /\ at' = "poll"
    /\ UNCHANGED net

\* A line, or a failure, ends gem_irc_transport_poll; an idle poll ends the batch.
Polled(w, result, took) ==
    LET line == Received(w, result, took)
    IN  IF result = "IDLE" THEN at' = "polled" /\ Become(w)
        ELSE IF result = "LINE_TOO_LONG"
        THEN at' = "polled" /\ Become(PollFailed(Dropped(w, TRUE)))
        ELSE /\ at' = IF w.irc.left = 1 THEN "polled" ELSE "poll"
             /\ Become([line EXCEPT !.irc.left = @ - 1])

\* The chunk of an earlier read still holds a line.
PollChunk ==
    /\ at = "poll"
    /\ CanAccept
    /\ irc.state = "CONNECTED"
    /\ LET got == Assemble(irc)
       IN  /\ got.result # "IDLE"
           /\ \E took \in Takes : Polled([World EXCEPT !.irc = got.c], got.result, took)

\* Nothing whole is left: flush, read, assemble.
PollSocket ==
    /\ at = "poll"
    /\ CanAccept
    /\ irc.state = "CONNECTED"
    /\ LET got == Assemble(irc)
       IN  /\ got.result = "IDLE"
           /\ \E took, answer \in Takes, n \in Reads(World) :
                 LET w == ReadInto(Flush([World EXCEPT !.irc = got.c], took), n)
                     next == Assemble(w.irc)
                 IN  IF w.irc.state # "CONNECTED"
                     THEN at' = "polled" /\ Become(PollFailed(w))
                     ELSE Polled([w EXCEPT !.irc = next.c], next.result, answer)

\* The socket failed while a PONG was written.
PollGone ==
    /\ at = "poll"
    /\ irc.state # "CONNECTED"
    /\ at' = "polled"
    /\ Become(PollFailed(World))

\* The session sees a connection that the batch lost.
AfterPoll ==
    /\ at = "polled"
    /\ at' = "join"
    /\ UNCHANGED net
    /\ irc' = IF irc.state = "CONNECTED" THEN irc
              ELSE [irc EXCEPT !.started = FALSE, !.joined = FALSE,
                               !.reconnect = ReconnectTicks]

Join ==
    /\ at = "join"
    /\ CanAccept
    /\ at' = "user"
    /\ \E t1, t2 \in Takes : Become(AutoJoined(World, <<t1, t2>>))

\* A message the user sends.
Say ==
    /\ at = "user"
    /\ CanAccept
    /\ UNCHANGED at
    /\ \E took \in Takes : Become(Write(World, "SAY", took).w)

\* gem_irc_app_request_close: from the menu, a key, /quit or the closer.
RequestClose ==
    /\ at = "user"
    /\ CanAccept
    /\ ~irc.closing
    /\ UNCHANGED at
    /\ \E took \in Takes :
          LET said == IF irc.connected THEN Write(World, "QUIT", took).w ELSE World
          IN  Become([said EXCEPT !.irc.closing = TRUE])

Disconnect ==
    /\ at = "user"
    /\ UNCHANGED at
    /\ \E took \in Takes : Become(UserDisconnect(World, took))

\* The Reconnect entry, or the connection dialog with a nickname of its own.
ReconnectByHand ==
    /\ at = "user"
    /\ UNCHANGED at
    /\ \E nick \in {irc.nick, "good", "bad"}, succeeds \in BOOLEAN, t0, t1, t2 \in Takes :
          /\ CanConnect(succeeds)
          /\ Become(UserReconnect([World EXCEPT !.irc.nick = nick], t0, succeeds, <<t1, t2>>))

\* A dialog polls the socket while it is open.
DialogTick ==
    /\ at = "user"
    /\ at' = "net"
    /\ UNCHANGED <<irc, net>>

\* The loop ends when the queue is empty or its time ran out; the transport
\* is then stopped.  A pass may come without a timer event.
EndPass ==
    /\ at = "user"
    /\ \E timer \in BOOLEAN :
          LET late == irc.before /\ timer /\ irc.quit <= 1
              over == irc.closing /\ (irc.length = 0 \/ late)
              next == [irc EXCEPT
                         !.before = irc.closing,
                         !.quit = IF ~irc.closing THEN @
                                  ELSE IF ~irc.before THEN FlushTicks
                                  ELSE IF timer /\ @ > 1 THEN @ - 1 ELSE @,
                         !.waited = IF irc.before /\ timer THEN @ + 1 ELSE @]
          IN  IF over
              THEN /\ at' = "ended"
                   /\ Become(Dropped([World EXCEPT !.irc =
                          [next EXCEPT !.saved = FALSE, !.connected = FALSE,
                                       !.registered = FALSE]], FALSE))
              ELSE at' \in {"net", "user"} /\ irc' = next /\ UNCHANGED net

-----------------------------------------------------------------------------
(* The server and the network.                                             *)

\* The welcome comes once, to a client whose USER line has arrived.
ServerSends ==
    /\ net.up
    /\ Len(net.sent) < MaxSent
    /\ \E line \in DOMAIN Incoming :
          /\ line = "welcome" =>
                 /\ Last(Out("USER")) \in Range(net.wire)
                 /\ "welcome" \notin Range(net.sent)
          /\ net' = [net EXCEPT !.sent = Append(@, line), !.way = @ \o In(line)]
    /\ UNCHANGED <<irc, at>>

LinkNext ==
    \/ Start \/ Reconnect \/ StartPoll \/ PollChunk \/ PollSocket \/ PollGone
    \/ AfterPoll \/ Join \/ Say \/ RequestClose \/ Disconnect \/ ReconnectByHand
    \/ DialogTick \/ EndPass \/ ServerSends

-----------------------------------------------------------------------------
(* Properties.                                                             *)

Flat(lines, BytesOf(_)) == FlattenSeq([k \in DOMAIN lines |-> BytesOf(lines[k])])

\* The server gets the lines the client accepted, whole and in their order:
\* what it has, and what the two buffers still hold, is what was accepted.
OutgoingIsWhole ==
    irc.state = "CONNECTED" =>
        net.wire \o Queued(irc) = Flat(net.accepted, Out)

\* The client gets the server's lines whole and in their order, however the
\* reads cut them, and none that is longer than a line may be.
IncomingIsWhole ==
    /\ irc.state = "CONNECTED" /\ ~irc.discarding =>
           Flat(net.delivered, In) \o irc.receive \o irc.chunk \o net.way
               = Flat(net.sent, In)
    /\ \A line \in Range(net.delivered) : Incoming[line] <= LineMax

\* A connection in use begins with NICK and USER, what the session remembers
\* of registering and joining is of this connection and not an earlier one,
\* and the application knows whether it has one.
SessionIsOfConnection ==
    /\ at # "start" => (irc.connected <=> irc.state = "CONNECTED")
    /\ irc.state = "CONNECTED" =>
           /\ Len(net.accepted) >= 2 /\ SubSeq(net.accepted, 1, 2) = <<"NICK", "USER">>
           /\ irc.started
           /\ irc.registered => "welcome" \in Range(net.delivered)
           /\ irc.joined => irc.registered /\ "JOIN" \in Range(net.accepted)
           /\ ~irc.manual

\* Closing waits for queued lines, but never longer than it was given.
ClosingEnds == irc.waited <= FlushTicks

LinkSafety ==
    /\ irc.head \in 0..1 /\ irc.offset \in 0..(OutSize - 1)
    /\ OutgoingIsWhole
    /\ IncomingIsWhole
    /\ SessionIsOfConnection
    /\ ClosingEnds
=============================================================================
