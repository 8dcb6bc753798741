----------------------------- MODULE GemIrcTabs -----------------------------
(***************************************************************************)
(* What the IRC client shows of a session: its tabs (a server, a channel   *)
(* and private chats, reached through an array of pointers that closing a  *)
(* tab rotates), the roster of the channel and the client's own nickname   *)
(* (gem_irc_app.c), as the events of a server drive them.                  *)
(*                                                                         *)
(* The server acts on the client's commands in their order but later, and  *)
(* tells the client at once what it did.  A name is a number, ordered as   *)
(* folded names are; names fit their fields.                               *)
(***************************************************************************)
EXTENDS Integers, Sequences, FiniteSets, SequencesExt

CONSTANTS
    Names,       \* nicknames: numbers
    Me,          \* the nickname the client registers with
    Channels,    \* channels
    NONE,        \* no name
    Buffers,     \* tabs there is room for: GEM_IRC_APP_BUFFERS
    NickSlots,   \* names the roster holds: GEM_IRC_APP_NICK_SLOTS
    Ranks,       \* prefixes a name may have: 5 is none, a lower one is higher
    MaxQueue,    \* bound: commands under way to the server
    MaxSent      \* bound: commands the user sends on a connection

ASSUME TabsAssumption ==
    /\ Buffers \in Nat /\ Buffers >= 2
    /\ NickSlots \in Nat \ {0}
    /\ NONE \notin Channels

VARIABLES
    tabs,   \* [order, kind, name, activity, active, count]
    me,     \* [nick, connected, closing, roster, overflow]
    srv     \* the server's side: [nick, in, members, queue, sent, aware]

tabVars == <<tabs, me, srv>>

Slots == 0..(Buffers - 1)
CHANNEL == 1

-----------------------------------------------------------------------------
(* The roster: a sequence of [name, rank], without a name twice.           *)

PositionOf(r, name) == {k \in DOMAIN r : r[k].name = name}

\* gem_irc_app_nick_before.
SortsBefore(a, b) == a.rank < b.rank \/ (a.rank = b.rank /\ a.name < b.name)

RosterClear(m) == [m EXCEPT !.roster = <<>>, !.overflow = FALSE]

\* gem_irc_app_roster_add: a known name only takes a prefix it did not have,
\* where it stands; a new one goes before the first it sorts before.
RosterAdd(m, name, rank) ==
    LET r == m.roster
        known == PositionOf(r, name)
        entry == [name |-> name, rank |-> rank]
        after == {k \in DOMAIN r : SortsBefore(entry, r[k])}
        place == IF after = {} THEN Len(r) + 1
                 ELSE CHOOSE k \in after : \A j \in after : k <= j
    IN  IF known # {}
        THEN IF rank = 5 THEN m
             ELSE [m EXCEPT !.roster[CHOOSE k \in known : TRUE].rank = rank]
        ELSE IF Len(r) >= NickSlots THEN [m EXCEPT !.overflow = TRUE]
        ELSE [m EXCEPT !.roster = InsertAt(@, place, entry)]

RosterRemove(m, name) ==
    LET known == PositionOf(m.roster, name)
    IN  IF known = {} THEN m
        ELSE [m EXCEPT !.roster = RemoveAt(@, CHOOSE k \in known : TRUE)]

RosterRename(m, old, new) ==
    LET known == PositionOf(m.roster, old)
    IN  IF known = {} THEN m
        ELSE RosterAdd(RosterRemove(m, old), new,
                       m.roster[CHOOSE k \in known : TRUE].rank)

\* gem_irc_app_roster_names: the words of a NAMES reply, in any order.
RosterNames(m, list) ==
    LET taken[k \in 0..Len(list)] ==
            IF k = 0 THEN m ELSE RosterAdd(taken[k - 1], list[k].name, list[k].rank)
    IN  taken[Len(list)]

-----------------------------------------------------------------------------
(* The tabs.                                                               *)

At(t, index) == t.order[index]
KindAt(t, index) == t.kind[At(t, index)]
NameAt(t, index) == t.name[At(t, index)]

BufferReset(t, buffer, kind) ==
    [t EXCEPT !.kind[buffer] = kind, !.activity[buffer] = FALSE,
              !.name[buffer] = NONE]

\* gem_irc_app_append: a line for a tab that is not shown marks it.
Noted(t, index) ==
    IF index = t.active THEN t ELSE [t EXCEPT !.activity[At(t, index)] = TRUE]

Switch(t, index) ==
    IF index >= t.count \/ KindAt(t, index) = "FREE" \/ t.active = index THEN t
    ELSE [t EXCEPT !.activity[At(t, index)] = FALSE, !.active = index]

\* gem_irc_app_cycle: the next tab that is not free, either way round.
Cycled(t, direction) ==
    LET Step(n) == (t.active + n * direction + 4 * t.count) % t.count
        taken == {n \in 1..t.count : KindAt(t, Step(n)) # "FREE"}
    IN  Switch(t, Step(CHOOSE n \in taken : \A k \in taken : n <= k))

\* gem_irc_app_pm_index: the chat of a nickname, opened when asked for.
ChatsWith(t, nick) ==
    {k \in 1..(t.count - 1) : KindAt(t, k) = "PRIVATE" /\ NameAt(t, k) = nick}

ChatIndex(t, nick) ==
    LET found == ChatsWith(t, nick)
    IN  IF found # {} THEN CHOOSE k \in found : \A j \in found : k <= j
        ELSE IF t.count < Buffers THEN t.count ELSE 0

ChatOpened(t, nick) ==
    LET index == ChatIndex(t, nick)
        buffer == At(t, index)
    IN  IF ChatsWith(t, nick) # {} \/ index = 0 THEN t
        ELSE [BufferReset(t, buffer, "PRIVATE") EXCEPT !.name[buffer] = nick,
                                                       !.count = @ + 1]

\* gem_irc_app_pm_rename: the first chat with the old name follows its peer.
ChatRenamed(t, old, new) ==
    LET found == ChatsWith(t, old)
    IN  IF found = {} THEN t
        ELSE [t EXCEPT !.name[At(t, CHOOSE k \in found : \A j \in found : k <= j)] = new]

HomeChannel(t) == IF KindAt(t, CHANNEL) = "CHANNEL" THEN NameAt(t, CHANNEL) ELSE NONE

ChannelSet(t, channel) ==
    LET home == At(t, CHANNEL)
        reset == IF t.name[home] = channel THEN t ELSE BufferReset(t, home, "CHANNEL")
    IN  Switch([reset EXCEPT !.name[home] = channel, !.kind[home] = "CHANNEL"], CHANNEL)

ChannelClear(t) ==
    LET home == At(t, CHANNEL)
        cleared == [t EXCEPT !.name[home] = NONE, !.kind[home] = "FREE"]
    IN  IF t.active = CHANNEL THEN Switch(cleared, 0) ELSE cleared

\* Mutant: the pointers behind the closed one move up, its own is not put last.
RotatedLost(t, index) ==
    [BufferReset(t, At(t, index), "FREE") EXCEPT
        !.order = [k \in Slots |-> IF k < index \/ k >= t.count - 1 THEN @[k] ELSE @[k + 1]],
        !.count = @ - 1]

\* gem_irc_app_close_buffer for a private chat: the pointers behind it move up
\* and its own goes last.
Rotated(t, index) ==
    [BufferReset(t, At(t, index), "FREE") EXCEPT
        !.order = [k \in Slots |-> IF k < index \/ k >= t.count THEN @[k]
                                   ELSE IF k < t.count - 1 THEN @[k + 1] ELSE At(t, index)],
        !.count = @ - 1]

ChatClosed(t, index) ==
    LET rotated == Rotated(t, index)
        back == IF t.active >= index /\ t.active > 0 THEN t.active - 1 ELSE t.active
        last == IF back >= rotated.count THEN rotated.count - 1 ELSE back
        shown == IF KindAt(rotated, last) = "FREE" THEN 0 ELSE last
    IN  [rotated EXCEPT !.active = shown, !.activity[At(rotated, shown)] = FALSE]

-----------------------------------------------------------------------------
(* Commands.  A line the queue has no room for is refused.                 *)

TabsInit ==
    /\ tabs = [order |-> [k \in Slots |-> k],
               kind |-> [k \in Slots |-> IF k = 0 THEN "SERVER" ELSE "FREE"],
               name |-> [k \in Slots |-> NONE],
               activity |-> [k \in Slots |-> FALSE], active |-> 0, count |-> 2]
    /\ me = [nick |-> Me, connected |-> FALSE, closing |-> FALSE, roster |-> <<>>,
             overflow |-> FALSE]
    /\ srv = [nick |-> NONE, in |-> {}, members |-> [c \in Channels |-> {}],
              queue |-> <<>>, sent |-> 0, aware |-> TRUE]

Accepts(s, n) == Len(s.queue) + n <= MaxQueue
Sent(s, lines) == [s EXCEPT !.queue = @ \o lines, !.sent = @ + 1]
MaySend == me.connected /\ srv.sent < MaxSent

\* A registered session: the server knows the client by the nickname it sent.
Connect ==
    /\ ~me.connected /\ ~me.closing /\ srv.nick = NONE
    /\ me' = [RosterClear(me) EXCEPT !.connected = TRUE]
    /\ srv' = [srv EXCEPT !.nick = me.nick, !.in = {}, !.queue = <<>>, !.aware = TRUE]
    /\ tabs' = Noted(tabs, 0)

\* gem_irc_app_offline, connection_failed or a failed poll: the roster goes,
\* the tabs stay.
Offline ==
    /\ me.connected
    /\ me' = [RosterClear(me) EXCEPT !.connected = FALSE]
    /\ srv' = [srv EXCEPT !.nick = NONE, !.in = {}, !.queue = <<>>,
                          !.members = [c \in Channels |-> {n \in @[c] : n.name # srv.nick}]]
    /\ tabs' = Noted(tabs, 0)

\* /join: another channel is left first; both lines, the first alone or none
\* may find room.
CommandJoin ==
    /\ MaySend
    /\ UNCHANGED <<tabs, me>>
    /\ \E channel \in Channels :
          LET home == HomeChannel(tabs)
              part == IF home \in {NONE, channel} THEN <<>> ELSE <<<<"PART", home>>>>
          IN  srv' = Sent(srv, IF Accepts(srv, Len(part) + 1)
                               THEN Append(part, <<"JOIN", channel>>)
                               ELSE IF Accepts(srv, Len(part)) THEN part ELSE <<>>)

CommandPart ==
    /\ MaySend
    /\ UNCHANGED <<tabs, me>>
    /\ HomeChannel(tabs) # NONE /\ Accepts(srv, 1)
    /\ srv' = Sent(srv, <<<<"PART", HomeChannel(tabs)>>>>)

\* /nick: the client takes its new name when the line is queued.
CommandNick ==
    /\ MaySend /\ Accepts(srv, 1)
    /\ UNCHANGED tabs
    /\ \E nick \in Names :
          /\ me' = [me EXCEPT !.nick = nick]
          /\ srv' = Sent(srv, <<<<"NICK", nick>>>>)

\* /query, or a double click in the roster.
CommandQuery ==
    /\ UNCHANGED <<me, srv>>
    /\ \E nick \in Names :
          tabs' = LET t == ChatOpened(tabs, nick)
                      index == ChatIndex(tabs, nick)
                  IN  IF index = 0 THEN Noted(t, 0) ELSE Switch(Noted(t, index), index)

\* /msg, and what a chat's own tab sends: the echo opens the chat.
CommandMessage ==
    /\ MaySend
    /\ UNCHANGED <<me, srv>>
    /\ \E nick \in Names :
          tabs' = Noted(ChatOpened(tabs, nick), ChatIndex(tabs, nick))

\* The close box of a tab, Ctrl-W or the menu.  The channel's tab is closed by
\* the PART that comes back, or at once when there is no connection.
CloseTab ==
    \E index \in 1..(tabs.count - 1) :
        IF index # CHANNEL
        THEN tabs' = ChatClosed(tabs, index) /\ UNCHANGED <<me, srv>>
        ELSE IF ~me.connected
        THEN tabs' = ChannelClear(tabs) /\ UNCHANGED <<me, srv>>
        ELSE /\ HomeChannel(tabs) # NONE /\ Accepts(srv, 1) /\ MaySend
             /\ srv' = Sent(srv, <<<<"PART", HomeChannel(tabs)>>>>)
             /\ UNCHANGED <<tabs, me>>

\* /close where it closes no tab (the server's, or a PART that is refused)
\* closes the program.
CommandClose ==
    /\ tabs.active = 0 \/ (tabs.active = CHANNEL /\ me.connected /\ ~Accepts(srv, 1))
    /\ me' = [me EXCEPT !.closing = TRUE]
    /\ UNCHANGED <<tabs, srv>>

SwitchTab ==
    /\ UNCHANGED <<me, srv>>
    /\ \/ \E index \in Slots : tabs' = Switch(tabs, index)
       \/ \E direction \in {-1, 1} : tabs' = Cycled(tabs, direction)

-----------------------------------------------------------------------------
(* The server: what it does to its channels, and the event it sends of it. *)

NamesIn(s, channel) == {n.name : n \in s.members[channel]}
Aware == [srv EXCEPT !.aware = @ /\ me.nick = srv.nick]
IsHome(channel) == HomeChannel(tabs) = channel

\* An own JOIN makes the channel the home, with a new roster and its NAMES.
ServerJoins(channel) ==
    LET joined == srv.members[channel] \cup {[name |-> srv.nick, rank |-> 5]}
        ours == me.nick = srv.nick
        cleared == IF ours THEN RosterAdd(RosterClear(me), srv.nick, 5)
                   ELSE IF IsHome(channel) THEN RosterAdd(me, srv.nick, 5) ELSE me
        shown == IF ours THEN ChannelSet(tabs, channel) ELSE tabs
    IN  IF channel \in srv.in
        THEN srv' = [srv EXCEPT !.queue = Tail(@)] /\ UNCHANGED <<tabs, me>>
        ELSE /\ srv' = [Aware EXCEPT !.queue = Tail(@), !.in = @ \cup {channel},
                                     !.members[channel] = joined]
             /\ tabs' = Noted(shown, CHANNEL)
             /\ \E list \in SetToSeqs(joined) :
                   me' = IF HomeChannel(shown) = channel THEN RosterNames(cleared, list)
                         ELSE cleared

\* Ours: PART, or KICK by another.
ServerRemovesUs(channel, queue) ==
    LET ours == me.nick = srv.nick
    IN  /\ srv' = [Aware EXCEPT !.queue = queue, !.in = @ \ {channel},
                                !.members[channel] = {n \in @ : n.name # srv.nick}]
        /\ tabs' = IF ours /\ IsHome(channel) THEN ChannelClear(Noted(tabs, CHANNEL))
                   ELSE Noted(tabs, CHANNEL)
        /\ me' = IF ~IsHome(channel) THEN me
                 ELSE IF ours THEN RosterClear(me) ELSE RosterRemove(me, srv.nick)

\* A change of nickname: chats and roster follow.
ServerRenames(s, old, new) ==
    /\ srv' = [s EXCEPT !.members = [c \in Channels |->
                  {IF n.name = old THEN [n EXCEPT !.name = new] ELSE n : n \in @[c]}]]
    /\ tabs' = ChatRenamed(Noted(tabs, CHANNEL), old, new)
    /\ me' = RosterRename([me EXCEPT !.nick = IF @ = old THEN new ELSE @], old, new)

Taken(name) == name = srv.nick \/ \E c \in Channels : name \in NamesIn(srv, c)

ServerActs ==
    /\ srv.queue # <<>>
    /\ LET command == Head(srv.queue)
           done == [srv EXCEPT !.queue = Tail(@)]
       IN  CASE command[1] = "JOIN" -> ServerJoins(command[2])
             [] command[1] = "PART" ->
                  IF command[2] \in srv.in THEN ServerRemovesUs(command[2], Tail(srv.queue))
                  ELSE srv' = done /\ UNCHANGED me /\ tabs' = Noted(tabs, 0)
             [] OTHER ->
                  \* 433 for a name that is taken
                  IF command[2] = srv.nick THEN srv' = done /\ UNCHANGED <<tabs, me>>
                  ELSE IF Taken(command[2])
                  THEN srv' = done /\ UNCHANGED me /\ tabs' = Noted(tabs, 0)
                  ELSE ServerRenames([done EXCEPT !.nick = command[2]],
                                     srv.nick, command[2])

\* Another joins a channel; the client hears of it when it is there too.
PeerJoins ==
    \E channel \in Channels, name \in Names, rank \in Ranks :
        /\ name \notin NamesIn(srv, channel) /\ name # srv.nick
        /\ srv.nick # NONE
        /\ srv' = [srv EXCEPT !.members[channel] = @ \cup {[name |-> name, rank |-> rank]}]
        /\ IF channel \notin srv.in THEN UNCHANGED <<tabs, me>>
           ELSE /\ rank = 5
                /\ tabs' = Noted(tabs, CHANNEL)
                /\ me' = IF IsHome(channel) THEN RosterAdd(me, name, 5) ELSE me

\* Another leaves or is kicked.
PeerLeaves ==
    \E channel \in srv.in : \E name \in NamesIn(srv, channel) \ {srv.nick} :
        /\ srv' = [srv EXCEPT !.members[channel] = {n \in @ : n.name # name}]
        /\ tabs' = Noted(tabs, CHANNEL)
        /\ me' = IF IsHome(channel) THEN RosterRemove(me, name) ELSE me

PeerQuits ==
    \E channel \in srv.in : \E name \in NamesIn(srv, channel) \ {srv.nick} :
        /\ srv' = [srv EXCEPT !.members =
                      [c \in Channels |-> {n \in @[c] : n.name # name}]]
        /\ tabs' = Noted(tabs, CHANNEL)
        /\ me' = RosterRemove(me, name)

PeerRenames ==
    \E channel \in srv.in : \E old \in NamesIn(srv, channel) \ {srv.nick}, new \in Names :
        ~Taken(new) /\ ServerRenames(srv, old, new)

KickedOut == \E channel \in srv.in : ServerRemovesUs(channel, srv.queue)

\* A message: to a channel, to the client (a chat, or the server's tab when
\* there is none left), or of the server.
MessageComes ==
    /\ srv.nick # NONE
    /\ UNCHANGED <<me, srv>>
    /\ \/ srv.in # {} /\ tabs' = Noted(tabs, CHANNEL)
       \/ \E from \in Names \ {srv.nick} :
             tabs' = IF me.nick = srv.nick
                     THEN Noted(ChatOpened(tabs, from), ChatIndex(tabs, from))
                     ELSE Noted(tabs, 0)

TabsNext ==
    /\ ~me.closing
    /\ \/ Connect \/ Offline \/ CommandJoin \/ CommandPart \/ CommandNick
       \/ CommandQuery \/ CommandMessage \/ CloseTab \/ CommandClose \/ SwitchTab
       \/ ServerActs \/ PeerJoins \/ PeerLeaves \/ PeerQuits \/ PeerRenames
       \/ KickedOut \/ MessageComes

TabsSpec == TabsInit /\ [][TabsNext]_tabVars

-----------------------------------------------------------------------------
(* Properties.                                                             *)

\* Every buffer is behind one index; the server is first, the channel's place
\* second, then the chats, then what is free.  The tab shown is one in use and
\* carries no mark.
TabsAreWhole ==
    /\ {tabs.order[k] : k \in Slots} = Slots
    /\ tabs.count \in 2..Buffers /\ tabs.active \in 0..(tabs.count - 1)
    /\ KindAt(tabs, 0) = "SERVER"
    /\ KindAt(tabs, CHANNEL) \in {"FREE", "CHANNEL"}
    /\ \A k \in 2..(Buffers - 1) :
          KindAt(tabs, k) = IF k < tabs.count THEN "PRIVATE" ELSE "FREE"
    /\ KindAt(tabs, tabs.active) # "FREE"
    /\ ~tabs.activity[At(tabs, tabs.active)]

\* The roster of the channel is the server's list of its members, once each,
\* as long as the list never ran over and the client's nickname was the
\* server's whenever the server told it of itself.
RosterFollows ==
    /\ \A j, k \in DOMAIN me.roster : me.roster[j].name = me.roster[k].name => j = k
    /\ me.connected /\ srv.aware /\ ~me.overflow /\ HomeChannel(tabs) \in srv.in =>
          {n.name : n \in Range(me.roster)} = NamesIn(srv, HomeChannel(tabs))

TabSafety == TabsAreWhole /\ RosterFollows

\* Closing a chat leaves the tab that is shown on the screen, unless it is the
\* one closed.
ShownTabStays ==
    tabs'.count < tabs.count /\ tabs'.kind[At(tabs, tabs.active)] # "FREE"
        => At(tabs', tabs'.active) = At(tabs, tabs.active)
=============================================================================
