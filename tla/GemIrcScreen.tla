---------------------------- MODULE GemIrcScreen ----------------------------
(***************************************************************************)
(* What the window of the IRC client shows of its state.  Every change     *)
(* notes in a mask which parts of the window it touches; a pass of the     *)
(* event loop collects the masks, draws some parts now and others later,   *)
(* on its clocks, and a message of the screen manager draws everything     *)
(* (gem_irc.c, with the masks of gem_irc_app.c).                           *)
(*                                                                         *)
(* A content (a transcript, a roster, a name) is 0, and 1 once the step    *)
(* changed it: a part whose picture a step changes becomes stale, and is   *)
(* so until it is drawn.  The pull-down menu is drawn over the others.  A   *)
(* pass has one step of the network and one of the user: more would only   *)
(* gather more bits, as several passes that draw nothing do.               *)
(***************************************************************************)
EXTENDS Integers, Sequences, FiniteSets

VARIABLES
    ui,   \* the client's state that is drawn, and its masks
    win   \* [stale, forgot, at, redraw, keys]

screenVars == <<ui, win>>

Parts == {"menu", "popup", "tabs", "topic", "transcript", "roster", "input"}
AllBits == {"TRANSCRIPT", "INPUT", "TARGET", "ROSTER", "TOPIC", "TABS"}

SERVER == 0
CHANNEL == 1
CHAT == 2
Tabs == {SERVER, CHANNEL, CHAT}

-----------------------------------------------------------------------------
(* What a part shows (irc_draw_tree, irc_draw_topic, ... irc_draw_input).  *)

Status(u) == IF u.manual THEN "Offline"
             ELSE IF u.registered THEN "Online" ELSE "Connecting"

Heading(u) == CASE u.active = SERVER -> <<u.server>>
                [] u.active = CHANNEL -> <<u.topic>>
                [] OTHER -> <<u.chat>>

Picture(u, part) ==
    CASE part = "menu" -> <<u.menu>>
      [] part = "popup" -> <<u.menu>>
      [] part = "tabs" -> <<u.active, u.open, u.mark, u.server, u.chat, Status(u)>>
      [] part = "topic" -> <<u.active, Heading(u)>>
      [] part = "transcript" -> <<u.active, u.lines[u.active]>>
      [] part = "roster" -> IF u.active = CHANNEL THEN <<u.roster, u.scrolled, u.selected>>
                            ELSE <<>>
      [] part = "input" -> <<u.nick, u.line>>

Changed(u) == {part \in Parts : Picture(u, part) # Picture(ui, part)}

\* Contents count from 0 again in the next step.
Settled(u) ==
    [u EXCEPT !.lines = [t \in Tabs |-> 0], !.topic = 0, !.roster = 0, !.nick = 0,
              !.line = 0, !.chat = 0, !.server = 0, !.scrolled = 0, !.selected = 0]

\* The network step ends with u, and its bits are collected; `missed` are parts
\* it changes without a bit of theirs.
Ends(u, missed) ==
    /\ ui' = [Settled(u) EXCEPT !.pending = @ \cup u.dirty, !.dirty = {}]
    /\ win' = [win EXCEPT !.stale = @ \cup Changed(u),
                          !.forgot = @ \cup (missed \cap Changed(u)),
                          !.at = "user"]

-----------------------------------------------------------------------------
(* Changes of the session, with the bits they set.                         *)

Dirty(u, bits) == [u EXCEPT !.dirty = @ \cup bits]

\* gem_irc_app_append.
Line(u, tab) ==
    LET added == [u EXCEPT !.lines[tab] = 1]
    IN  IF tab = u.active THEN Dirty(added, {"TRANSCRIPT"})
        ELSE IF tab \in u.mark THEN added
        ELSE Dirty([added EXCEPT !.mark = @ \cup {tab}], {"TABS"})

RosterChange(u) == Dirty([u EXCEPT !.roster = 1], {"ROSTER"})

Switch(u, tab) ==
    IF tab \notin u.open \/ tab = u.active THEN u
    ELSE Dirty([u EXCEPT !.mark = @ \ {tab}, !.active = tab], AllBits)

ChatOpened(u) ==
    IF CHAT \in u.open THEN u
    ELSE Dirty([u EXCEPT !.open = @ \cup {CHAT}, !.chat = 1, !.lines[CHAT] = 1,
                         !.mark = @ \ {CHAT}], {"TABS"})

ChannelSet(u) ==
    LET reset == [u EXCEPT !.open = @ \cup {CHANNEL}, !.topic = 1, !.lines[CHANNEL] = 1,
                           !.mark = @ \ {CHANNEL}]
    IN  Dirty(Switch(reset, CHANNEL), AllBits)

ChannelClear(u) ==
    LET cleared == [u EXCEPT !.open = @ \ {CHANNEL}, !.topic = 1]
    IN  Dirty(IF u.active = CHANNEL THEN Switch(cleared, SERVER) ELSE cleared,
              {"TARGET", "TOPIC", "TABS"})

ChatClosed(u) ==
    LET tab == IF u.active # CHAT THEN u.active
               ELSE IF CHANNEL \in u.open THEN CHANNEL ELSE SERVER
    IN  Dirty([u EXCEPT !.open = @ \ {CHAT}, !.active = tab, !.chat = 1,
                        !.mark = @ \ {CHAT, tab}], AllBits)

\* gem_irc_app_offline.
Offline(u) ==
    Line(Dirty(RosterChange([u EXCEPT !.registered = FALSE]), {"TOPIC", "TABS"}), SERVER)

\* The user stops the session, or starts it anew.
Stopped(u, manual) ==
    [Offline([u EXCEPT !.manual = manual]) EXCEPT !.pending = @ \cup {"TABS"}]

\* gem_irc_app_close_buffer: the channel of a client that holds itself connected
\* is left by a PART, whose echo closes the tab later; otherwise it is cleared
\* at once.  Nothing shows that flag, so both are possible here.
CloseTab(u, tab) ==
    CASE tab = CHAT -> {ChatClosed(u)}
      [] tab = CHANNEL -> {ChannelClear(u), u}
      [] OTHER -> {u}

-----------------------------------------------------------------------------
(* The network step of a pass.                                             *)

ScreenInit ==
    /\ ui = [active |-> SERVER, open |-> {SERVER}, mark |-> {},
             lines |-> [t \in Tabs |-> 0], topic |-> 0, roster |-> 0, nick |-> 0,
             line |-> 0, chat |-> 0, server |-> 0, scrolled |-> 0, selected |-> 0,
             registered |-> FALSE, manual |-> FALSE, menu |-> FALSE,
             dirty |-> {}, pending |-> {}, damage |-> FALSE]
    /\ win = [stale |-> {}, forgot |-> {}, at |-> "net", redraw |-> FALSE,
              keys |-> FALSE]

InNet == win.at = "net"

\* A message, notice, action or status for a tab; a chat opens for it.
Message ==
    /\ InNet
    /\ \/ \E tab \in {SERVER, CHANNEL} : Ends(Line(ui, tab), {})
       \/ Ends(Line(ChatOpened(ui), CHAT), {})

\* 001.
Registered ==
    /\ InNet
    /\ ~ui.manual
    /\ Ends(Line(Dirty([ui EXCEPT !.registered = TRUE], {"TOPIC"}), SERVER), {})

OwnJoin == InNet /\ Ends(Line(RosterChange(ChannelSet(ui)), CHANNEL), {})

\* An own PART, or a KICK of the client.
OwnPart ==
    /\ InNet
    /\ CHANNEL \in ui.open
    /\ Ends(RosterChange(ChannelClear(Line(ui, CHANNEL))), {})

\* Another joins, leaves or is kicked; NAMES.
PeerMoves == InNet /\ Ends(RosterChange(Line(ui, CHANNEL)), {})

\* A NICK of another: an open chat is renamed, but not its heading.
PeerRenames ==
    /\ InNet
    /\ \E chat \in {0, 1} :
          LET told == RosterChange(Line(ui, CHANNEL))
          IN  /\ chat = 1 => CHAT \in ui.open
              /\ Ends(IF chat = 1 THEN Dirty([told EXCEPT !.chat = 1], {"TABS"}) ELSE told,
                      IF chat = 1 THEN {"topic"} ELSE {})

\* The server changes the client's own nickname: the prompt is not drawn.
OwnNick == InNet /\ Ends(RosterChange(Line([ui EXCEPT !.nick = 1], CHANNEL)), {"input"})

TopicSet ==
    /\ InNet
    /\ CHANNEL \in ui.open
    /\ Ends(Dirty([Line(ui, CHANNEL) EXCEPT !.topic = 1], {"TOPIC"}), {})

\* The poll finds the connection closed, or an attempt to connect failed.
Lost ==
    /\ InNet
    /\ ~ui.manual
    /\ \E registered \in {FALSE, ui.registered} :
          Ends(Line(RosterChange(Dirty([ui EXCEPT !.registered = registered], {"TOPIC"})),
                    SERVER), {})

\* A retry registers again: a client that missed the loss still says Online.
Registers ==
    /\ InNet
    /\ ~ui.manual
    /\ Ends(Line([ui EXCEPT !.registered = FALSE], SERVER), {"tabs"})

\* Nothing came, or it is not yet time to look.
Quiet == InNet /\ Ends(ui, {})

-----------------------------------------------------------------------------
(* Messages, keys and clicks.                                              *)

AtUser == win.at = "user"
EndsWith(u, missed, redraw, keys) ==
    /\ ui' = Settled(u)
    /\ win' = [win EXCEPT !.stale = @ \cup Changed(u),
                          !.forgot = @ \cup (missed \cap Changed(u)),
                          !.at = "draw", !.redraw = redraw, !.keys = keys]

NoEvent == AtUser /\ EndsWith(ui, {}, FALSE, FALSE)

\* WM_REDRAW, and a window that was sized, moved or made full.
Redraw == AtUser /\ EndsWith(ui, {}, TRUE, FALSE)

\* A key that edits, or Return: the line is sent, a nickname taken, a text
\* echoed, a transcript cleared.
Key ==
    /\ AtUser
    /\ LET edited == Dirty([ui EXCEPT !.line = 1], {"INPUT"})
       IN  \/ EndsWith(edited, {}, FALSE, TRUE)
           \/ EndsWith([edited EXCEPT !.nick = 1], {}, FALSE, TRUE)
           \/ EndsWith(Line(edited, ui.active), {}, FALSE, TRUE)

\* A page, a line, or the transcript cleared.
Scroll ==
    /\ AtUser
    /\ \E key \in BOOLEAN :
          EndsWith(Dirty([ui EXCEPT !.lines[ui.active] = 1], {"TRANSCRIPT"}), {}, FALSE, key)

Cycle == AtUser /\ \E tab \in Tabs : EndsWith(Switch(ui, tab), {}, FALSE, TRUE)

\* A click on a tab's row or its close box.  The roster's place and selection
\* are forgotten, and drawn only if the tab changes.
ClickTab ==
    /\ AtUser
    /\ ~ui.menu
    /\ \E tab \in ui.open : \E u \in CloseTab(ui, tab) \cup {Switch(ui, tab)} :
          EndsWith([u EXCEPT !.scrolled = 1, !.selected = 1],
                   IF u.active = ui.active THEN {"roster"} ELSE {}, FALSE, FALSE)

ClickRoster ==
    /\ AtUser
    /\ ~ui.menu /\ ui.active = CHANNEL
    /\ \/ EndsWith(Dirty([ui EXCEPT !.scrolled = 1], {"ROSTER"}), {}, FALSE, FALSE)
       \/ LET chosen == Dirty([ui EXCEPT !.selected = 1], {"ROSTER"})
          IN  \E u \in {chosen, Switch(Line(ChatOpened(chosen), CHAT), CHAT)} :
                 EndsWith(u, {}, FALSE, FALSE)

\* A click on the heading of the channel: a dialog for the topic, sent or not.
ClickTopic ==
    /\ AtUser
    /\ ~ui.menu /\ ui.active = CHANNEL
    /\ \E u \in {ui, Dirty([ui EXCEPT !.line = 1], {"INPUT"})} :
          EndsWith([u EXCEPT !.damage = TRUE], {}, FALSE, FALSE)

ClickInput == AtUser /\ EndsWith(Dirty([ui EXCEPT !.line = 1], {"INPUT"}), {}, FALSE, FALSE)

\* A title opens its menu or closes it; a click elsewhere closes it.
ClickMenu ==
    /\ AtUser
    /\ EndsWith([ui EXCEPT !.menu = ~@, !.pending = @ \cup {"MENU"}], {}, TRUE, FALSE)

\* An entry: its action, after a dialog or at once, and the menu closes.
MenuEntry ==
    /\ AtUser
    /\ ui.menu
    /\ \E u \in CloseTab(ui, ui.active) \cup
                {Stopped(ui, TRUE), Stopped(ui, FALSE),
                 [Stopped([ui EXCEPT !.server = 1, !.nick = 1], FALSE) EXCEPT !.damage = TRUE],
                 Line(Dirty([ui EXCEPT !.line = 1], {"INPUT"}), ui.active)} :
          EndsWith([u EXCEPT !.menu = FALSE, !.pending = @ \cup {"MENU"}], {}, TRUE, FALSE)

\* The keys of the menus: Escape, the connection dialog, a retry.
MenuKey ==
    /\ AtUser
    /\ \/ ui.menu /\ EndsWith([ui EXCEPT !.menu = FALSE, !.damage = TRUE], {}, FALSE, TRUE)
       \/ EndsWith([Stopped([ui EXCEPT !.server = 1, !.nick = 1], FALSE)
                       EXCEPT !.damage = TRUE], {}, FALSE, TRUE)
       \/ EndsWith(Stopped(ui, FALSE), {}, FALSE, TRUE)
       \/ \E u \in CloseTab(ui, ui.active) : EndsWith(u, {}, FALSE, TRUE)

-----------------------------------------------------------------------------
(* The end of the pass: what is drawn now, and what waits.                 *)

\* irc_draw_dirty.
Drawn(draw, all) ==
    IF all THEN Parts
    ELSE IF draw = {} THEN {}
    ELSE {part \in Parts :
             CASE part = "menu" -> "MENU" \in draw
               [] part = "popup" -> ui.menu
               [] part = "tabs" -> draw \cap {"TOPIC", "TABS"} # {}
               [] part = "topic" -> "TOPIC" \in draw
               [] part = "transcript" -> "TRANSCRIPT" \in draw
               [] part = "roster" -> draw \cap {"ROSTER", "TARGET"} # {}
               [] OTHER -> "INPUT" \in draw}

\* The network's changes wait for the draw clock, and a typed line for the
\* echo clock.
Draw ==
    /\ win.at = "draw"
    /\ \E drawClock, echoClock \in BOOLEAN :
          LET user == ui.dirty
              redraw == win.redraw \/ ui.damage
              pending == ui.pending \cup user
              waits == ~redraw /\ user \subseteq {"INPUT"} /\ ~drawClock
              typing == win.keys /\ ~redraw /\ ~echoClock
              draw == (IF waits THEN pending \cap {"INPUT"} ELSE pending)
                          \ (IF typing THEN {"INPUT"} ELSE {})
              drawn == Drawn(draw, redraw)
          IN  /\ ui' = [ui EXCEPT !.dirty = {}, !.pending = pending \ draw,
                                  !.damage = FALSE]
              /\ win' = [stale |-> win.stale \ drawn, forgot |-> win.forgot \ drawn,
                         at |-> "net", redraw |-> FALSE, keys |-> FALSE]

ScreenNext ==
    \/ Message \/ Registered \/ OwnJoin \/ OwnPart \/ PeerMoves \/ PeerRenames
    \/ OwnNick \/ TopicSet \/ Lost \/ Registers \/ Quiet
    \/ NoEvent \/ Redraw \/ Key \/ Scroll \/ Cycle \/ ClickTab \/ ClickRoster
    \/ ClickTopic \/ ClickInput \/ ClickMenu \/ MenuEntry \/ MenuKey \/ Draw

-----------------------------------------------------------------------------
(* Properties.                                                             *)

\* A part of the window that no longer shows the state will be drawn: its bit
\* is set, or the whole window is due.  The code misses four cases, which
\* Ends is told: the heading of a renamed chat, the prompt after a nickname
\* the server changed, the label of a session registered anew, and the roster
\* when its own tab is clicked.
NothingForgotten ==
    \A part \in win.stale \ win.forgot :
        \/ win.redraw \/ ui.damage
        \/ part \in Drawn(ui.dirty \cup ui.pending, FALSE)
=============================================================================
