--------------------------- MODULE MCGemPrograms ---------------------------
(* The programs, each part on a small instance and one at a time: "scene"    *)
(* says which one is at work, the others stay as they begin.                 *)
(*                                                                           *)
(* link:    two connections; reads of up to two bytes of lines of one, two   *)
(*          and three bytes, writes of one byte at a time; a line may be two *)
(*          bytes long.                                                      *)
(* tabs:    two nicknames, two channels, two chats, a roster of two.         *)
(* scroll:  a ring of three rows and a window of one or two.                 *)
(* wrap:    every text of up to seven characters, in rows of three and four. *)
(* line:    an input line of three characters, a history of two.             *)
(* window:  every part of the window of the IRC client.                      *)
(* desk:    the Desktop on two small trees of files, with a hidden folder and *)
(*          folders nested deeper than a walk goes; two windows; one copy or  *)
(*          deletion, and one call of the system that fails.                  *)
EXTENDS GemIrcTabs, TLC

CONSTANTS
    h1, h2,
    \* those of GemIrcLink
    LineMax, ChunkMax, Takes, PollLines, ReconnectTicks, FlushTicks, Incoming,
    MaxConnections, MaxAccepted,
    \* those of GemIrcText
    ScrollLines, Narrow, Texts, Widths, Heights, MaxRows,
    \* those of GemIrcInput
    Chars, InputSize, HistorySlots, Nicks, Commands, MaxEntered,
    \* those of GemDesk
    NameOrder, ReadOrder, Hidden, Star, Levels, SearchSlots, FileNodes, Panes,
    Trees, Typed, Preferences, MaxFaults, MaxOrders, MaxFolders, MaxDepth

VARIABLES
    scene,
    irc, net, at,
    view, pane, log, said,
    ed, entered, warned,
    ui, win,
    fs, dos, desk, job

linkVars == <<irc, net, at>>
textVars == <<view, pane, log, said>>
inputVars == <<ed, entered, warned>>
screenVars == <<ui, win>>
deskVars == <<fs, dos, desk, job>>

----------------------------------------------------------------------------
(* The connection of the IRC client *)

Link == INSTANCE GemIrcLink

MCTakes == {-1, 1}
MCIncoming == [welcome |-> 1, ping |-> 2, other |-> 1, long |-> 3]

\* A buffer that holds no line says nothing, and the lines left count in a poll.
LinkView ==
    LET Holds(k) == IF k = irc.head THEN irc.length > 0 ELSE irc.next > 0
    IN  <<net, at,
          [irc EXCEPT !.buffer = [k \in 0..1 |-> IF Holds(k) THEN irc.buffer[k] ELSE "NICK"],
                      !.left = IF at = "poll" THEN irc.left ELSE 0]>>

----------------------------------------------------------------------------
(* Its tabs, transcripts, input line and window *)

Scroll == INSTANCE GemIrcText
MCTexts == {<<"a">>, <<"a", "a", "a", "a", "a">>}

WrapTexts == UNION {[1..n -> {"1", " ", "colour", ","}] : n \in 1..7}
Wrap == INSTANCE GemIrcText
        WITH ScrollLines <- 6, Texts <- WrapTexts, Widths <- {3, 4}, Heights <- {2},
             MaxRows <- 8

Line == INSTANCE GemIrcInput
MCNicks == <<<<"a">>>>
MCCommands == {<<"a", "a">>}

\* Of the lines submitted the history knows the last HistorySlots.
InputView ==
    <<ed, warned, Len(entered),
      IF Len(entered) > HistorySlots
      THEN SubSeq(entered, Len(entered) - HistorySlots + 1, Len(entered)) ELSE entered>>

Window == INSTANCE GemIrcScreen

\* gem_irc_app_close_buffer, gem_irc_app_append: no step takes the tab that is
\* shown away, and rows that arrive leave the scroll offset at the place of the
\* text it stood at; see GemIrcTabs and GemIrcText.
ReaderKeepsPlace ==
    [][/\ scene = "tabs" => ShownTabStays
       /\ scene = "scroll" => Scroll!PlaceIsKept]_<<tabVars, textVars>>

\* gem_irc_app.c, of gem_irc_app_append: "keep a scrolled view still".  Rows that
\* arrive do not change what is drawn of a scrolled view; see GemIrcText.
ScrolledViewIsStill == [][scene = "scroll" => Scroll!DrawnStaysStill]_textVars
MCOneText == {<<"a">>}

----------------------------------------------------------------------------
(* The Desktop *)

Desk == INSTANCE GemDesk

Tree(folders, files) ==
    [p \in folders \cup DOMAIN files |-> IF p \in folders THEN "dir" ELSE files[p]]

MCTrees == {
    Tree({<<>>, <<"a">>, <<"a", "b">>, <<"c">>},
         (<<"a", "b", "a">> :> "x") @@ (<<"a", "b", "c">> :> "y")
             @@ (<<"a", "c">> :> "z") @@ (<<"b">> :> "w")),
    Tree({<<>>, <<"a">>, <<"a", "h">>, <<"c">>, <<"c", "a">>},
         (<<"a", "b">> :> "x") @@ (<<"c", "a", "h">> :> "w") @@ (<<"b">> :> "z"))}
MCNames == <<"a", "b", "c", "h", "*">>
MCRead == <<"c", "a", "h", "b", "*">>
MCPreferences ==
    [progress : {TRUE}, overwrite : {TRUE}] \cup [progress : {FALSE}, overwrite : {FALSE}]

\* gem_irc_transport_poll, gem_irc_app_append, gem_irc_app_submit,
\* irc_event_loop; dir_op, d_doop, d_dofcopy, do_diropen, fun_rebld: see the
\* module of each scene.
ProgramSafety ==
    CASE scene = "link" -> Link!LinkSafety
      [] scene = "scroll" -> Scroll!RingIsLast
      [] scene = "wrap" -> Wrap!RowsHoldText /\ Wrap!WordsAreKept /\ Wrap!RingIsLast
      [] scene = "line" -> Line!InputSafety
      [] scene = "window" -> Window!NothingForgotten
      [] scene = "desk" -> Desk!DeskSafety
      [] OTHER -> TRUE

\* deskdir.c, of d_doop: "Directory routine to DO an operation on an entire
\* sub-directory."  See GemDesk.
WholeFolderIsDone == scene = "desk" => Desk!WholeFolderIsDone

----------------------------------------------------------------------------

MCInit ==
    /\ scene \in {"link", "tabs", "scroll", "wrap", "line", "window", "desk"}
    /\ Link!LinkInit
    /\ (scene # "link" => at = "start")
    /\ TabsInit
    /\ IF scene = "wrap" THEN Wrap!TextInit ELSE Scroll!TextInit
    /\ (scene \notin {"scroll", "wrap"} => pane.rows = 1)
    /\ Line!InputInit
    /\ Window!ScreenInit
    /\ Desk!DeskInit
    /\ (scene # "desk" => fs = CHOOSE t \in Trees : TRUE)
    /\ (scene # "desk" => desk.settings = CHOOSE p \in Preferences : TRUE)

MCNext ==
    /\ UNCHANGED scene
    /\ \/ /\ scene = "link" /\ Link!LinkNext
          /\ UNCHANGED <<tabVars, textVars, inputVars, screenVars, deskVars>>
       \/ /\ scene = "tabs" /\ TabsNext
          /\ UNCHANGED <<linkVars, textVars, inputVars, screenVars, deskVars>>
       \/ /\ scene = "scroll" /\ Scroll!TextNext
          /\ UNCHANGED <<linkVars, tabVars, inputVars, screenVars, deskVars>>
       \/ /\ scene = "wrap" /\ said.text = <<>> /\ Wrap!Say
          /\ UNCHANGED <<linkVars, tabVars, inputVars, screenVars, deskVars>>
       \/ /\ scene = "line" /\ Line!InputNext
          /\ UNCHANGED <<linkVars, tabVars, textVars, screenVars, deskVars>>
       \/ /\ scene = "window" /\ Window!ScreenNext
          /\ UNCHANGED <<linkVars, tabVars, textVars, inputVars, deskVars>>
       \/ /\ scene = "desk" /\ Desk!DeskNext
          /\ UNCHANGED <<linkVars, tabVars, textVars, inputVars, screenVars>>

MCSpec ==
    MCInit /\ [][MCNext]_<<scene, linkVars, tabVars, textVars, inputVars, screenVars, deskVars>>

\* The transcript alone, for the ring as long as the code's.
ScrollSpec ==
    /\ MCInit /\ scene = "scroll"
    /\ [][MCNext]_<<scene, linkVars, tabVars, textVars, inputVars, screenVars, deskVars>>

\* What of a state the steps of its scene can still tell apart.
MCView ==
    <<scene,
      CASE scene = "link" -> LinkView
        [] scene = "tabs" -> tabVars
        [] scene \in {"scroll", "wrap"} -> textVars
        [] scene = "line" -> InputView
        [] scene = "window" -> screenVars
        [] scene = "desk" -> deskVars>>
=============================================================================
