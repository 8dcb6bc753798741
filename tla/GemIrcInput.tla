---------------------------- MODULE GemIrcInput ----------------------------
(***************************************************************************)
(* The input line of the IRC client (gem_irc_app.c): editing at a cursor,  *)
(* the history of the lines submitted, the completion of a nickname, and   *)
(* what a line that was refused leaves behind.                             *)
(***************************************************************************)
EXTENDS Integers, Sequences, SequencesExt

CONSTANTS
    Chars,         \* characters the user types; " " may be one
    InputSize,     \* bytes of the line with its end: GEM_IRC_APP_INPUT_SIZE
    HistorySlots,  \* lines the history holds: GEM_IRC_APP_HISTORY_SLOTS
    Nicks,         \* the roster, in its order: a sequence of names
    Commands,      \* what the menus put into the line
    MaxEntered     \* bound: lines submitted

VARIABLES
    ed,       \* [text, cursor, full, shown, slot, head, count]
    entered,  \* the lines submitted, a line repeated at once taken once
    warned    \* warnings shown since the line was last short of full

inputVars == <<ed, entered, warned>>

InputInit ==
    /\ ed = [text |-> <<>>, cursor |-> 0, full |-> FALSE, shown |-> 0,
             slot |-> [k \in 0..(HistorySlots - 1) |-> <<>>], head |-> 0, count |-> 0]
    /\ entered = <<>>
    /\ warned = 0

Edited(text, cursor) ==
    /\ ed' = [ed EXCEPT !.text = text, !.cursor = cursor]
    /\ UNCHANGED <<entered, warned>>

\* A character goes in at the cursor; a line that is full says so once.
Type ==
    \E ch \in Chars :
        IF Len(ed.text) + 1 >= InputSize
        THEN /\ ed' = [ed EXCEPT !.full = TRUE]
             /\ warned' = IF ed.full THEN warned ELSE warned + 1
             /\ UNCHANGED entered
        ELSE Edited(InsertAt(ed.text, ed.cursor + 1, ch), ed.cursor + 1)

\* gem_irc_app_delete_range, of the characters after first and up to last.
DeleteRange(first, last) ==
    /\ first < last /\ last <= Len(ed.text)
    /\ ed' = [ed EXCEPT !.text = SubSeq(@, 1, first) \o SubSeq(@, last + 1, Len(@)),
                        !.cursor = first, !.full = FALSE]
    /\ warned' = 0
    /\ UNCHANGED entered

Backspace == ed.cursor > 0 /\ DeleteRange(ed.cursor - 1, ed.cursor)
Delete == DeleteRange(ed.cursor, ed.cursor + 1)
Erase == DeleteRange(0, Len(ed.text))

\* The arrow keys, Home and End, and a click: all end inside the line.
MoveCursor == \E cursor \in 0..Len(ed.text) : Edited(ed.text, cursor)

\* gem_irc_app_history: up is an older line; below the newest the line is empty.
History ==
    /\ ed.count > 0
    /\ \E up \in BOOLEAN :
          LET shown == IF up THEN (IF ed.shown < ed.count THEN ed.shown + 1 ELSE ed.shown)
                       ELSE IF ed.shown > 0 THEN ed.shown - 1 ELSE 0
              line == IF shown = 0 THEN <<>>
                      ELSE ed.slot[(ed.head + HistorySlots - shown) % HistorySlots]
          IN  ed' = [ed EXCEPT !.shown = shown, !.text = line, !.cursor = Len(line)]
    /\ UNCHANGED <<entered, warned>>

\* gem_irc_app_complete_nick: the first name that the last word begins takes
\* its place, if there is room.
WordStart(text) ==
    LET blanks == {k \in DOMAIN text : text[k] = " "}
    IN  IF blanks = {} THEN 0 ELSE CHOOSE k \in blanks : \A j \in blanks : j <= k

Complete ==
    LET start == WordStart(ed.text)
        word == SubSeq(ed.text, start + 1, Len(ed.text))
        matching == {k \in DOMAIN Nicks : IsPrefix(word, Nicks[k])}
        nick == Nicks[CHOOSE k \in matching : \A j \in matching : k <= j]
        line == SubSeq(ed.text, 1, start) \o nick
                \o (IF start = 0 THEN <<":", " ">> ELSE <<" ">>)
    IN  /\ ed.cursor = Len(ed.text) /\ word # <<>> /\ matching # {}
        /\ Len(line) < InputSize
        /\ ed' = [ed EXCEPT !.text = line, !.cursor = Len(line), !.shown = 0]
        /\ UNCHANGED <<entered, warned>>

\* gem_irc_app_submit_done: the line goes into the history unless it is the
\* last one again, and the next one begins.
Done(e) ==
    LET again == e.count > 0
                 /\ e.slot[(e.head + HistorySlots - 1) % HistorySlots] = e.text
        kept == IF again THEN e
                ELSE [e EXCEPT !.slot[e.head] = e.text,
                               !.head = (@ + 1) % HistorySlots,
                               !.count = IF @ < HistorySlots THEN @ + 1 ELSE @]
    IN  [kept EXCEPT !.text = <<>>, !.cursor = 0, !.shown = 0, !.full = FALSE]

Submitted(e) ==
    /\ ed' = Done(e)
    /\ entered' = IF entered # <<>> /\ Last(entered) = e.text THEN entered
                  ELSE Append(entered, e.text)
    /\ warned' = 0

\* Return: what the server or the queue refuses waits in the line.
Submit ==
    /\ ed.text # <<>>
    /\ Len(entered) < MaxEntered
    /\ \E taken \in BOOLEAN : IF taken THEN Submitted(ed) ELSE UNCHANGED inputVars

\* irc_command: a menu entry replaces the line, and may submit it at once.
SetInput(line) ==
    [ed EXCEPT !.text = line, !.cursor = Len(line), !.full = FALSE, !.shown = 0]

Command ==
    /\ Len(entered) < MaxEntered
    /\ \E line \in Commands, submit \in BOOLEAN :
          IF submit THEN Submitted(SetInput(line))
          ELSE ed' = SetInput(line) /\ warned' = 0 /\ UNCHANGED entered

InputNext ==
    \/ Type \/ Backspace \/ Delete \/ Erase \/ MoveCursor \/ History \/ Complete
    \/ Submit \/ Command

-----------------------------------------------------------------------------
(* Properties.                                                             *)

\* The cursor is in the line and the line, with its end, in its buffer,
\* whatever was typed, completed, recalled or set.
LineFits ==
    /\ Len(ed.text) < InputSize
    /\ ed.cursor \in 0..Len(ed.text)
    /\ ed.shown \in 0..ed.count

\* The history is the last lines submitted, the newest first.
HistoryIsLast ==
    /\ ed.count = (IF Len(entered) < HistorySlots THEN Len(entered) ELSE HistorySlots)
    /\ \A k \in 1..ed.count :
          ed.slot[(ed.head + HistorySlots - k) % HistorySlots]
              = entered[Len(entered) + 1 - k]

\* The warning of a full line comes once until the line is shortened.
WarnedOnce == warned <= 1

InputSafety == LineFits /\ HistoryIsLast /\ WarnedOnce
=============================================================================
