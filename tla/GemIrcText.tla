----------------------------- MODULE GemIrcText -----------------------------
(***************************************************************************)
(* The transcript of one tab of the IRC client (gem_irc_app.c): a text of  *)
(* a message or status is stripped of its formatting codes and broken into *)
(* rows, the rows go into a ring, and the window shows a part of the ring  *)
(* that the user scrolls.                                                  *)
(*                                                                         *)
(* A character is what the code tells apart: a formatting code, the colour *)
(* code with the digits and the comma it takes along, a tab, a blank, or   *)
(* any other.  A row carries its number, so rows of one text differ.       *)
(***************************************************************************)
EXTENDS Integers, Sequences, SequencesExt, Bitwise

CONSTANTS
    ScrollLines,   \* rows the ring holds: GEM_IRC_APP_SCROLL_LINES
    Narrow,        \* rows up to this wide wrap flush left: 8
    Texts,         \* the texts that arrive
    Widths,        \* columns the window may have
    Heights,       \* rows the window may show
    MaxRows        \* bound: rows appended since the last clear

VARIABLES
    view,   \* the ring: [line, head, count, scroll]
    pane,   \* the window: [columns, rows]
    log,    \* the rows appended since the last clear
    said    \* the last text and the rows it made

textVars == <<view, pane, log, said>>

-----------------------------------------------------------------------------
(* From a text to rows.                                                    *)

Digits == {"0", "1"}
Codes == {"bold", "reset"}

\* What the colour code at k takes along: up to two digits, and a comma with
\* up to two digits if at least one follows it.
ColourTakes(text, k) ==
    LET Digit(j) == j \in DOMAIN text /\ text[j] \in Digits
        fore == IF ~Digit(k + 1) THEN 0 ELSE IF Digit(k + 2) THEN 2 ELSE 1
        comma == k + fore + 1
        back == fore > 0 /\ comma \in DOMAIN text /\ text[comma] = ","
                /\ Digit(comma + 1)
    IN  IF ~back THEN fore ELSE IF Digit(comma + 2) THEN fore + 3 ELSE fore + 2

RECURSIVE PlainFrom(_, _)
PlainFrom(text, k) ==
    IF k > Len(text) THEN <<>>
    ELSE IF text[k] = "colour" THEN PlainFrom(text, k + 1 + ColourTakes(text, k))
    ELSE (IF text[k] \in Codes THEN <<>>
          ELSE IF text[k] = "tab" THEN <<" ">> ELSE <<text[k]>>)
         \o PlainFrom(text, k + 1)

Plain(text) == PlainFrom(text, 1)

\* gem_irc_app_wrap_row: break at the last blank of the row's second half.
Wrapped(s) ==
    LET length == Len(s.row)
        blanks == {k \in (length \div 2 + 1)..length : s.row[k] = " "}
        space == CHOOSE k \in blanks : \A j \in blanks : j <= k
        indent == IF length > Narrow THEN <<" ", " ">> ELSE <<>>
    IN  IF blanks = {} THEN [rows |-> Append(s.rows, s.row), row |-> indent]
        ELSE [rows |-> Append(s.rows, SubSeq(s.row, 1, space - 1)),
              row |-> indent \o SubSeq(s.row, space + 1, length)]

\* gem_irc_app_stream_text and _finish: the rows a text makes.
Rows(text, columns) ==
    LET Put(s, ch) ==
            LET wrapped == IF Len(s.row) >= columns THEN Wrapped(s) ELSE s
            IN  [wrapped EXCEPT !.row = Append(@, ch)]
        end == FoldLeft(Put, [rows |-> <<>>, row |-> <<>>], Plain(text))
    IN  IF end.row = <<>> THEN end.rows ELSE Append(end.rows, end.row)

-----------------------------------------------------------------------------
(* The ring.                                                               *)

\* Mutant: a scrolled view stays at its distance from the newest row.
AppendedAndFollowed(v, row) ==
    LET full == v.count = ScrollLines
        slot == IF full THEN v.head ELSE (v.head + v.count) % ScrollLines
    IN  [v EXCEPT !.line[slot] = row,
                  !.count = IF full THEN @ ELSE @ + 1,
                  !.head = IF full THEN (@ + 1) % ScrollLines ELSE @]

\* gem_irc_app_append: the offset of a scrolled view grows with the rows.
Appended(v, row) ==
    LET full == v.count = ScrollLines
        slot == IF full THEN v.head ELSE (v.head + v.count) % ScrollLines
    IN  [v EXCEPT !.line[slot] = row,
                  !.count = IF full THEN @ ELSE @ + 1,
                  !.head = IF full THEN (@ + 1) % ScrollLines ELSE @,
                  !.scroll = IF @ > 0 /\ @ + 1 < ScrollLines THEN @ + 1 ELSE @]

MaxScroll(v, visible) == IF v.count <= visible THEN 0 ELSE v.count - visible

\* The row, counted from the oldest the ring holds, that the window starts at.
ShownRows(v, visible) == IF v.count < visible THEN v.count ELSE visible

WindowStart(v, visible) ==
    LET start == v.count - ShownRows(v, visible)
    IN  start - (IF v.scroll > start THEN start ELSE v.scroll)

\* gem_irc_app_visible_line: the slot of a row of the window.
VisibleSlot(v, row, visible) ==
    (v.head + WindowStart(v, visible) + row) & (ScrollLines - 1)

VisibleLines(v, visible) ==
    [row \in 1..ShownRows(v, visible) |-> v.line[VisibleSlot(v, row - 1, visible)]]

-----------------------------------------------------------------------------
(* What happens to the tab.                                                *)

NoLine == [no |-> 0, text |-> <<>>]

TextInit ==
    /\ view = [line |-> [k \in 0..(ScrollLines - 1) |-> NoLine], head |-> 0,
               count |-> 0, scroll |-> 0]
    /\ pane \in [columns : Widths, rows : Heights]
    /\ log = <<>>
    /\ said = [text |-> <<>>, columns |-> pane.columns, rows |-> <<>>]

Say ==
    \E text \in Texts :
        LET rows == Rows(text, pane.columns)
            lines == [k \in DOMAIN rows |-> [no |-> Len(log) + k, text |-> rows[k]]]
        IN  /\ Len(log) + Len(rows) <= MaxRows
            /\ view' = FoldLeft(Appended, view, lines)
            /\ log' = log \o lines
            /\ said' = [text |-> text, columns |-> pane.columns, rows |-> rows]
            /\ UNCHANGED pane

\* A page or a line, with the key or the arrows of the window.
ScrollUp ==
    /\ \E amount \in {1, pane.rows} :
          LET maximum == MaxScroll(view, pane.rows)
          IN  view' = [view EXCEPT !.scroll =
                          IF @ >= maximum THEN @
                          ELSE IF @ + amount < maximum THEN @ + amount ELSE maximum]
    /\ UNCHANGED <<pane, log, said>>

ScrollDown ==
    /\ \E amount \in {1, pane.rows} :
          view' = [view EXCEPT !.scroll = IF @ > amount THEN @ - amount ELSE 0]
    /\ UNCHANGED <<pane, log, said>>

\* gem_irc_app_clear, and gem_irc_app_buffer_reset of a tab used again.
Clear ==
    /\ view' = [view EXCEPT !.head = 0, !.count = 0, !.scroll = 0]
    /\ log' = <<>>
    /\ UNCHANGED <<pane, said>>

\* The window is sized: rows made later are as wide as it is now.
Resize ==
    /\ pane' \in [columns : Widths, rows : Heights]
    /\ UNCHANGED <<view, log, said>>

TextNext == Say \/ ScrollUp \/ ScrollDown \/ Clear \/ Resize

-----------------------------------------------------------------------------
(* Properties.                                                             *)

\* No row is wider than the window, and the rows of a text hold all of it but
\* its codes and blanks, in its order, wherever it was broken.
RowsHoldText ==
    LET Letters(s) == SelectSeq(s, LAMBDA ch : ch # " ")
    IN  /\ \A k \in DOMAIN said.rows : Len(said.rows[k]) <= said.columns
        /\ Letters(FlattenSeq(said.rows)) = Letters(Plain(said.text))

\* A word that would fit behind the indent of a row is broken only if the row
\* it is in has no blank in its second half.
WordsAreKept ==
    \A k \in 1..(Len(said.rows) - 1) :
        LET row == said.rows[k]
            half == Len(row) \div 2 + 1
        IN  Len(row) = said.columns =>
                \A j \in half..Len(row) : row[j] # " "

\* The ring, read from its head, is the end of what was appended.
RingIsLast ==
    /\ view.head \in 0..(ScrollLines - 1) /\ view.scroll \in 0..(ScrollLines - 1)
    /\ view.count = (IF Len(log) < ScrollLines THEN Len(log) ELSE ScrollLines)
    /\ \A k \in 1..view.count :
          view.line[(view.head + k - 1) % ScrollLines] = log[Len(log) - view.count + k]

\* The rows that the scroll offset stands for.
Window == SubSeq(log, Len(log) - view.count + WindowStart(view, pane.rows) + 1,
                 Len(log) - view.count + WindowStart(view, pane.rows)
                     + ShownRows(view, pane.rows))

\* Rows arrive while the user reads older ones, and the ring still holds all
\* that the window stands at.
ArrivesWhileRead ==
    /\ Len(log') > Len(log) /\ view.scroll > 0 /\ UNCHANGED pane
    /\ view.scroll + (Len(log') - Len(log)) <= MaxScroll(view', pane.rows)

\* gem_irc_app_append: the scroll offset then stands for the same rows of the
\* text as before, also when the ring runs over and its head moves on.  Which
\* slots are drawn for them is another matter: see DrawnStaysStill.
PlaceIsKept == ArrivesWhileRead => Window' = Window

\* gem_irc_app.c, of gem_irc_app_append: "keep a scrolled view still".  The rows
\* gem_irc_app_visible_line returns for the window are the same as before.
DrawnStaysStill ==
    ArrivesWhileRead => VisibleLines(view', pane.rows) = VisibleLines(view, pane.rows)
=============================================================================
