------------------------------- MODULE GemText -------------------------------
(***************************************************************************)
(* Text on the screen (the measuring and drawing half of gem_vdi_text.c,   *)
(* and gem_vdi_text_justify): a string is measured, padded to a length,    *)
(* aligned at its point, and drawn one cell at a time, each cell taken     *)
(* from the font, scaled, slanted, made bold or grey, and turned.  Where   *)
(* the characters land is computed four times over: by the measure, by the *)
(* justification, by the inquiry and by the drawing.                       *)
(*                                                                         *)
(* "shown" keeps the last string drawn, at the point <<0, 0>> and without  *)
(* a clip; pixels are <<x, y>>, cells <<column, row>>.                     *)
(***************************************************************************)
EXTENDS Integers, FiniteSets, SequencesExt

CONSTANTS
    Fonts,      \* the fonts at work: header fields and the glyph of each code
    Texts,      \* strings of codes, Space and Unknown among them
    Specials,   \* sets of effects
    Scalings,   \* gem_vdi_text_dda_inc and gem_vdi_text_scale_up; NONE is no scaling
    Lengths,    \* lengths for a string to fill
    CellBits,   \* pixels in a byte of a cell
    Space,      \* the code of a blank
    NONE

VARIABLE shown

----------------------------------------------------------------------------
(* Sizes *)

\* The carries of gem_vdi_text_dda_inc in n steps from 32767, and one more for
\* each step when scaling up; 0xffff is twice as much.
Carries(scale, n) ==
    IF scale.inc = 65535 THEN 2 * n
    ELSE ((32767 + n * scale.inc) \div 65536) + (IF scale.up THEN n ELSE 0)

\* gem_vdi_text_act_siz
ActSiz(scale, n) ==
    IF scale = NONE \/ n = 0 THEN n
    ELSE IF ~scale.up /\ scale.inc # 65535 /\ Carries(scale, n) = 0 THEN 1
    ELSE Carries(scale, n)

\* gem_vdi_text_code
Known(f, code) == IF code \in DOMAIN f.glyphs THEN code ELSE Space

\* gem_vdi_text_sel_font: how far bold smears and italics lean.
Weight(f, s) == IF "thicken" \in s.effects THEN ActSiz(s.scale, f.thicken) ELSE 0
LeftOff(f, s) == IF "skew" \in s.effects THEN ActSiz(s.scale, f.left) ELSE 0
RightOff(f, s) == IF "skew" \in s.effects THEN ActSiz(s.scale, f.right) ELSE 0
CellHeight(f, s) == ActSiz(s.scale, f.height)
TextMono(f, s) == ActSiz(s.scale, f.cell) = f.narrow /\ f.monospace

Sum(f(_), text) == FoldLeft(LAMBDA sum, code : sum + f(code), 0, text)

\* gem_vdi_text_measure
Measure(f, s, text) ==
    LET Net(c) == f.glyphs[Known(f, c)].width
                    - f.glyphs[Known(f, c)].left - f.glyphs[Known(f, c)].right
    IN  ActSiz(s.scale, Sum(Net, text))
          + (IF f.monospace THEN 0 ELSE Len(text) * Weight(f, s))

----------------------------------------------------------------------------
(* Justification: every blank, or every character, is given a share of the *)
(* slack, and the first of them one pixel more.                            *)

NoJustify == [word |-> 0, wordExtra |-> 0, char |-> 0, charExtra |-> 0, sign |-> 1]

\* gem_vdi_text_justify
Justify(f, s, text, byWord, byChar, length) ==
    LET slack == length - Measure(f, s, text)
        sign == IF slack < 0 THEN -1 ELSE 1
        size == sign * slack
        spaces == Cardinality({i \in DOMAIN text : text[i] = Space})
    IN  CASE byWord /\ spaces > 0 ->
               [NoJustify EXCEPT !.sign = sign, !.word = sign * (size \div spaces),
                                 !.wordExtra = size % spaces]
          [] ~(byWord /\ spaces > 0) /\ byChar ->
               [NoJustify EXCEPT !.sign = sign, !.char = sign * (size \div Len(text)),
                                 !.charExtra = size % Len(text)]
          [] OTHER -> [NoJustify EXCEPT !.sign = sign]

\* gem_vdi_text_justify_step: the padding after a code, and what is left.
Step(j, code) ==
    CASE code = Space /\ j.wordExtra > 0 ->
           <<j.word + j.sign, [j EXCEPT !.wordExtra = @ - 1]>>
      [] code = Space /\ j.wordExtra = 0 -> <<j.word, j>>
      [] code # Space /\ j.charExtra > 0 ->
           <<j.char + j.sign, [j EXCEPT !.charExtra = @ - 1]>>
      [] OTHER -> <<j.char, j>>

AtLeastOne(n) == IF n < 1 THEN 1 ELSE n

\* gem_vdi_text_justified_offsets: how far each character is from the first.
Offsets(f, s, text, j) ==
    LET Place(t, c) ==
            LET code == Known(f, c)
                step == Step(t.j, code)
                advance == ActSiz(s.scale, f.glyphs[code].width)
                             - f.glyphs[code].left - f.glyphs[code].right
                             + (IF f.monospace THEN 0 ELSE Weight(f, s)) + step[1]
            IN  [at |-> t.at + AtLeastOne(advance), j |-> step[2],
                 offsets |-> Append(t.offsets, t.at)]
    IN  FoldLeft(Place, [at |-> 0, j |-> j, offsets |-> <<>>], text).offsets

----------------------------------------------------------------------------
(* Cells *)

\* The columns of a cell are cut to whole bytes that hold the widest one.
Limit(f, s) ==
    LET width == ActSiz(s.scale, f.cell) + Weight(f, s) + LeftOff(f, s) + RightOff(f, s)
    IN  ((width + CellBits - 1) \div CellBits) * CellBits

\* gem_vdi_text_compose: a row or column of the font is copied as often as
\* its step carries.
Compose(f, s, code) ==
    LET g == f.glyphs[code]
        Copies(n) == IF s.scale = NONE THEN {n}
                     ELSE Carries(s.scale, n) .. Carries(s.scale, n + 1) - 1
    IN  {c \in UNION {Copies(p[1]) \X Copies(p[2]) : p \in g.cells} : c[1] < Limit(f, s)}

\* gem_vdi_text_italic, gem_vdi_text_bold, gem_vdi_text_grey
Italic(cells, rows, limit) ==
    {c \in {<<p[1] + ((rows - 1 - p[2]) \div 2), p[2]>> : p \in cells} : c[1] < limit}
Bold(cells, weight, limit) ==
    {c \in UNION {{<<p[1] + k, p[2]>> : k \in 0 .. weight} : p \in cells} : c[1] < limit}
Grey(cells) == {c \in cells : (c[1] + c[2]) % 2 = 0}

\* gem_vdi_text_rotate
Turned(cells, rot, width, rows) ==
    {CASE rot = 0 -> c
       [] rot = 1 -> <<c[2], width - 1 - c[1]>>
       [] rot = 2 -> <<width - 1 - c[1], rows - 1 - c[2]>>
       [] rot = 3 -> <<rows - 1 - c[2], c[1]>> : c \in cells}

\* A character as it is drawn, and its width.
Cell(f, s, code) ==
    LET rows == CellHeight(f, s)
        limit == Limit(f, s)
        lean == LeftOff(f, s) + RightOff(f, s)
        bold == IF TextMono(f, s) THEN 0 ELSE Weight(f, s)
        width == ActSiz(s.scale, f.glyphs[code].width) + lean + bold
        plain == Compose(f, s, code)
        leant == IF "skew" \in s.effects THEN Italic(plain, rows, limit) ELSE plain
        thick == IF "thicken" \in s.effects THEN Bold(leant, Weight(f, s), limit) ELSE leant
        cut == IF width > limit THEN limit ELSE width
    IN  [width |-> cut,
         cells |-> {c \in (IF "light" \in s.effects THEN Grey(thick) ELSE thick) : c[1] < cut}]

----------------------------------------------------------------------------
(* Drawing *)

\* How far the point is from the left edge and from the top of the cells.
Along(f, s, text, h, v) ==
    LET width == Measure(f, s, text)
        top == AtLeastOne(f.top)
    IN  (CASE h = 0 -> 0 [] h = 1 -> width \div 2 [] h = 2 -> width)
          + (CASE v = 1 -> LeftOff(f, s) + (f.half * RightOff(f, s)) \div top
               [] v = 2 -> LeftOff(f, s) + (f.ascent * RightOff(f, s)) \div top
               [] v = 3 -> -(((f.bottom - f.descent) * LeftOff(f, s)) \div AtLeastOne(f.bottom))
               [] v = 4 -> 0
               [] v = 5 -> LeftOff(f, s) + RightOff(f, s)
               [] v = 0 -> LeftOff(f, s))

Across(f, v) ==
    CASE v = 1 -> f.half
      [] v = 2 -> f.ascent
      [] v = 3 -> -f.bottom
      [] v = 4 -> -f.descent
      [] v = 5 -> f.top
      [] v = 0 -> 0

\* Where the first cell is put.
Start(f, s, text, rot, h, v) ==
    LET delta_h == Along(f, s, text, h, v)
        rdel1 == f.top - Across(f, v)
        rdel2 == CellHeight(f, s) - f.top - 1 + Across(f, v)
    IN  CASE rot = 0 -> <<-delta_h, -rdel1>>
          [] rot = 1 -> <<-rdel1, delta_h>>
          [] rot = 2 -> <<delta_h, -rdel2>>
          [] rot = 3 -> <<-rdel2, -delta_h>>

Moved(p, rot, n) ==
    CASE rot = 0 -> <<p[1] + n, p[2]>>
      [] rot = 1 -> <<p[1], p[2] - n>>
      [] rot = 2 -> <<p[1] - n, p[2]>>
      [] rot = 3 -> <<p[1], p[2] + n>>

\* gem_vdi_text_draw.  Plain text of the system font goes straight to
\* gem_vdi_text_run or gem_vdi_glyph, cells of eight pixels side by side.
Draw(f, s, text, rot, h, v, j) ==
    LET plain == f.rom /\ s.effects = {} /\ s.scale = NONE /\ rot = 0
        rows == CellHeight(f, s)
        Put(t, c) ==
            LET code == Known(f, c)
                cell == Cell(f, s, code)
                step == Step(t.j, code)
                turned == Turned(cell.cells, rot, cell.width, rows)
                corner == CASE rot = 1 -> <<t.at[1], t.at[2] - cell.width + 1>>
                            [] rot = 2 -> <<t.at[1] - cell.width + 1, t.at[2]>>
                            [] OTHER -> t.at
                advance == IF plain THEN f.narrow + step[1]
                           ELSE cell.width - f.glyphs[code].left - f.glyphs[code].right + step[1]
            IN  [at |-> Moved(t.at, rot, AtLeastOne(advance)),
                 j |-> step[2],
                 places |-> Append(t.places, t.at),
                 pixels |-> t.pixels \cup {<<corner[1] + c2[1], corner[2] + c2[2]>> : c2 \in turned}]
    IN  FoldLeft(Put, [at |-> Start(f, s, text, rot, h, v), j |-> j,
                       places |-> <<>>, pixels |-> {}], text)

TextInit == shown = NONE

Show(f, s, text, h, v, j, length, by) ==
    shown' = [font |-> f, style |-> s, text |-> text, align |-> <<h, v>>,
              length |-> length, by |-> by,
              offsets |-> Offsets(f, s, text, j),
              drawn |-> [rot \in 0 .. 3 |-> Draw(f, s, text, rot, h, v, j)]]

\* V_GTEXT
DrawText(f, s, text, h, v) == Show(f, s, text, h, v, NoJustify, NONE, NONE)

\* V_JUSTIFIED
DrawJustified(f, s, text, byWord, byChar, length) ==
    Show(f, s, text, 0, 0, Justify(f, s, text, byWord, byChar, length), length,
         <<byWord, byChar>>)

TextNext ==
    /\ shown = NONE
    /\ \E f \in Fonts, text \in Texts, effects \in Specials, scale \in Scalings :
         LET s == [effects |-> effects, scale |-> scale]
         IN  \/ \E h \in 0 .. 2, v \in 0 .. 5 : DrawText(f, s, text, h, v)
             \/ \E byWord, byChar \in BOOLEAN, length \in Lengths :
                  DrawJustified(f, s, text, byWord, byChar, length)

TextSpec == TextInit /\ [][TextNext]_shown

----------------------------------------------------------------------------
(* Properties *)

Quarter(p) == <<p[2], -p[1]>>

\* gem_vdi_text_draw, gem_vdi_text_rotate: text that is turned is the same
\* text turned about its point, whatever its effects, its alignment and its
\* padding, and though plain level text is drawn by other code.
TextTurns ==
    shown # NONE =>
        \A rot \in 1 .. 3 :
            shown.drawn[rot].pixels = {Quarter(p) : p \in shown.drawn[rot - 1].pixels}

\* gem_vdi_text_justified_offsets: "where each character would land" is where
\* the drawing puts it.  Slanted text, and bold text of a monospaced font that
\* is not eight wide, is left out: there the two disagree.
OffsetsAreThePlaces ==
    shown # NONE /\ "skew" \notin shown.style.effects
        /\ ("thicken" \in shown.style.effects =>
              shown.font.monospace = TextMono(shown.font, shown.style)) =>
        LET places == shown.drawn[0].places
        IN  \A i \in DOMAIN places : shown.offsets[i] = places[i][1] - places[1][1]

\* Text as it is in the font, of codes the font has, whose characters are
\* nowhere pushed together until they would meet.
Plainly ==
    /\ shown.style = [effects |-> {}, scale |-> NONE]
    /\ \A i \in DOMAIN shown.text : shown.text[i] \in DOMAIN shown.font.glyphs
    /\ LET places == Append(shown.drawn[0].places, shown.drawn[0].at)
       IN  \A i \in DOMAIN shown.text : places[i + 1][1] - places[i][1] > 1

Blanks == Space \in ToSet(shown.text)

\* gem_vdi_text_measure, gem_vdi_text_justify: a string aligned at its right
\* end ends at its point, and one padded between its words, or without blanks
\* between its characters, at the length it has to fill.
TextEndsWhereItShould ==
    shown # NONE /\ Plainly =>
        LET end == shown.drawn[0].at[1]
        IN  IF shown.length = NONE THEN shown.align[1] = 2 => end = 0
            ELSE (IF Blanks THEN shown.by[1] ELSE shown.by[2]) => end = shown.length

TextSafety == TextTurns /\ OffsetsAreThePlaces /\ TextEndsWhereItShould
=============================================================================
