------------------------------- MODULE GemFont -------------------------------
(***************************************************************************)
(* The fonts (gem_vdi_font.c and the selection in gem_vdi_text.c).  The    *)
(* system font heads a table; VST_LOAD_FONTS puts the fonts of a directory *)
(* behind it, in order of face, size and style, each with a far segment of *)
(* its own.  Whatever changes the table or the request selects again, for  *)
(* all workstations.                                                       *)
(***************************************************************************)
EXTENDS Integers, FiniteSets, SequencesExt

CONSTANTS
    Directories,  \* what the font directory may hold: sequences of font files
    MaxFonts,     \* GEM_VDI_FONTS
    MaxFaces,     \* GEM_VDI_FACES
    Slots,        \* GEM_VDI_FONT_FILES: numbers of the far segments, 1 .. n
    Requests      \* sizes that are asked for

VARIABLES
    fonts,  \* gem_vdi_font_table
    faces,  \* gem_vdi_font_face_id
    taken,  \* which of gem_vdi_font_file hold a segment
    want,   \* gem_vdi_text_rq_font, _size, _attr and _type
    work    \* gem_vdi_text_font, _double and _special

fontVars == <<fonts, faces, taken, want, work>>

Styles == SUBSET {"thicken", "skew"}

\* The styles in the order of their codes.
Code(style) == (IF "thicken" \in style THEN 1 ELSE 0) + (IF "skew" \in style THEN 4 ELSE 0)

System == [face |-> 1, point |-> 10, top |-> 13, style |-> {}, slot |-> 0]

----------------------------------------------------------------------------
(* The table *)

Same(f, g) == f.face = g.face /\ f.point = g.point /\ f.style = g.style

\* Whether a new font f goes in front of g.
Before(f, g) ==
    \/ g.face > f.face
    \/ g.face = f.face /\ g.point > f.point
    \/ g.face = f.face /\ g.point = f.point /\ Code(g.style) > Code(f.style)

\* gem_vdi_font_slot_for
SlotFor(table, f) ==
    LET later == {i \in 2 .. Len(table) : Before(f, table[i])}
    IN  IF later = {} THEN Len(table) + 1 ELSE CHOOSE i \in later : \A j \in later : i <= j

\* gem_vdi_font_face_intern
Interned(known, face) ==
    IF Contains(known, face) \/ Len(known) >= MaxFaces THEN known ELSE Append(known, face)

\* gem_vdi_font_load_file: "file" may be no font, have no room, or break off.
LoadFile(s, file) ==
    LET free == Slots \ s.taken
        slot == CHOOSE i \in free : \A j \in free : i <= j
    IN  IF \/ file.fault \in {"header", "memory", "short"}
           \/ \E i \in DOMAIN s.fonts : Same(s.fonts[i], file)
           \/ free = {}
           \/ Len(s.fonts) >= MaxFonts
        THEN s
        ELSE [fonts |-> InsertAt(s.fonts, SlotFor(s.fonts, file),
                                 [face |-> file.face, point |-> file.point,
                                  top |-> file.top, style |-> file.style, slot |-> slot]),
              faces |-> Interned(s.faces, file.face),
              taken |-> s.taken \cup {slot}]

----------------------------------------------------------------------------
(* The selection, among the fonts "run" of one face *)

\* gem_vdi_text_sel_font: the first font of the face and those that follow it.
Run(table, face) ==
    LET Of(g) == {i \in DOMAIN table : table[i].face = g}
        first == CHOOSE i \in Of(face) : \A j \in Of(face) : i <= j
    IN  IF Of(face) = {} THEN SelectSeq(table, LAMBDA f : f.face = 1)
        ELSE SubSeq(table, first, first + Cardinality(Of(face)) - 1)

Size(w, f) == IF w.points THEN f.point ELSE f.top + 1

\* size_head: the first of the fonts of the same size.
SizeHead(run, i) ==
    CHOOSE j \in 1 .. i :
        /\ \A k \in j .. i : run[k].point = run[i].point
        /\ j = 1 \/ run[j - 1].point # run[i].point

\* The first font that is as large as is asked for, "times" enlarged.
Reaching(w, run, times) ==
    LET large == {i \in DOMAIN run : times * Size(w, run[i]) >= w.size}
    IN  IF large = {} THEN 0 ELSE CHOOSE i \in large : \A j \in large : i <= j

Exact(w, run, times) ==
    LET i == Reaching(w, run, times) IN i > 0 /\ times * Size(w, run[i]) = w.size

\* The nearest below: of two equally near the one that is not enlarged.
Nearest(w, run) ==
    LET Closer(best, i) ==
            LET size == Size(w, run[i])
                plain == IF size < w.size /\ w.size - size <= w.size - best.size
                         THEN [at |-> SizeHead(run, i), size |-> size, double |-> FALSE]
                         ELSE best
            IN  CASE 2 * size >= w.size -> plain
                  [] w.size - 2 * size < w.size - plain.size ->
                        [at |-> SizeHead(run, i), size |-> 2 * size, double |-> TRUE]
                  [] OTHER -> [plain EXCEPT !.double = TRUE]
    IN  FoldLeft(Closer, [at |-> 1, size |-> Size(w, run[1]), double |-> FALSE],
                 [i \in DOMAIN run |-> i])

\* gem_vdi_text_sel_size
SelSize(w, run) ==
    CASE Exact(w, run, 1) -> [at |-> SizeHead(run, Reaching(w, run, 1)), double |-> FALSE]
      [] ~Exact(w, run, 1) /\ Exact(w, run, 2) ->
            [at |-> SizeHead(run, Reaching(w, run, 2)), double |-> TRUE]
      [] OTHER -> [at |-> Nearest(w, run).at, double |-> Nearest(w, run).double]

\* gem_vdi_text_sel_effect: the font of the style, else one that has part of
\* it; the rest is drawn.
SelEffect(w, run, at) ==
    LET block == {i \in DOMAIN run : i >= at /\ \A j \in at .. i : run[j].point = run[at].point}
        Of(style) == {i \in block : run[i].style = style}
        LastOf(style) == CHOOSE i \in Of(style) : \A j \in Of(style) : j <= i
        find == w.effects \cap {"thicken", "skew"}
        both == find = {"thicken", "skew"}
    IN  CASE Of(find) # {} -> [font |-> run[LastOf(find)], special |-> w.effects \ find]
          [] Of(find) = {} /\ both /\ Of({"skew"}) # {} ->
                [font |-> run[LastOf({"skew"})], special |-> w.effects \ {"skew"}]
          [] Of(find) = {} /\ both /\ Of({"skew"}) = {} /\ Of({"thicken"}) # {} ->
                [font |-> run[LastOf({"thicken"})], special |-> w.effects \ {"thicken"}]
          [] OTHER ->
                [font |-> run[IF Of({}) # {} THEN LastOf({}) ELSE at], special |-> w.effects]

\* gem_vdi_text_sel_font
SelFont(table, w) ==
    LET run == Run(table, w.face)
        size == SelSize(w, run)
        effect == SelEffect(w, run, size.at)
    IN  [font |-> effect.font, special |-> effect.special, double |-> size.double]

----------------------------------------------------------------------------
(* The calls *)

\* gem_vdi_text_init
FontInit ==
    /\ fonts = <<System>>
    /\ faces = <<1>>
    /\ taken = {}
    /\ want = [face |-> 1, size |-> 10, points |-> TRUE, effects |-> {}]
    /\ work = [font |-> System, special |-> {}, double |-> FALSE]

\* VST_LOAD_FONTS
LoadFonts(directory) ==
    LET s == FoldLeft(LoadFile, [fonts |-> fonts, faces |-> faces, taken |-> taken], directory)
    IN  /\ fonts' = s.fonts
        /\ faces' = s.faces
        /\ taken' = s.taken
        /\ work' = SelFont(s.fonts, want)
        /\ UNCHANGED want

\* VST_UNLOAD_FONTS, and the end of the server
UnloadFonts ==
    /\ fonts' = <<fonts[1]>>
    /\ faces' = <<faces[1]>>
    /\ taken' = {}
    /\ want' = [want EXCEPT !.face = 1]
    /\ work' = SelFont(fonts', want')

Ask(w) ==
    /\ want' = w
    /\ work' = SelFont(fonts, w)
    /\ UNCHANGED <<fonts, faces, taken>>

\* VST_FONT, VST_POINT, VST_HEIGHT, VST_EFFECTS
SetFont(face) == Ask([want EXCEPT !.face = face])
SetPoint(size) == Ask([want EXCEPT !.size = size, !.points = TRUE])
SetHeight(size) == Ask([want EXCEPT !.size = size, !.points = FALSE])
SetEffects(effects) == Ask([want EXCEPT !.effects = effects])

FontNext ==
    \/ \E directory \in Directories : LoadFonts(directory)
    \/ UnloadFonts
    \/ \E face \in 1 .. 3 : SetFont(face)
    \/ \E size \in Requests : SetPoint(size) \/ SetHeight(size)
    \/ \E effects \in Styles : SetEffects(effects)

FontSpec == FontInit /\ [][FontNext]_fontVars

----------------------------------------------------------------------------
(* Properties *)

\* gem_vdi_font_insert: the system font first and the others in order, so that
\* no two are the same and those of a face, and of a size, are together.
TableIsOrdered ==
    /\ fonts[1] = System
    /\ \A i, j \in 2 .. Len(fonts) : i < j => Before(fonts[i], fonts[j])

\* gem_vdi_font_load_file, gem_vdi_font_unload_all: each font from a file has a
\* segment of its own, and no segment is held for nothing.
SegmentsBelongToFonts ==
    /\ \A i, j \in 2 .. Len(fonts) : fonts[i].slot = fonts[j].slot => i = j
    /\ taken = {fonts[i].slot : i \in 2 .. Len(fonts)}

\* gem_vdi_text_load_fonts: "the chain moved under the working header, reselect
\* on it": the font at work is one of the table.
WorkIsInTable == \E i \in DOMAIN fonts : fonts[i] = work.font

\* gem_vdi_text_sel_effect: what the font does not have is drawn.
EffectsAreShown == want.effects \subseteq work.font.style \cup work.special

OfWanted ==
    LET of == {i \in DOMAIN fonts : fonts[i].face = want.face}
    IN  IF of = {} THEN {i \in DOMAIN fonts : fonts[i].face = 1} ELSE of

\* gem_vdi_text_sel_size: of the sizes of the face and their doubles, the one
\* asked for, else the largest below, else the smallest; a doubled font only
\* where there is none of that size.
SizeIsClosest(set) ==
    LET plain == {Size(want, fonts[i]) : i \in set}
        below == {s \in plain \cup {2 * t : t \in plain} : s <= want.size}
        shown == (IF work.double THEN 2 ELSE 1) * Size(want, work.font)
    IN  /\ below # {} => shown \in below /\ \A s \in below : s <= shown
        /\ below = {} => ~work.double /\ \A s \in plain : shown <= s
        /\ work.double => shown \notin plain

\* The faces of the files, which are in order of their sizes.
SizesAreFound == work.font.face # 1 => SizeIsClosest(OfWanted)

FontSafety ==
    /\ TableIsOrdered
    /\ SegmentsBelongToFonts
    /\ WorkIsInTable
    /\ EffectsAreShown
    /\ SizesAreFound

=============================================================================
