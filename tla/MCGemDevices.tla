---------------------------- MODULE MCGemDevices ----------------------------
(* The VDI and what is below it, each part on a small instance and one at a  *)
(* time: "scene" says which one is at work, the others stay as they begin.   *)
(*                                                                           *)
(* cursor:     a screen of two bytes of two cells and a cursor of two cells, *)
(*             so that it lies on one byte, across both, or half off the     *)
(*             screen, and leaves cells beside it in the bytes it saves.     *)
(* stations:   two clients, two workstations, clips that cover the screen,   *)
(*             part of it and none of it.                                    *)
(* attributes: one workstation, values on and beyond the ends of each range. *)
(* input:      every mouse, few keys, packets with a byte lost.              *)
(* fonts:      directories of two files: faces, sizes, styles, the same font *)
(*             twice, and a file that is cut short.                          *)
(* raster:     a screen of eight by three pixels in bytes of three; clips    *)
(*             inside and around it, coordinates of six bits.                *)
(* text:       the system font, a proportional font with offsets and a wide  *)
(*             monospaced one; plain, scaled up, doubled and scaled down.    *)
EXTENDS GemVdi, GemInput, TLC

CONSTANTS
    c1, c2,
    \* those of GemFont
    Directories, MaxFonts, MaxFaces, Slots, Requests,
    \* those of GemRaster
    Width, Height, ByteCells, WordBits, Corners, Places, Extents, Clips, Polygons, PatternCells,
    \* those of GemText
    Fonts, Texts, Specials, Scalings, Lengths, CellBits, Space

VARIABLES
    scene,
    fonts, faces, taken, want, work,
    job,
    shown

fontVars == <<fonts, faces, taken, want, work>>

Font == INSTANCE GemFont
Raster == INSTANCE GemRaster
Text == INSTANCE GemText

----------------------------------------------------------------------------
(* Workstations and the cursor *)

MCForms == {0, 1}
MCHotSpot == 0 :> 0 @@ 1 :> 1
MCAreas == {<<0, 1>>, <<3, 3>>}
MCLows == {-1, 1}

CursorScene ==
    /\ CursorNext \/ DrawNext \/ Open(c1)
    /\ \A h \in Stations : ws'[h].open => h = 1 /\ ws'[h].clip = NONE

\* The cursor is hidden first, and stays so.
StationScene ==
    IF scr.hidden = 0 THEN GrafHide
    ELSE \/ StationNext
         \/ \E c \in Clients, h \in Stations : Fill(c, h, <<0, Columns - 1>>) \/ Clear(c, h)
         \/ \E i \in Areas : AesDraw(i)

AttributeScene == (AttributeNext \/ Open(c1)) /\ ~ws'[2].open

\* gem_vdi_apply_workstation: see GemVdi.
OwnClipsHold == [][scene = "stations" => OwnClips]_vars

----------------------------------------------------------------------------
(* Input *)

MCMoves == {-6, 0}
MCKeys == "ms" :> {"end"}
          @@ "amstrad" :> {"rctrl", "rshift", "letter", "button"}
          @@ "none" :> {"home", "end", "rshift", "lctrl", "grey left", "letter"}

----------------------------------------------------------------------------
(* Fonts *)

FontFile(id, size, s, broken) ==
    [face |-> id, point |-> size, top |-> size + 3, style |-> s, fault |-> broken]

MCFiles ==
    {FontFile(1, 8, {}, "no"), FontFile(2, 8, {}, "no"), FontFile(2, 16, {}, "no"),
     FontFile(2, 8, {"thicken"}, "no"), FontFile(2, 8, {"skew"}, "no"),
     FontFile(3, 12, {"skew"}, "no"), FontFile(2, 12, {}, "short")}
MCDirectories == {<<f, g>> : f, g \in MCFiles}

----------------------------------------------------------------------------
(* Drawing *)

MCPlaces == {-2, 0, 1, 3}
MCCorners == {-2, 0, 2, 5, 8} \X {-1, 0, 1, 3}
MCClips == {<<0, 0, 0, 0, 0>>, <<1, 1, 1, 4, 2>>, <<1, -2, -1, 5, 9>>}
MCPolygons ==
    {<<a, b, c>> : a \in {<<0, 0>>, <<3, -1>>}, b, c \in {-1, 2, 5, 7} \X {0, 2, 3}}
    \cup {<<<<0, 0>>, <<5, 3>>, <<5, 0>>, <<0, 3>>>>,
          <<<<1, 0>>, <<6, 1>>, <<2, 3>>, <<7, 3>>, <<-1, 1>>>>}
MCPattern ==
    {<<0, 0>>, <<1, 0>>, <<2, 1>>, <<0, 2>>, <<2, 2>>, <<3, 0>>, <<3, 2>>, <<4, 1>>, <<5, 0>>}

Glyph(w, l, r, set) == [width |-> w, left |-> l, right |-> r, cells |-> set]

Letter == {<<0, 0>>, <<0, 1>>, <<0, 2>>, <<1, 1>>, <<2, 0>>}

SmallFont(rom, mono, cell, glyphs) ==
    [rom |-> rom, monospace |-> mono, narrow |-> 4, cell |-> cell, height |-> 4,
     top |-> 2, half |-> 1, ascent |-> 1, descent |-> 1, bottom |-> 1,
     thicken |-> 1, left |-> 1, right |-> 1, glyphs |-> glyphs]

\* 32 is the blank, 65 and 66 are letters, and no font has 99.
MCFonts ==
    {SmallFont(TRUE, TRUE, 4,
               32 :> Glyph(4, 0, 0, {}) @@ 65 :> Glyph(4, 0, 0, Letter)
               @@ 66 :> Glyph(4, 0, 0, {<<3, 3>>})),
     SmallFont(FALSE, FALSE, 5,
               32 :> Glyph(3, 0, 0, {}) @@ 65 :> Glyph(5, 1, 0, Letter \cup {<<4, 3>>})
               @@ 66 :> Glyph(4, 0, 1, {<<3, 3>>})),
     SmallFont(FALSE, TRUE, 6,
               32 :> Glyph(6, 0, 0, {}) @@ 65 :> Glyph(6, 0, 0, Letter \cup {<<5, 2>>}))}
MCTexts == {<<65>>, <<65, 66>>, <<32, 66, 65>>, <<65, 32, 65>>, <<65, 99, 66>>, <<65, 32, 66, 32>>}
MCSpecials == {{}, {"skew"}, {"thicken"}, {"light"}, {"skew", "thicken"}}
MCScalings ==
    {NONE, [inc |-> 65535, up |-> TRUE], [inc |-> 32768, up |-> TRUE],
     [inc |-> 43690, up |-> FALSE]}

\* gem_vdi_read_keyboard, gem_mouse_ms_parse: see GemInput.
\* gem_vdi_font_insert, gem_vdi_text_sel_font: see GemFont.
\* gem_vdi_line and the other shapes: see GemRaster.
\* gem_vdi_text_draw: see GemText.
DeviceSafety ==
    /\ scene = "input" => InputSafety
    /\ scene = "fonts" => Font!FontSafety
    /\ Raster!RasterSafety
    /\ Text!TextSafety

----------------------------------------------------------------------------

MCInit ==
    /\ scene \in {"cursor", "stations", "attributes", "input", "fonts", "raster", "text"}
    /\ VdiInit
    /\ InputInit
    /\ (scene # "input" => protocol = "none")
    /\ Font!FontInit
    /\ Raster!RasterInit
    /\ Text!TextInit

VdiScene ==
    \/ scene = "cursor" /\ CursorScene
    \/ scene = "stations" /\ StationScene
    \/ scene = "attributes" /\ AttributeScene

MCNext ==
    /\ UNCHANGED scene
    /\ \/ VdiScene /\ UNCHANGED <<inputVars, fontVars, job, shown>>
       \/ scene = "input" /\ InputNext /\ UNCHANGED <<vars, fontVars, job, shown>>
       \/ scene = "fonts" /\ Font!FontNext /\ UNCHANGED <<vars, inputVars, job, shown>>
       \/ scene = "raster" /\ Raster!RasterNext /\ UNCHANGED <<vars, inputVars, fontVars, shown>>
       \/ scene = "text" /\ Text!TextNext /\ UNCHANGED <<vars, inputVars, fontVars, job>>

MCSpec == MCInit /\ [][MCNext]_<<scene, vars, inputVars, fontVars, job, shown>>

\* What of a state the steps of its scene can still tell apart: drawing sets
\* clip and color before it uses them, and nothing but the drawings of the
\* stations scene is compared with them.
MCView ==
    <<scene,
      CASE scene = "cursor" -> <<ws, scr, hot>>
        [] scene = "stations" -> <<live, ws, opened, clip, scr>>
        [] scene = "attributes" -> <<ws, opened>>
        [] scene = "input" -> inputVars
        [] scene = "fonts" -> fontVars
        [] scene = "raster" -> job
        [] scene = "text" -> shown>>
=============================================================================
