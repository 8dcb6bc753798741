------------------------------- MODULE GemVdi -------------------------------
(***************************************************************************)
(* The VDI (gem_vdi_resident.c, gem_vdi_mouse.c, and the cursor and the    *)
(* clip of gem_vdi.c).  Clients open workstations, each with attributes of *)
(* its own; there is one adapter, whose color, mode and clip are loaded    *)
(* from the workstation before each drawing, and one mouse cursor, which   *)
(* is drawn into the same video memory after the bytes below it are saved. *)
(* Drawing takes the cursor off the screen only if it touches it.          *)
(*                                                                         *)
(* The screen is one row of cells in bytes of a few cells.  What the video *)
(* memory shows is kept beside "picture", what was drawn, without cursor.  *)
(***************************************************************************)
EXTENDS Integers, FiniteSets, Functions

CONSTANTS
    Clients,      \* the applications
    Stations,     \* numbers of the workstations, 1 .. n
    Columns,      \* gem_vdi_screen->xres
    SaveCells,    \* cells in a byte of video memory
    CursorWidth,  \* GEM_CURSOR_WIDTH
    Forms,        \* mouse forms of the resource
    HotSpot,      \* the hot spot of each
    Values,       \* what clients ask of an attribute
    Areas,        \* what is drawn, as <<first cell, last cell>>
    Lows, Highs,  \* the ends clients ask of a clip
    MaxHides,     \* bound of the model on the hides of the cursor
    NONE

ASSUME VdiAssumption ==
    /\ Columns \in Nat \ {0} /\ SaveCells \in Nat \ {0} /\ CursorWidth \in Nat \ {0}
    /\ NONE \notin Clients
    /\ Stations \subseteq Nat /\ IsFiniteSet(Stations)
    /\ Values \cup Lows \cup Highs \subseteq Int
    /\ Areas \subseteq (0 .. Columns - 1) \X (0 .. Columns - 1)

\* The forms of the resource have their hot spots inside.
ASSUME HotSpotAssumption == 0 \in Forms /\ HotSpot \in [Forms -> 0 .. CursorWidth - 1]

Screen == 0 .. Columns - 1
Pens == {"white", "black"}
Intervals == {i \in Screen \X Screen : i[1] <= i[2]}
Cells(i) == i[1] .. i[2]

VARIABLES
    live,     \* the clients connected
    ws,       \* gem_vdi_workstations
    opened,   \* gem_vdi_open_count
    clip,     \* gem_clip_x1 and gem_clip_x2
    pen,      \* gem_foreground
    scr,      \* video memory and cursor
    hot       \* gem_vdi_cursor_hot_x

vars == <<live, ws, opened, clip, pen, scr, hot>>

----------------------------------------------------------------------------
(* Attributes.  A request outside the range of an attribute is replaced by *)
(* one inside it.                                                          *)

Patterns == 0 .. 7      \* rows of gem_vdi_fill_patterns
Hatches == 0 .. 11      \* rows of gem_vdi_fill_hatches
Shapes == 0 .. 5        \* gem_vdi_marker_shapes
MarkerHeight == 11      \* GEM_VDI_MARKER_HEIGHT
MarkerMax == 88         \* GEM_VDI_MARKER_MAX_HEIGHT

Between(low, v, high) == IF v < low THEN low ELSE IF v > high THEN high ELSE v
OneOf(range, v, default) == IF v \in range THEN v ELSE default

\* What workstation w keeps of value v for attribute a.
Kept(w, a, v) ==
    CASE a = "interior" -> OneOf(0 .. 4, v, 0)
      [] a = "style"    -> IF w.interior = 3 THEN Between(1, v, 12) ELSE Between(1, v, 24)
      [] a = "marker"   -> OneOf(1 .. 6, v, 1)
      [] a = "height"   -> Between(MarkerHeight, v, MarkerMax)
      [] a = "mode"     -> OneOf(1 .. 4, v, 1)

Attributes == {"interior", "style", "marker", "height", "mode"}

\* gem_vdi_fill_rows: the row of a table, the client's own pattern, or none.
FillRows(w) ==
    LET style == IF w.style < 1 THEN 1 ELSE w.style
    IN  CASE w.interior = 2 /\ style > 8 -> <<"pattern", 4>>
          [] w.interior = 2 /\ style \in 1 .. 6 -> <<"pattern", style>>
          [] w.interior = 3 -> <<"hatch", (IF style > 12 THEN 12 ELSE style) - 1>>
          [] w.interior = 4 -> <<"user", 0>>
          [] OTHER -> NONE

\* gem_vdi_draw_markers: the shape, and how much it is enlarged.
MarkerShape(w) == OneOf(1 .. 6, w.marker, 1) - 1
MarkerScale(w) ==
    LET scale == (w.height + MarkerHeight \div 2) \div MarkerHeight
    IN  IF scale < 1 THEN 1 ELSE scale

----------------------------------------------------------------------------
(* Workstations *)

Closed == [open |-> FALSE, owner |-> NONE]

Fresh(c) ==
    [open |-> TRUE, owner |-> c, hides |-> 1, clip |-> NONE, pen |-> "black",
     interior |-> 1, style |-> 7, marker |-> 3, height |-> MarkerHeight, mode |-> 1]

\* gem_vdi_find_workstation
Owns(c, h) == c \in live /\ ws[h].open /\ ws[h].owner = c

\* The clip of a workstation in the cells of the screen.
Clip(w) == IF w.clip = NONE THEN <<0, Columns - 1>> ELSE w.clip

----------------------------------------------------------------------------
(* The cursor *)

CursorCells(s) == (s.at .. s.at + CursorWidth - 1) \cap Screen

\* gem_cursor_prepare: whole bytes are saved.
SavedCells(s) ==
    {p \in Screen : \E q \in CursorCells(s) : p \div SaveCells = q \div SaveCells}

\* Mutant: the saved bytes stay where they are.
LiftedNot(s) == [s EXCEPT !.drawn = FALSE, !.save = <<>>]

\* gem_cursor_remove, gem_pc_restore_cursor
Lifted(s) ==
    IF ~s.drawn THEN s
    ELSE [s EXCEPT !.video = [p \in Screen |-> IF p \in DOMAIN s.save THEN s.save[p]
                                               ELSE s.video[p]],
                   !.drawn = FALSE,
                   !.save = <<>>]

\* gem_cursor_draw, gem_pc_draw_cursor
Drawn(s) ==
    IF s.hidden > 0 \/ s.drawn \/ CursorCells(s) = {} THEN s
    ELSE [s EXCEPT !.save = Restrict(s.video, SavedCells(s)),
                   !.video = [p \in Screen |-> IF p \in CursorCells(s) THEN "cursor"
                                               ELSE s.video[p]],
                   !.drawn = TRUE]

Again(drawn, s) == IF drawn THEN Drawn(s) ELSE s

\* gem_vdi_hide_cursor, gem_vdi_show_cursor
Hide(s) == [(IF s.hidden = 0 THEN Lifted(s) ELSE s) EXCEPT !.hidden = @ + 1]
Show(s) == Drawn([s EXCEPT !.hidden = IF @ > 0 THEN @ - 1 ELSE 0])

\* gem_vdi_move_cursor
MoveTo(s, x) ==
    IF x = s.at THEN s ELSE Again(s.drawn, [Lifted(s) EXCEPT !.at = x])

\* gem_vdi_set_cursor: the new image is drawn where the old one was.
SetCursor(s) == Again(s.drawn, Lifted(s))

----------------------------------------------------------------------------
(* Drawing *)

\* gem_begin_draw looks at the cells of the cursor, not at those saved.
Touches(s, cells) == s.drawn /\ cells \cap CursorCells(s) # {}

\* "spoilt" are the cells that drawing has left to be overwritten: those the
\* cursor's saved bytes hold beside it, and those copied from below it.
Painted(s, cells, color) ==
    LET t == IF Touches(s, cells) THEN Lifted(s) ELSE s
    IN  IF cells = {} THEN s
        ELSE Again(Touches(s, cells),
                [t EXCEPT !.video = [p \in Screen |-> IF p \in cells THEN color ELSE @[p]],
                          !.picture = [p \in Screen |-> IF p \in cells THEN color ELSE @[p]],
                          !.spoilt = (@ \ cells) \cup (cells \cap DOMAIN t.save)])

\* gem_vdi_blit: "from" to "to", all cells at once, those inside the clip.
Copied(s, from, to, width, in) ==
    LET whole == to .. to + width - 1
        cells == whole \cap in
        t == IF Touches(s, whole) THEN Lifted(s) ELSE s
        Source(p) == p - to + from
    IN  Again(Touches(s, whole),
            [t EXCEPT !.video = [p \in Screen |-> IF p \in cells THEN @[Source(p)] ELSE @[p]],
                      !.picture = [p \in Screen |-> IF p \in cells THEN @[Source(p)] ELSE @[p]],
                      !.spoilt = (@ \ cells) \cup
                          {p \in cells : \/ Source(p) \in t.spoilt
                                         \/ p \in DOMAIN t.save
                                         \/ t.drawn /\ Source(p) \in CursorCells(t)}])

----------------------------------------------------------------------------
(* The server has started: white screen, default mouse in the middle.      *)

VdiInit ==
    LET white == [p \in Screen |-> "white"]
    IN  /\ live = Clients
        /\ ws = [h \in Stations |-> Closed]
        /\ opened = 0
        /\ clip = <<0, Columns - 1>>
        /\ pen = "white"
        /\ hot = HotSpot[0]
        /\ scr = Drawn([video |-> white, picture |-> white, spoilt |-> {}, save |-> <<>>,
                        drawn |-> FALSE, hidden |-> 0, at |-> Columns \div 2 - HotSpot[0]])

\* gem_vdi_open_workstation: the first that is free.
Open(c) ==
    /\ c \in live
    /\ \E h \in Stations :
         /\ ~ws[h].open /\ \A g \in Stations : g < h => ws[g].open
         /\ ws' = [ws EXCEPT ![h] = Fresh(c)]
    /\ opened' = opened + 1
    /\ UNCHANGED <<live, clip, pen, scr, hot>>

Close(c, h) ==
    /\ Owns(c, h)
    /\ ws' = [ws EXCEPT ![h] = Closed]
    /\ opened' = IF opened > 0 THEN opened - 1 ELSE 0
    /\ UNCHANGED <<live, clip, pen, scr, hot>>

\* gem_vdi_resident_release: all workstations of a client.
Release(c) ==
    /\ ws' = [h \in Stations |-> IF ws[h].owner = c THEN Closed ELSE ws[h]]
    /\ opened' = opened - Cardinality({h \in Stations : ws[h].owner = c})

VdiExit(c) ==
    /\ c \in live
    /\ live' = live \ {c}
    /\ Release(c)
    /\ UNCHANGED <<clip, pen, scr, hot>>

VdiAttach(c) ==
    /\ c \notin live
    /\ live' = live \cup {c}
    /\ UNCHANGED <<ws, opened, clip, pen, scr, hot>>

SetAttribute(c, h, a, v) ==
    /\ Owns(c, h)
    /\ ws' = [ws EXCEPT ![h][a] = Kept(ws[h], a, v)]
    /\ UNCHANGED <<live, opened, clip, pen, scr, hot>>

SetColor(c, h, p) ==
    /\ Owns(c, h)
    /\ ws' = [ws EXCEPT ![h].pen = p]
    /\ UNCHANGED <<live, opened, clip, pen, scr, hot>>

\* VS_CLIP: cut to the screen, and off if nothing of it is left.
SetClip(c, h, low, high) ==
    /\ Owns(c, h)
    /\ LET x1 == IF low < 0 THEN 0 ELSE low
           x2 == IF high >= Columns THEN Columns - 1 ELSE high
       IN  ws' = [ws EXCEPT ![h].clip = IF x2 < x1 THEN NONE ELSE <<x1, x2>>]
    /\ UNCHANGED <<live, opened, clip, pen, scr, hot>>

\* Mutant: a workstation without a clip leaves the one that is set.
ApplyWorkstationKeepsClip(w, color) ==
    /\ clip' = IF w.clip = NONE THEN clip ELSE w.clip
    /\ pen' = color

\* gem_vdi_apply_workstation
ApplyWorkstation(w, color) ==
    /\ clip' = Clip(w)
    /\ pen' = color

\* VR_RECFL, and the shapes that are drawn the same way.
Fill(c, h, i) ==
    /\ Owns(c, h)
    /\ ApplyWorkstation(ws[h], ws[h].pen)
    /\ scr' = Painted(scr, Cells(i) \cap Cells(clip'), pen')
    /\ UNCHANGED <<live, ws, opened, hot>>

Clear(c, h) ==
    /\ Owns(c, h)
    /\ ApplyWorkstation(ws[h], "white")
    /\ scr' = Painted(scr, Cells(clip'), pen')
    /\ UNCHANGED <<live, ws, opened, hot>>

\* VRO_CPYFM from screen to screen; the source is on the screen.
Copy(c, h, i, to) ==
    /\ Owns(c, h)
    /\ ApplyWorkstation(ws[h], ws[h].pen)
    /\ scr' = Copied(scr, i[1], to, i[2] - i[1] + 1, Cells(clip'))
    /\ UNCHANGED <<live, ws, opened, hot>>

\* The AES draws an object: it hides the cursor and sets clip and color.
AesDraw(i) ==
    /\ scr.hidden < MaxHides
    /\ clip' = i /\ pen' = "white"
    /\ scr' = Show(Painted(Hide(scr), Cells(i), "white"))
    /\ UNCHANGED <<live, ws, opened, hot>>

----------------------------------------------------------------------------
(* The cursor and the mouse *)

\* V_HIDE_C and V_SHOW_C count for each workstation, and pass the first and
\* the last on.
VHideC(c, h) ==
    /\ Owns(c, h) /\ ws[h].hides < MaxHides /\ scr.hidden < MaxHides
    /\ scr' = IF ws[h].hides = 0 THEN Hide(scr) ELSE scr
    /\ ws' = [ws EXCEPT ![h].hides = @ + 1]
    /\ UNCHANGED <<live, opened, clip, pen, hot>>

VShowC(c, h, reset) ==
    /\ Owns(c, h)
    /\ LET hides == IF reset THEN 1 ELSE ws[h].hides
           rest == IF hides > 0 THEN hides - 1 ELSE 0
       IN  /\ ws' = [ws EXCEPT ![h].hides = rest]
           /\ scr' = IF rest = 0 THEN Show(scr) ELSE scr
    /\ UNCHANGED <<live, opened, clip, pen, hot>>

\* GRAF_MOUSE with M_OFF and M_ON.
GrafHide ==
    /\ scr.hidden < MaxHides
    /\ scr' = Hide(scr)
    /\ UNCHANGED <<live, ws, opened, clip, pen, hot>>

GrafShow ==
    /\ scr' = Show(scr)
    /\ UNCHANGED <<live, ws, opened, clip, pen, hot>>

\* GRAF_MOUSE with a form: the mouse is read, and the cursor put there.  A
\* form of the client's own is checked and not read: the last form of the
\* resource is set again.
GrafForm(form, x) ==
    /\ scr' = MoveTo(SetCursor(scr), x - HotSpot[form])
    /\ hot' = HotSpot[form]
    /\ UNCHANGED <<live, ws, opened, clip, pen>>

\* VSC_FORM leaves the hot spot as it was.
VscForm(c, h) ==
    /\ Owns(c, h)
    /\ scr' = SetCursor(scr)
    /\ UNCHANGED <<live, ws, opened, clip, pen, hot>>

\* gem_vdi_resident_poll_input: the mouse has moved.
Poll(x) ==
    /\ scr' = MoveTo(scr, x - hot)
    /\ UNCHANGED <<live, ws, opened, clip, pen, hot>>

CursorNext ==
    \/ \E i \in Areas : AesDraw(i)
    \/ GrafHide
    \/ GrafShow
    \/ \E form \in Forms, x \in Screen : GrafForm(form, x)
    \/ \E x \in Screen : Poll(x)
    \/ \E c \in Clients, h \in Stations :
         \/ VHideC(c, h)
         \/ \E reset \in BOOLEAN : VShowC(c, h, reset)
         \/ VscForm(c, h)

DrawNext ==
    \E c \in Clients, h \in Stations :
        \/ \E i \in Areas : Fill(c, h, i)
        \/ Clear(c, h)
        \/ \E i \in Areas, to \in Screen : Copy(c, h, i, to)

StationNext ==
    \E c \in Clients :
        \/ Open(c)
        \/ VdiExit(c)
        \/ VdiAttach(c)
        \/ \E h \in Stations :
             \/ Close(c, h)
             \/ \E low \in Lows, high \in Highs : SetClip(c, h, low, high)

AttributeNext ==
    \E c \in Clients, h \in Stations :
        \/ \E p \in Pens : SetColor(c, h, p)
        \/ \E a \in Attributes, v \in Values : SetAttribute(c, h, a, v)

VdiNext == CursorNext \/ DrawNext \/ StationNext \/ AttributeNext

VdiSpec == VdiInit /\ [][VdiNext]_vars

----------------------------------------------------------------------------
(* Properties *)

\* gem_begin_draw, gem_cursor_draw, gem_cursor_remove: the video memory is
\* the picture with the cursor upon it, and the saved bytes are the picture
\* below, for all cells that no drawing beside the cursor has spoilt.
CursorLiesOnTop ==
    \A p \in Screen \ scr.spoilt :
        /\ scr.video[p] = IF scr.drawn /\ p \in CursorCells(scr) THEN "cursor"
                          ELSE scr.picture[p]
        /\ p \in DOMAIN scr.save => scr.save[p] = scr.picture[p]

\* The cursor is on the screen exactly while nothing hides it.
CursorIsUp == scr.drawn <=> scr.hidden = 0

CursorSafety == CursorLiesOnTop /\ CursorIsUp

\* gem_vdi_allocate_workstation, gem_vdi_resident_release: workstations belong
\* to clients that live and are counted, and none has a clip off the screen.
StationsAreOwned ==
    /\ opened = Cardinality({h \in Stations : ws[h].open})
    /\ \A h \in Stations : ws[h].open =>
         /\ ws[h].owner \in live
         /\ Clip(ws[h]) \in Intervals

\* gem_vdi_fill_rows, gem_vdi_draw_markers: whatever was asked for, and in
\* whatever order, drawing stays inside its tables.
TablesHold ==
    \A h \in Stations : ws[h].open =>
        /\ FillRows(ws[h]) \in ({"pattern"} \X Patterns) \cup ({"hatch"} \X Hatches)
                                \cup {<<"user", 0>>, NONE}
        /\ MarkerShape(ws[h]) \in Shapes
        /\ MarkerScale(ws[h]) \in 1 .. 8
        /\ ws[h].mode \in 1 .. 4

StationSafety == StationsAreOwned /\ TablesHold

\* The cursor and what is drawn under it agree, and so do the workstations
\* and their clients.
VdiSafety == CursorSafety /\ StationSafety

\* gem_vdi_apply_workstation: each workstation draws in its own color and
\* all of its own clip and no more, whatever the others and the AES have set
\* in the meantime.
OwnClips ==
    \A c \in Clients, h \in Stations :
        LET Own(cells, color) ==
                scr'.picture = [p \in Screen |->
                    IF p \in cells \cap Cells(Clip(ws[h])) THEN color ELSE scr.picture[p]]
        IN  /\ Clear(c, h) => Own(Screen, "white")
            /\ \A i \in Areas : Fill(c, h, i) => Own(Cells(i), ws[h].pen)
=============================================================================
