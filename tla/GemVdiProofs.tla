---------------------------- MODULE GemVdiProofs ----------------------------
(***************************************************************************)
(* What is drawn and pointed with: the VDI, the object trees, and the      *)
(* keyboard and the mouse.                                                 *)
(*                                                                         *)
(* The cursor and the workstations of the VDI, for a screen of any width,  *)
(* saved bytes of any size, a cursor of any width, and any number of       *)
(* clients and of workstations.                                            *)
(*                                                                         *)
(* What the cursor and the video memory look like is a matter of one       *)
(* record, scr, and every operation on it is an operator.  The invariant   *)
(* says what the operators need of it and what they keep.  It adds to the  *)
(* properties the run checks that the saved cells are just those around    *)
(* the cursor while it is drawn, and that some of the cursor is always on  *)
(* the screen: without that it could be up and yet not drawn.              *)
(*                                                                         *)
(* Object trees of any number of objects, whatever tree the client built.  *)
(* The invariant, Now, says that the links are those of the lists of       *)
(* children: what each walk finds, and that each call that relinks makes   *)
(* the list it should, follow from it.                                     *)
(*                                                                         *)
(* The input devices, for any keys of each mouse, buffers of any size and  *)
(* a screen of any width, with at most one byte of the mouse lost.  The    *)
(* invariant, InputInv, says that the packet begun and the bytes under way *)
(* miss at most one byte between them, and that the codes under way lead   *)
(* the decoder to the modifiers of the keys that are down.                 *)
(***************************************************************************)
EXTENDS GemVdi, GemObject, GemInput, GemFifoProofs, FiniteSetTheorems, TLAPS

Colors == Pens \cup {"cursor"}
Saves == UNION {[D -> Colors] : D \in SUBSET Screen}

ScrTypes ==
    [video : [Screen -> Colors], picture : [Screen -> Colors],
     spoilt : SUBSET Screen, save : Saves, drawn : BOOLEAN, hidden : Nat, at : Int]

\* The video memory of s is its picture with the cursor upon it, and the
\* saved cells are those around the cursor.
OnTop(s) ==
    \A p \in Screen \ s.spoilt :
        /\ s.video[p] = IF s.drawn /\ p \in CursorCells(s) THEN "cursor"
                        ELSE s.picture[p]
        /\ p \in DOMAIN s.save => s.save[p] = s.picture[p]

Fits(s) ==
    /\ s \in ScrTypes
    /\ CursorCells(s) # {}
    /\ DOMAIN s.save = IF s.drawn THEN SavedCells(s) ELSE {}
    /\ OnTop(s)

Sound(s) == Fits(s) /\ (s.drawn <=> s.hidden = 0)

Opened ==
    [open : {TRUE}, owner : Clients, hides : Nat, clip : {NONE} \cup Intervals,
     pen : Pens, interior : 0 .. 4, style : 1 .. 24, marker : 1 .. 6,
     height : MarkerHeight .. MarkerMax, mode : 1 .. 4]

StationTypes ==
    /\ live \subseteq Clients
    /\ ws \in [Stations -> Opened \cup {Closed}]
    /\ opened = Cardinality({h \in Stations : ws[h].open})
    /\ \A h \in Stations : ws[h].open => ws[h].owner \in live

IInv ==
    /\ Sound(scr)
    /\ hot \in 0 .. CursorWidth - 1
    /\ StationTypes

-----------------------------------------------------------------------------
(* The cursor *)

\* The cursor lies among the cells that are saved around it.
LEMMA CursorIsSaved ==
    ASSUME NEW s
    PROVE  /\ CursorCells(s) \subseteq SavedCells(s)
           /\ CursorCells(s) \subseteq Screen /\ SavedCells(s) \subseteq Screen
BY DEF CursorCells, SavedCells

\* gem_cursor_remove takes the cursor off and leaves the picture.
LEMMA LiftedFits ==
    ASSUME NEW s, Fits(s)
    PROVE  /\ Fits(Lifted(s))
           /\ ~Lifted(s).drawn
           /\ Lifted(s).hidden = s.hidden /\ Lifted(s).at = s.at
           /\ Lifted(s).picture = s.picture /\ Lifted(s).spoilt = s.spoilt
<1>1. CASE ~s.drawn
  BY <1>1 DEF Fits, ScrTypes, Lifted
<1>2. CASE s.drawn
  <2>1. PICK v : v = [p \in Screen |-> IF p \in DOMAIN s.save THEN s.save[p] ELSE s.video[p]]
    OBVIOUS
  <2>2. PICK t : t = Lifted(s)
    OBVIOUS
  <2>3. t = [s EXCEPT !.video = v, !.drawn = FALSE, !.save = <<>>]
    BY <1>2, <2>1, <2>2 DEF Lifted
  <2>4. s.save \in Saves /\ \A p \in DOMAIN s.save : s.save[p] \in Colors
    BY DEF Fits, ScrTypes, Saves
  <2>5. v \in [Screen -> Colors]
    BY <2>1, <2>4 DEF Fits, ScrTypes
  <2>6. <<>> \in Saves /\ DOMAIN <<>> = {}
    <3>1. <<>> \in [{} -> Colors]
      OBVIOUS
    <3> QED BY <3>1 DEF Saves
  <2>7. /\ t \in ScrTypes /\ t.video = v /\ ~t.drawn /\ t.save = <<>>
        /\ t.hidden = s.hidden /\ t.at = s.at
        /\ t.picture = s.picture /\ t.spoilt = s.spoilt
    BY <2>3, <2>5, <2>6 DEF Fits, ScrTypes
  <2>8. CursorCells(t) = CursorCells(s)
    BY <2>7 DEF CursorCells
  <2>9. ASSUME NEW p \in Screen \ t.spoilt PROVE t.video[p] = t.picture[p]
    <3>1. CASE p \in DOMAIN s.save
      BY <2>1, <2>7, <2>9, <3>1 DEF Fits, OnTop
    <3>2. CASE p \notin DOMAIN s.save
      <4>1. p \notin CursorCells(s)
        BY <1>2, <3>2, CursorIsSaved DEF Fits
      <4> QED BY <2>1, <2>7, <2>9, <3>2, <4>1 DEF Fits, OnTop
    <3> QED BY <3>1, <3>2
  <2>10. Fits(t)
    BY <2>6, <2>7, <2>8, <2>9 DEF Fits, OnTop
  <2> QED BY <2>2, <2>7, <2>10
<1> QED BY <1>1, <1>2

\* gem_cursor_draw puts the cursor on the screen unless it is hidden.
LEMMA DrawnFits ==
    ASSUME NEW s, Fits(s)
    PROVE  /\ Fits(Drawn(s))
           /\ Drawn(s).drawn <=> (s.drawn \/ s.hidden = 0)
           /\ Drawn(s).hidden = s.hidden /\ Drawn(s).at = s.at
           /\ Drawn(s).picture = s.picture /\ Drawn(s).spoilt = s.spoilt
<1>1. CASE s.hidden > 0 \/ s.drawn
  <2>1. Drawn(s) = s
    BY <1>1 DEF Drawn
  <2>2. s.drawn \in BOOLEAN /\ s.hidden \in Nat
    BY DEF Fits, ScrTypes
  <2>3. s.drawn <=> (s.drawn \/ s.hidden = 0)
    BY <1>1, <2>2
  <2> QED BY <2>1, <2>3
<1>2. CASE ~(s.hidden > 0 \/ s.drawn)
  <2>1. PICK v : v = [p \in Screen |-> IF p \in CursorCells(s) THEN "cursor" ELSE s.video[p]]
    OBVIOUS
  <2>2. PICK k : k = Restrict(s.video, SavedCells(s))
    OBVIOUS
  <2>3. PICK t : t = Drawn(s)
    OBVIOUS
  <2>4. t = [s EXCEPT !.save = k, !.video = v, !.drawn = TRUE]
    BY <1>2, <2>1, <2>2, <2>3 DEF Drawn, Fits
  <2>5. v \in [Screen -> Colors] /\ s.video \in [Screen -> Colors]
    BY <2>1 DEF Fits, ScrTypes, Colors
  <2>6. k = [p \in SavedCells(s) |-> s.video[p]]
    BY <2>2 DEF Restrict
  <2>7. k \in Saves
    <3>1. SavedCells(s) \subseteq Screen
      BY CursorIsSaved
    <3>2. k \in [SavedCells(s) -> Colors]
      BY <2>5, <2>6, <3>1
    <3> QED BY <3>1, <3>2 DEF Saves
  <2>8. /\ t \in ScrTypes /\ t.video = v /\ t.drawn /\ t.save = k
        /\ t.hidden = s.hidden /\ t.at = s.at
        /\ t.picture = s.picture /\ t.spoilt = s.spoilt
    BY <2>4, <2>5, <2>7 DEF Fits, ScrTypes
  <2>9. CursorCells(t) = CursorCells(s) /\ SavedCells(t) = SavedCells(s)
    BY <2>8 DEF CursorCells, SavedCells
  <2>10. \A p \in Screen \ s.spoilt : s.video[p] = s.picture[p]
    BY <1>2 DEF Fits, OnTop
  <2>11. OnTop(t)
    BY <2>1, <2>6, <2>8, <2>9, <2>10 DEF OnTop
  <2>12. DOMAIN k = SavedCells(s)
    BY <2>6
  <2>13. Fits(t)
    BY <2>8, <2>9, <2>11, <2>12 DEF Fits
  <2>14. s.hidden = 0
    BY <1>2 DEF Fits, ScrTypes
  <2> QED BY <2>3, <2>8, <2>13, <2>14
<1> QED BY <1>1, <1>2
\* A cursor that is drawn again after it was lifted is as it was.
LEMMA AgainFits ==
    ASSUME NEW drawn \in BOOLEAN, NEW s, Fits(s)
    PROVE  /\ Fits(Again(drawn, s))
           /\ Again(drawn, s).drawn <=> (s.drawn \/ (drawn /\ s.hidden = 0))
           /\ Again(drawn, s).hidden = s.hidden /\ Again(drawn, s).at = s.at
           /\ Again(drawn, s).picture = s.picture
           /\ Again(drawn, s).spoilt = s.spoilt
<1>1. CASE drawn
  BY <1>1, DrawnFits DEF Again
<1>2. CASE ~drawn
  <2>1. s.drawn \in BOOLEAN
    BY DEF Fits, ScrTypes
  <2> QED BY <1>2, <2>1 DEF Again
<1> QED BY <1>1, <1>2

\* A change to the hides alone does not touch what is on the screen.
LEMMA HidesFit ==
    ASSUME NEW s, Fits(s), NEW n \in Nat, NEW t, t = [s EXCEPT !.hidden = n]
    PROVE  /\ Fits(t) /\ t.hidden = n /\ t.drawn = s.drawn /\ t.at = s.at
           /\ t.picture = s.picture /\ t.spoilt = s.spoilt
<1>1. /\ t \in ScrTypes /\ t.video = s.video /\ t.save = s.save /\ t.hidden = n
      /\ t.drawn = s.drawn /\ t.at = s.at /\ t.picture = s.picture
      /\ t.spoilt = s.spoilt
  BY DEF Fits, ScrTypes
<1>2. CursorCells(t) = CursorCells(s) /\ SavedCells(t) = SavedCells(s)
  BY <1>1 DEF CursorCells, SavedCells
<1> QED BY <1>1, <1>2 DEF Fits, OnTop

\* gem_vdi_hide_cursor
LEMMA HideSound ==
    ASSUME NEW s, Sound(s)
    PROVE  /\ Sound(Hide(s)) /\ ~Hide(s).drawn
           /\ Hide(s).hidden = s.hidden + 1 /\ Hide(s).at = s.at
           /\ Hide(s).picture = s.picture
<1>1. PICK u : u = IF s.hidden = 0 THEN Lifted(s) ELSE s
  OBVIOUS
<1>2. s.hidden \in Nat /\ s.drawn \in BOOLEAN
  BY DEF Sound, Fits, ScrTypes
<1>3. /\ Fits(u) /\ ~u.drawn /\ u.hidden = s.hidden /\ u.at = s.at
      /\ u.picture = s.picture
  <2>1. CASE s.hidden = 0
    BY <1>1, <2>1, LiftedFits DEF Sound
  <2>2. CASE s.hidden # 0
    BY <1>1, <1>2, <2>2 DEF Sound
  <2> QED BY <2>1, <2>2
<1>4. PICK t : t = [u EXCEPT !.hidden = s.hidden + 1]
  OBVIOUS
<1>5. s.hidden + 1 \in Nat /\ s.hidden + 1 # 0
  BY <1>2
<1>6. Fits(t) /\ t.hidden = s.hidden + 1 /\ t.drawn = u.drawn /\ t.at = u.at /\ t.picture = u.picture
  BY <1>3, <1>4, <1>5, HidesFit
<1>7. Hide(s) = t
  BY <1>1, <1>3, <1>4 DEF Hide
<1> QED BY <1>3, <1>5, <1>6, <1>7 DEF Sound

\* gem_vdi_show_cursor
LEMMA ShowSound ==
    ASSUME NEW s, Sound(s)
    PROVE  Sound(Show(s)) /\ Show(s).at = s.at /\ Show(s).picture = s.picture
<1>1. PICK n : n = IF s.hidden > 0 THEN s.hidden - 1 ELSE 0
  OBVIOUS
<1>2. s.hidden \in Nat /\ s.drawn \in BOOLEAN
  BY DEF Sound, Fits, ScrTypes
<1>3. n \in Nat /\ (s.hidden = 0 => n = 0)
  BY <1>1, <1>2
<1>4. PICK t : t = [s EXCEPT !.hidden = n]
  OBVIOUS
<1>5. Fits(t) /\ t.hidden = n /\ t.drawn = s.drawn /\ t.at = s.at /\ t.picture = s.picture
  BY <1>3, <1>4, HidesFit DEF Sound
<1>6. Show(s) = Drawn(t)
  BY <1>1, <1>4 DEF Show
<1>7. /\ Fits(Drawn(t)) /\ (Drawn(t).drawn <=> (t.drawn \/ t.hidden = 0))
      /\ Drawn(t).hidden = t.hidden /\ Drawn(t).at = t.at
      /\ Drawn(t).picture = t.picture
  BY <1>5, DrawnFits
<1> QED BY <1>3, <1>5, <1>6, <1>7 DEF Sound

\* gem_vdi_set_cursor
LEMMA SetCursorSound ==
    ASSUME NEW s, Sound(s)
    PROVE  Sound(SetCursor(s)) /\ SetCursor(s).picture = s.picture
<1>1. s.drawn \in BOOLEAN
  BY DEF Sound, Fits, ScrTypes
<1>2. PICK t : t = Lifted(s)
  OBVIOUS
<1>3. Fits(t) /\ ~t.drawn /\ t.hidden = s.hidden /\ t.picture = s.picture
  BY <1>2, LiftedFits DEF Sound
<1>4. SetCursor(s) = Again(s.drawn, t)
  BY <1>2 DEF SetCursor
<1> QED BY <1>1, <1>3, <1>4, AgainFits DEF Sound

\* gem_vdi_move_cursor to a place where some of the cursor is on the screen.
LEMMA MoveToSound ==
    ASSUME NEW s, Sound(s), NEW x \in Int,
           (x .. x + CursorWidth - 1) \cap Screen # {}
    PROVE  Sound(MoveTo(s, x)) /\ MoveTo(s, x).picture = s.picture
<1>1. s.drawn \in BOOLEAN
  BY DEF Sound, Fits, ScrTypes
<1>2. CASE x = s.at
  BY <1>2 DEF MoveTo
<1>3. CASE x # s.at
  <2>1. PICK u : u = Lifted(s)
    OBVIOUS
  <2>2. Fits(u) /\ ~u.drawn /\ u.hidden = s.hidden /\ u.picture = s.picture
    BY <2>1, LiftedFits DEF Sound
  <2>3. PICK t : t = [u EXCEPT !.at = x]
    OBVIOUS
  <2>4. /\ t \in ScrTypes /\ t.video = u.video /\ t.save = u.save
        /\ t.hidden = u.hidden /\ t.drawn = u.drawn /\ t.at = x
        /\ t.picture = u.picture /\ t.spoilt = u.spoilt
    BY <2>2, <2>3 DEF Fits, ScrTypes
  <2>5. CursorCells(t) # {}
    BY <2>4 DEF CursorCells
  <2>6. Fits(t)
    BY <2>2, <2>4, <2>5 DEF Fits, OnTop
  <2>7. MoveTo(s, x) = Again(s.drawn, t)
    BY <1>3, <2>1, <2>3 DEF MoveTo
  <2>8. /\ Fits(Again(s.drawn, t))
        /\ (Again(s.drawn, t).drawn <=> (t.drawn \/ (s.drawn /\ t.hidden = 0)))
        /\ Again(s.drawn, t).hidden = t.hidden /\ Again(s.drawn, t).picture = t.picture
    BY <1>1, <2>6, AgainFits
  <2> QED BY <1>1, <2>2, <2>4, <2>7, <2>8 DEF Sound
<1> QED BY <1>2, <1>3
-----------------------------------------------------------------------------
(* Drawing *)

\* gem_begin_draw: drawing that touches the cursor takes it off first.
LEMMA TouchedFits ==
    ASSUME NEW s, Sound(s), NEW cells,
           NEW t, t = IF Touches(s, cells) THEN Lifted(s) ELSE s
    PROVE  /\ Fits(t) /\ t.hidden = s.hidden
           /\ t.picture = s.picture /\ t.spoilt = s.spoilt
           /\ Touches(s, cells) \in BOOLEAN
           /\ Touches(s, cells) => ~t.drawn /\ s.hidden = 0
           /\ ~Touches(s, cells) => t = s
           /\ t.drawn => cells \cap CursorCells(t) = {}
<1>1. s.drawn \in BOOLEAN
  BY DEF Sound, Fits, ScrTypes
<1>2. Touches(s, cells) \in BOOLEAN
  BY <1>1 DEF Touches
<1>3. CASE Touches(s, cells)
  <2>1. t = Lifted(s) /\ s.hidden = 0
    BY <1>3 DEF Touches, Sound
  <2> QED BY <1>2, <1>3, <2>1, LiftedFits DEF Sound
<1>4. CASE ~Touches(s, cells)
  BY <1>2, <1>4 DEF Sound, Touches
<1> QED BY <1>3, <1>4

\* A video memory and a picture that agree but for the cells sp.
Agree(t, video, picture, sp) ==
    \A p \in Screen \ sp :
        /\ video[p] = IF t.drawn /\ p \in CursorCells(t) THEN "cursor" ELSE picture[p]
        /\ p \in DOMAIN t.save => t.save[p] = picture[p]

Redrawn(t, video, picture, sp) ==
    [t EXCEPT !.video = video, !.picture = picture, !.spoilt = sp]

\* What the cells of a drawing are set to; "spoilt" follows.
LEMMA RedrawnFits ==
    ASSUME NEW t, Fits(t), NEW video \in [Screen -> Colors],
           NEW picture \in [Screen -> Colors], NEW sp \in SUBSET Screen,
           NEW u, u = Redrawn(t, video, picture, sp),
           Agree(t, video, picture, sp)
    PROVE  /\ Fits(u) /\ u.drawn = t.drawn /\ u.hidden = t.hidden
           /\ u.picture = picture
<1>1. /\ u \in ScrTypes /\ u.video = video /\ u.save = t.save /\ u.hidden = t.hidden
      /\ u.drawn = t.drawn /\ u.at = t.at /\ u.picture = picture /\ u.spoilt = sp
  BY DEF Redrawn, Fits, ScrTypes
<1>2. CursorCells(u) = CursorCells(t) /\ SavedCells(u) = SavedCells(t)
  BY <1>1 DEF CursorCells, SavedCells
<1> QED BY <1>1, <1>2 DEF Fits, OnTop, Agree

\* A drawing in one color gives its cells that color in the picture.
LEMMA PaintedSound ==
    ASSUME NEW s, Sound(s), NEW cells \in SUBSET Screen, NEW color \in Pens
    PROVE  /\ Sound(Painted(s, cells, color))
           /\ Painted(s, cells, color).hidden = s.hidden
           /\ Painted(s, cells, color).at = s.at
           /\ Painted(s, cells, color).picture =
                [p \in Screen |-> IF p \in cells THEN color ELSE s.picture[p]]
<1>1. s.picture \in [Screen -> Colors] /\ s.drawn \in BOOLEAN
  BY DEF Sound, Fits, ScrTypes
<1>2. CASE cells = {}
  <2>1. Painted(s, cells, color) = s
    BY <1>2 DEF Painted
  <2>2. s.picture = [p \in Screen |-> IF p \in cells THEN color ELSE s.picture[p]]
    BY <1>1, <1>2
  <2> QED BY <2>1, <2>2
<1>3. CASE cells # {}
  <2>1. PICK t : t = IF Touches(s, cells) THEN Lifted(s) ELSE s
    OBVIOUS
  <2>2. /\ Fits(t) /\ t.hidden = s.hidden
        /\ t.picture = s.picture /\ t.spoilt = s.spoilt
        /\ Touches(s, cells) \in BOOLEAN
        /\ Touches(s, cells) => ~t.drawn /\ s.hidden = 0
        /\ ~Touches(s, cells) => t = s
        /\ t.drawn => cells \cap CursorCells(t) = {}
    BY <2>1, TouchedFits
  <2>3. t.at = s.at
    BY <2>1, LiftedFits DEF Sound
  <2>4. PICK v : v = [p \in Screen |-> IF p \in cells THEN color ELSE t.video[p]]
    OBVIOUS
  <2>5. PICK pic : pic = [p \in Screen |-> IF p \in cells THEN color ELSE t.picture[p]]
    OBVIOUS
  <2>6. PICK sp : sp = (t.spoilt \ cells) \cup (cells \cap DOMAIN t.save)
    OBVIOUS
  <2>7. PICK u : u = [t EXCEPT !.video = v, !.picture = pic, !.spoilt = sp]
    OBVIOUS
  <2>8. v \in [Screen -> Colors] /\ pic \in [Screen -> Colors] /\ sp \in SUBSET Screen
    BY <2>2, <2>4, <2>5, <2>6 DEF Fits, ScrTypes, Colors
  <2>9. ASSUME NEW p \in Screen \ sp
        PROVE  /\ v[p] = IF t.drawn /\ p \in CursorCells(t) THEN "cursor" ELSE pic[p]
               /\ p \in DOMAIN t.save => t.save[p] = pic[p]
    <3>1. CASE p \in cells
      <4>1. p \notin DOMAIN t.save /\ ~(t.drawn /\ p \in CursorCells(t))
        BY <2>2, <2>6, <2>9, <3>1
      <4> QED BY <2>4, <2>5, <2>9, <3>1, <4>1
    <3>2. CASE p \notin cells
      <4>1. p \in Screen \ t.spoilt
        BY <2>6, <2>9, <3>2
      <4> QED BY <2>2, <2>4, <2>5, <3>2, <4>1 DEF Fits, OnTop
    <3> QED BY <3>1, <3>2
  <2>10. /\ Fits(u) /\ u.drawn = t.drawn /\ u.hidden = t.hidden /\ u.picture = pic
    <3>1. Agree(t, v, pic, sp)
      BY <2>9 DEF Agree
    <3>2. u = Redrawn(t, v, pic, sp)
      BY <2>7 DEF Redrawn
    <3> QED BY <2>2, <2>8, <3>1, <3>2, RedrawnFits
  <2>11. u.at = t.at
    BY <2>2, <2>7 DEF Fits, ScrTypes
  <2>12. PICK r : r = Again(Touches(s, cells), u)
    OBVIOUS
  <2>13. Painted(s, cells, color) = r
    BY <1>3, <2>1, <2>4, <2>5, <2>6, <2>7, <2>12 DEF Painted
  <2>14. /\ Fits(r) /\ (r.drawn <=> (u.drawn \/ (Touches(s, cells) /\ u.hidden = 0)))
         /\ r.hidden = u.hidden /\ r.at = u.at /\ r.picture = u.picture
    BY <2>2, <2>10, <2>12, AgainFits
  <2>15. Sound(r)
    <3>1. t.drawn \in BOOLEAN /\ r.drawn \in BOOLEAN
      BY <2>2, <2>14 DEF Fits, ScrTypes
    <3> QED BY <2>2, <2>10, <2>14, <3>1 DEF Sound
  <2> QED BY <2>2, <2>3, <2>5, <2>10, <2>11, <2>13, <2>14, <2>15
<1> QED BY <1>2, <1>3

\* gem_vdi_blit from a place on the screen.
LEMMA CopiedSound ==
    ASSUME NEW s, Sound(s), NEW from \in Screen, NEW to \in Screen, NEW width \in Int,
           \A p \in to .. to + width - 1 : p - to + from \in Screen,
           NEW in \in SUBSET Screen
    PROVE  Sound(Copied(s, from, to, width, in))
<1> DEFINE whole == to .. to + width - 1
           cells == whole \cap in
<1>1. PICK t : t = IF Touches(s, whole) THEN Lifted(s) ELSE s
  OBVIOUS
<1>2. /\ Fits(t) /\ t.hidden = s.hidden
      /\ Touches(s, whole) \in BOOLEAN
      /\ Touches(s, whole) => ~t.drawn /\ s.hidden = 0
      /\ ~Touches(s, whole) => t = s
      /\ t.drawn => whole \cap CursorCells(t) = {}
  BY <1>1, TouchedFits
<1>3. PICK v : v = [p \in Screen |-> IF p \in cells THEN t.video[p - to + from] ELSE t.video[p]]
  OBVIOUS
<1>4. PICK pic : pic = [p \in Screen |-> IF p \in cells THEN t.picture[p - to + from] ELSE t.picture[p]]
  OBVIOUS
<1>5. PICK sp : sp = (t.spoilt \ cells) \cup
                       {p \in cells : \/ p - to + from \in t.spoilt
                                      \/ p \in DOMAIN t.save
                                      \/ t.drawn /\ p - to + from \in CursorCells(t)}
  OBVIOUS
<1>6. PICK u : u = [t EXCEPT !.video = v, !.picture = pic, !.spoilt = sp]
  OBVIOUS
<1>7. \A p \in cells : p \in Screen /\ p - to + from \in Screen
  OBVIOUS
<1>8. v \in [Screen -> Colors] /\ pic \in [Screen -> Colors] /\ sp \in SUBSET Screen
  <2>1. t.video \in [Screen -> Colors] /\ t.picture \in [Screen -> Colors] /\ t.spoilt \in SUBSET Screen
    BY <1>2 DEF Fits, ScrTypes
  <2> HIDE DEF cells
  <2>2. v \in [Screen -> Colors]
    BY <1>3, <1>7, <2>1
  <2>3. pic \in [Screen -> Colors]
    BY <1>4, <1>7, <2>1
  <2>4. sp \in SUBSET Screen
    BY <1>5, <1>7, <2>1
  <2> QED BY <2>2, <2>3, <2>4
<1>9. ASSUME NEW p \in Screen \ sp
      PROVE  /\ v[p] = IF t.drawn /\ p \in CursorCells(t) THEN "cursor" ELSE pic[p]
             /\ p \in DOMAIN t.save => t.save[p] = pic[p]
  <2>1. CASE p \in cells
    <3>1. PICK q \in Screen : q = p - to + from
      BY <1>7, <2>1
    <3>2. q \notin t.spoilt /\ p \notin DOMAIN t.save /\ ~(t.drawn /\ q \in CursorCells(t))
      BY <1>5, <1>9, <2>1, <3>1
    <3>3. t.video[q] = t.picture[q]
      BY <1>2, <3>2 DEF Fits, OnTop
    <3>4. ~(t.drawn /\ p \in CursorCells(t))
      BY <1>2, <2>1
    <3>5. v[p] = t.video[q] /\ pic[p] = t.picture[q]
      BY <1>3, <1>4, <1>9, <2>1, <3>1
    <3> QED BY <3>2, <3>3, <3>4, <3>5
  <2>2. CASE p \notin cells
    <3>1. p \in Screen \ t.spoilt
      BY <1>5, <1>9, <2>2
    <3>2. v[p] = t.video[p] /\ pic[p] = t.picture[p]
      BY <1>3, <1>4, <1>9, <2>2
    <3> QED BY <1>2, <3>1, <3>2 DEF Fits, OnTop
  <2> QED BY <2>1, <2>2
<1>10. Fits(u) /\ u.drawn = t.drawn /\ u.hidden = t.hidden
  <2>1. Agree(t, v, pic, sp)
    BY <1>9 DEF Agree
  <2>2. u = Redrawn(t, v, pic, sp)
    BY <1>6 DEF Redrawn
  <2> QED BY <1>2, <1>8, <2>1, <2>2, RedrawnFits
<1>11. PICK r : r = Again(Touches(s, whole), u)
  OBVIOUS
<1>12. Copied(s, from, to, width, in) = r
  BY <1>1, <1>3, <1>4, <1>5, <1>6, <1>11 DEF Copied
<1>13. /\ Fits(r) /\ (r.drawn <=> (u.drawn \/ (Touches(s, whole) /\ u.hidden = 0)))
       /\ r.hidden = u.hidden
  BY <1>2, <1>10, <1>11, AgainFits
<1>14. t.drawn \in BOOLEAN /\ r.drawn \in BOOLEAN
  BY <1>2, <1>13 DEF Fits, ScrTypes
<1>15. Sound(r)
  <2> HIDE DEF whole
  <2> QED BY <1>2, <1>10, <1>13, <1>14 DEF Sound
<1> QED BY <1>12, <1>15
-----------------------------------------------------------------------------
(* The workstations *)

\* Whatever is asked of an attribute, what is kept is in its range.
LEMMA KeptTyped ==
    ASSUME NEW w \in Opened, NEW a \in Attributes, NEW v \in Int,
           NEW x, x = [w EXCEPT ![a] = Kept(w, a, v)]
    PROVE  x \in Opened /\ x.owner = w.owner
<1>1. w.interior \in 0 .. 4
  BY DEF Opened
<1>2. CASE a = "interior"
  <2>1. Kept(w, a, v) \in 0 .. 4
    BY <1>2 DEF Kept, OneOf
  <2> QED BY <1>2, <2>1 DEF Opened
<1>3. CASE a = "style"
  <2>1. Kept(w, a, v) \in 1 .. 24
    BY <1>1, <1>3 DEF Kept, Between
  <2> QED BY <1>3, <2>1 DEF Opened
<1>4. CASE a = "marker"
  <2>1. Kept(w, a, v) \in 1 .. 6
    BY <1>4 DEF Kept, OneOf
  <2> QED BY <1>4, <2>1 DEF Opened
<1>5. CASE a = "height"
  <2>1. Kept(w, a, v) \in MarkerHeight .. MarkerMax
    BY <1>5 DEF Kept, Between, MarkerHeight, MarkerMax
  <2> QED BY <1>5, <2>1 DEF Opened
<1>6. CASE a = "mode"
  <2>1. Kept(w, a, v) \in 1 .. 4
    BY <1>6 DEF Kept, OneOf
  <2> QED BY <1>6, <2>1 DEF Opened
<1> QED BY <1>2, <1>3, <1>4, <1>5, <1>6 DEF Attributes

\* A workstation that is open may change as long as it is its owner's.
LEMMA StationChanges ==
    ASSUME StationTypes, NEW h \in Stations, ws[h].open,
           NEW w \in Opened, w.owner = ws[h].owner,
           ws' = [ws EXCEPT ![h] = w], live' = live, opened' = opened
    PROVE  StationTypes'
<1>1. ws \in [Stations -> Opened \cup {Closed}] /\ ws' \in [Stations -> Opened \cup {Closed}]
  BY DEF StationTypes
<1>2. \A g \in Stations : ws'[g].open = ws[g].open /\ ws'[g].owner = ws[g].owner
  <2>1. w.open
    BY DEF Opened
  <2>2. ws[h] \in Opened
    BY <1>1 DEF Closed
  <2>3. w.open = ws[h].open
    BY <2>2 DEF Opened
  <2>4. ws'[h] = w /\ \A g \in Stations \ {h} : ws'[g] = ws[g]
    BY <1>1
  <2> QED BY <2>3, <2>4
<1>3. {g \in Stations : ws'[g].open} = {g \in Stations : ws[g].open}
  BY <1>2
<1> QED BY <1>1, <1>2, <1>3 DEF StationTypes

\* gem_vdi_find_workstation finds a workstation that is open.
LEMMA OwnedIsOpened ==
    ASSUME StationTypes, NEW c, NEW h \in Stations, Owns(c, h)
    PROVE  ws[h] \in Opened /\ ws[h].open /\ ws[h].owner = c /\ c \in Clients
<1>1. ws[h] \in Opened \cup {Closed}
  BY DEF StationTypes
<1>2. ws[h] \in Opened
  BY <1>1 DEF Owns, Closed
<1> QED BY <1>2 DEF Owns, Opened

LEMMA OpenKeeps ==
    ASSUME StationTypes, NEW c \in Clients, Open(c)
    PROVE  StationTypes'
<1>1. PICK h \in Stations : ~ws[h].open /\ ws' = [ws EXCEPT ![h] = Fresh(c)]
  BY DEF Open
<1>2. /\ ws \in [Stations -> Opened \cup {Closed}] /\ c \in live /\ live' = live
      /\ opened' = opened + 1 /\ live \subseteq Clients
  BY DEF StationTypes, Open
<1>3. Fresh(c) \in Opened /\ Fresh(c).open /\ Fresh(c).owner = c
  BY DEF Fresh, Opened, Pens, MarkerHeight, MarkerMax
<1>4. ws' \in [Stations -> Opened \cup {Closed}]
  BY <1>1, <1>2, <1>3
<1>5. ws'[h] = Fresh(c) /\ \A g \in Stations \ {h} : ws'[g] = ws[g]
  BY <1>1, <1>2
<1>6. PICK S : S = {g \in Stations : ws[g].open}
  OBVIOUS
<1>7. {g \in Stations : ws'[g].open} = S \cup {h}
  BY <1>3, <1>5, <1>6
<1>8. h \notin S /\ IsFiniteSet(S)
  BY <1>1, <1>6, FS_Subset, VdiAssumption
<1>9. Cardinality(S \cup {h}) = Cardinality(S) + 1
  BY <1>8, FS_AddElement
<1>10. opened = Cardinality(S) /\ \A g \in S : ws[g].owner \in live
  BY <1>6 DEF StationTypes
<1>11. \A g \in Stations : ws'[g].open => ws'[g].owner \in live'
  BY <1>2, <1>3, <1>5, <1>6, <1>10
<1> QED BY <1>2, <1>4, <1>7, <1>9, <1>10, <1>11 DEF StationTypes

LEMMA CloseKeeps ==
    ASSUME StationTypes, NEW c \in Clients, NEW h \in Stations, Close(c, h)
    PROVE  StationTypes'
<1>1. /\ ws \in [Stations -> Opened \cup {Closed}] /\ live \subseteq Clients
      /\ live' = live /\ ws' = [ws EXCEPT ![h] = Closed]
      /\ opened' = IF opened > 0 THEN opened - 1 ELSE 0
  BY DEF StationTypes, Close
<1>2. ws[h].open
  BY DEF Close, Owns
<1>3. ws' \in [Stations -> Opened \cup {Closed}]
  BY <1>1
<1>4. ws'[h] = Closed /\ \A g \in Stations \ {h} : ws'[g] = ws[g]
  BY <1>1
<1>5. PICK S : S = {g \in Stations : ws[g].open}
  OBVIOUS
<1>6. {g \in Stations : ws'[g].open} = S \ {h}
  BY <1>4, <1>5 DEF Closed
<1>7. h \in S /\ IsFiniteSet(S)
  BY <1>2, <1>5, FS_Subset, VdiAssumption
<1>8. Cardinality(S \ {h}) = Cardinality(S) - 1 /\ Cardinality(S) \in Nat /\ Cardinality(S) # 0
  BY <1>7, FS_RemoveElement, FS_CardinalityType, FS_EmptySet
<1>9. opened = Cardinality(S) /\ \A g \in S : ws[g].owner \in live
  BY <1>5 DEF StationTypes
<1>10. opened' = Cardinality(S \ {h})
  BY <1>1, <1>8, <1>9
<1>11. \A g \in Stations : ws'[g].open => ws'[g].owner \in live'
  BY <1>1, <1>4, <1>5, <1>9 DEF Closed
<1> QED BY <1>1, <1>3, <1>6, <1>10, <1>11 DEF StationTypes

LEMMA ReleaseKeeps ==
    ASSUME StationTypes, NEW c \in Clients, VdiExit(c)
    PROVE  StationTypes'
<1>1. /\ ws \in [Stations -> Opened \cup {Closed}] /\ live \subseteq Clients
      /\ live' = live \ {c}
      /\ ws' = [h \in Stations |-> IF ws[h].owner = c THEN Closed ELSE ws[h]]
      /\ opened' = opened - Cardinality({h \in Stations : ws[h].owner = c})
  BY DEF StationTypes, VdiExit, Release
<1>2. ws' \in [Stations -> Opened \cup {Closed}]
  BY <1>1
<1>3. PICK S : S = {g \in Stations : ws[g].open}
  OBVIOUS
<1>4. PICK T : T = {g \in Stations : ws[g].owner = c}
  OBVIOUS
<1>5. T \subseteq S
  <2>1. ASSUME NEW g \in T PROVE g \in S
    <3>1. ws[g] \in Opened \cup {Closed} /\ ws[g].owner = c
      BY <1>1, <1>4
    <3>2. ws[g] \in Opened
      BY <3>1, VdiAssumption DEF Closed
    <3> QED BY <1>3, <1>4, <3>2 DEF Opened
  <2> QED BY <2>1
<1>6. {g \in Stations : ws'[g].open} = S \ T
  BY <1>1, <1>3, <1>4 DEF Closed
<1>7. IsFiniteSet(S) /\ S \cap T = T
  BY <1>3, <1>5, FS_Subset, VdiAssumption
<1>8. Cardinality(S \ T) = Cardinality(S) - Cardinality(T)
  BY <1>7, FS_Difference
<1>9. opened = Cardinality(S) /\ \A g \in S : ws[g].owner \in live
  BY <1>3 DEF StationTypes
<1>10. opened' = Cardinality(S \ T)
  BY <1>1, <1>4, <1>8, <1>9
<1>11. \A g \in Stations : ws'[g].open => ws'[g].owner \in live'
  BY <1>1, <1>3, <1>9 DEF Closed
<1> QED BY <1>1, <1>2, <1>6, <1>10, <1>11 DEF StationTypes
-----------------------------------------------------------------------------
(* The inductive invariant holds in every state *)

\* A cursor put where the mouse is has its hot spot on the screen.
LEMMA HotSpotIsSeen ==
    ASSUME NEW x \in Screen, NEW k \in 0 .. CursorWidth - 1
    PROVE  x - k \in Int /\ ((x - k) .. (x - k) + CursorWidth - 1) \cap Screen # {}
<1>1. x \in Int /\ k \in Int /\ CursorWidth \in Int
  BY VdiAssumption DEF Screen
<1>2. x \in (x - k) .. (x - k) + CursorWidth - 1
  BY <1>1
<1> QED BY <1>1, <1>2

\* What a workstation draws is on the screen, and in its color.
LEMMA ClipTyped ==
    ASSUME NEW w \in Opened
    PROVE  /\ Clip(w) \in Intervals /\ Cells(Clip(w)) \subseteq Screen
           /\ w.pen \in Pens
<1>1. w.clip \in {NONE} \cup Intervals /\ w.pen \in Pens
  BY DEF Opened
<1>2. <<0, Columns - 1>> \in Intervals
  BY VdiAssumption DEF Intervals, Screen
<1>3. Clip(w) \in Intervals
  BY <1>1, <1>2 DEF Clip
<1>4. ASSUME NEW i \in Intervals PROVE Cells(i) \subseteq Screen
  BY VdiAssumption DEF Intervals, Screen, Cells
<1> QED BY <1>1, <1>3, <1>4

LEMMA AreaTyped ==
    ASSUME NEW i \in Areas
    PROVE  i[1] \in Screen /\ i[2] \in Screen /\ Cells(i) \subseteq Screen
<1>1. i[1] \in Screen /\ i[2] \in Screen
  BY VdiAssumption DEF Screen
<1> QED BY <1>1, VdiAssumption DEF Screen, Cells

LEMMA Establishes == VdiInit => IInv
<1> SUFFICES ASSUME VdiInit PROVE IInv
  OBVIOUS
<1>1. HotSpot[0] \in 0 .. CursorWidth - 1 /\ hot = HotSpot[0]
  BY HotSpotAssumption DEF VdiInit
<1>2. PICK white : white = [p \in Screen |-> "white"]
  OBVIOUS
<1>3. PICK m : m = Columns \div 2
  OBVIOUS
<1>4. m \in Screen
  BY <1>3, VdiAssumption DEF Screen
<1>5. m - HotSpot[0] \in Int /\ ((m - HotSpot[0]) .. (m - HotSpot[0]) + CursorWidth - 1) \cap Screen # {}
  BY <1>1, <1>4, HotSpotIsSeen
<1>6. PICK s : s = [video |-> white, picture |-> white, spoilt |-> {}, save |-> <<>>,
                    drawn |-> FALSE, hidden |-> 0, at |-> m - HotSpot[0]]
  OBVIOUS
<1>7. scr = Drawn(s)
  BY <1>2, <1>3, <1>6 DEF VdiInit
<1>8. <<>> \in Saves /\ DOMAIN <<>> = {}
  <2>1. <<>> \in [{} -> Colors]
    OBVIOUS
  <2> QED BY <2>1 DEF Saves
<1>9. white \in [Screen -> Colors]
  BY <1>2 DEF Colors, Pens
<1>10. /\ s \in ScrTypes /\ s.video = white /\ s.picture = white /\ s.spoilt = {}
       /\ s.save = <<>> /\ ~s.drawn /\ s.hidden = 0 /\ s.at = m - HotSpot[0]
  BY <1>5, <1>6, <1>8, <1>9 DEF ScrTypes
<1>11. CursorCells(s) # {}
  BY <1>5, <1>10 DEF CursorCells
<1>12. Fits(s)
  BY <1>8, <1>10, <1>11 DEF Fits, OnTop
<1>13. Sound(scr)
  <2>1. /\ Fits(Drawn(s)) /\ (Drawn(s).drawn <=> (s.drawn \/ s.hidden = 0))
        /\ Drawn(s).hidden = s.hidden
    BY <1>12, DrawnFits
  <2> QED BY <1>7, <1>10, <2>1 DEF Sound
<1>14. StationTypes
  <2>1. {h \in Stations : ws[h].open} = {}
    BY DEF VdiInit, Closed
  <2> QED BY <2>1, FS_EmptySet DEF VdiInit, StationTypes, Closed
<1> QED BY <1>1, <1>13, <1>14 DEF IInv

\* The workstations are not disturbed by what leaves them alone.
LEMMA StationsUnchanged ==
    ASSUME StationTypes, UNCHANGED <<live, ws, opened>>
    PROVE  StationTypes'
BY DEF StationTypes

LEMMA CursorKeeps ==
    ASSUME IInv, CursorNext
    PROVE  IInv'
<1> USE DEF IInv
<1>1. ASSUME NEW i \in Areas, AesDraw(i) PROVE IInv'
  <2>1. PICK s1 : s1 = Hide(scr)
    OBVIOUS
  <2>2. PICK s2 : s2 = Painted(s1, Cells(i), "white")
    OBVIOUS
  <2>3. Sound(s1)
    BY <2>1, HideSound
  <2>4. Sound(s2)
    BY <2>2, <2>3, AreaTyped, PaintedSound DEF Pens
  <2>5. scr' = Show(s2)
    BY <1>1, <2>1, <2>2 DEF AesDraw
  <2>6. Sound(scr')
    BY <2>4, <2>5, ShowSound
  <2> QED BY <1>1, <2>6, StationsUnchanged DEF AesDraw
<1>2. CASE GrafHide
  BY <1>2, HideSound, StationsUnchanged DEF GrafHide
<1>3. CASE GrafShow
  BY <1>3, ShowSound, StationsUnchanged DEF GrafShow
<1>4. ASSUME NEW form \in Forms, NEW x \in Screen, GrafForm(form, x) PROVE IInv'
  <2>1. HotSpot[form] \in 0 .. CursorWidth - 1
    BY HotSpotAssumption
  <2>2. PICK k : k = x - HotSpot[form]
    OBVIOUS
  <2>3. k \in Int /\ (k .. k + CursorWidth - 1) \cap Screen # {}
    BY <2>1, <2>2, HotSpotIsSeen
  <2>4. PICK s : s = SetCursor(scr)
    OBVIOUS
  <2>5. Sound(s)
    BY <2>4, SetCursorSound
  <2>6. scr' = MoveTo(s, k)
    BY <1>4, <2>2, <2>4 DEF GrafForm
  <2>7. Sound(scr')
    BY <2>3, <2>5, <2>6, MoveToSound
  <2> QED BY <1>4, <2>1, <2>7, StationsUnchanged DEF GrafForm
<1>5. ASSUME NEW x \in Screen, Poll(x) PROVE IInv'
  <2>1. PICK k : k = x - hot
    OBVIOUS
  <2>2. k \in Int /\ (k .. k + CursorWidth - 1) \cap Screen # {}
    BY <2>1, HotSpotIsSeen
  <2>3. Sound(scr')
    BY <1>5, <2>1, <2>2, MoveToSound DEF Poll
  <2> QED BY <1>5, <2>3, StationsUnchanged DEF Poll
<1>6. ASSUME NEW c \in Clients, NEW h \in Stations, VHideC(c, h) PROVE IInv'
  <2>1. ws[h] \in Opened /\ ws[h].open
    BY <1>6, OwnedIsOpened DEF VHideC
  <2>2. PICK w : w = [ws[h] EXCEPT !.hides = ws[h].hides + 1]
    OBVIOUS
  <2>3. w \in Opened /\ w.owner = ws[h].owner
    <3>1. PICK n : n = ws[h].hides + 1
      OBVIOUS
    <3>2. ws[h].hides \in Nat
      BY <2>1 DEF Opened
    <3>3. n \in Nat
      BY <3>1, <3>2
    <3> QED BY <2>1, <2>2, <3>1, <3>3 DEF Opened
  <2>4. ws' = [ws EXCEPT ![h] = w] /\ live' = live /\ opened' = opened /\ hot' = hot
    BY <1>6, <2>2 DEF VHideC
  <2>5. StationTypes'
    BY <2>1, <2>3, <2>4, StationChanges
  <2>6. Sound(scr')
    BY <1>6, HideSound DEF VHideC
  <2> QED BY <2>4, <2>5, <2>6
<1>7. ASSUME NEW c \in Clients, NEW h \in Stations, NEW reset \in BOOLEAN, VShowC(c, h, reset)
      PROVE  IInv'
  <2>1. ws[h] \in Opened /\ ws[h].open
    BY <1>7, OwnedIsOpened DEF VShowC
  <2>2. PICK hides : hides = IF reset THEN 1 ELSE ws[h].hides
    OBVIOUS
  <2>3. PICK rest : rest = IF hides > 0 THEN hides - 1 ELSE 0
    OBVIOUS
  <2>4. rest \in Nat
    BY <2>1, <2>2, <2>3 DEF Opened
  <2>5. PICK w : w = [ws[h] EXCEPT !.hides = rest]
    OBVIOUS
  <2>6. w \in Opened /\ w.owner = ws[h].owner
    BY <2>1, <2>4, <2>5 DEF Opened
  <2>7. /\ ws' = [ws EXCEPT ![h] = w] /\ live' = live /\ opened' = opened /\ hot' = hot
        /\ scr' = IF rest = 0 THEN Show(scr) ELSE scr
    BY <1>7, <2>2, <2>3, <2>5 DEF VShowC
  <2>8. StationTypes'
    BY <2>1, <2>6, <2>7, StationChanges
  <2>9. Sound(scr')
    BY <2>7, ShowSound
  <2> QED BY <2>7, <2>8, <2>9
<1>8. ASSUME NEW c \in Clients, NEW h \in Stations, VscForm(c, h) PROVE IInv'
  BY <1>8, SetCursorSound, StationsUnchanged DEF VscForm
<1> QED BY <1>1, <1>2, <1>3, <1>4, <1>5, <1>6, <1>7, <1>8 DEF CursorNext

LEMMA DrawKeeps ==
    ASSUME IInv, DrawNext
    PROVE  IInv'
<1> USE DEF IInv
<1>1. ASSUME NEW c \in Clients, NEW h \in Stations, NEW i \in Areas, Fill(c, h, i)
      PROVE  IInv'
  <2>1. Clip(ws[h]) \in Intervals /\ Cells(Clip(ws[h])) \subseteq Screen /\ ws[h].pen \in Pens
    BY <1>1, OwnedIsOpened, ClipTyped DEF Fill
  <2>2. PICK cells : cells = Cells(i) \cap Cells(Clip(ws[h]))
    OBVIOUS
  <2>3. scr' = Painted(scr, cells, ws[h].pen)
    BY <1>1, <2>2 DEF Fill, ApplyWorkstation
  <2>4. cells \in SUBSET Screen
    BY <2>1, <2>2
  <2>5. Sound(scr')
    BY <2>1, <2>3, <2>4, PaintedSound
  <2> QED BY <1>1, <2>5, StationsUnchanged DEF Fill
<1>2. ASSUME NEW c \in Clients, NEW h \in Stations, Clear(c, h)
      PROVE  IInv'
  <2>1. Clip(ws[h]) \in Intervals /\ Cells(Clip(ws[h])) \subseteq Screen
    BY <1>2, OwnedIsOpened, ClipTyped DEF Clear
  <2>2. scr' = Painted(scr, Cells(Clip(ws[h])), "white")
    BY <1>2 DEF Clear, ApplyWorkstation
  <2>3. Sound(scr')
    BY <2>1, <2>2, PaintedSound DEF Pens
  <2> QED BY <1>2, <2>3, StationsUnchanged DEF Clear
<1>3. ASSUME NEW c \in Clients, NEW h \in Stations, NEW i \in Areas, NEW to \in Screen,
             Copy(c, h, i, to)
      PROVE  IInv'
  <2>1. Clip(ws[h]) \in Intervals /\ Cells(Clip(ws[h])) \subseteq Screen
    BY <1>3, OwnedIsOpened, ClipTyped DEF Copy
  <2>2. PICK in : in = Cells(Clip(ws[h]))
    OBVIOUS
  <2>3. PICK width : width = i[2] - i[1] + 1
    OBVIOUS
  <2>4. scr' = Copied(scr, i[1], to, width, in)
    BY <1>3, <2>2, <2>3 DEF Copy, ApplyWorkstation
  <2>5. i[1] \in Screen /\ i[2] \in Screen
    BY AreaTyped
  <2>6. width \in Int /\ \A p \in to .. to + width - 1 : p - to + i[1] \in Screen
    BY <2>3, <2>5, VdiAssumption DEF Screen
  <2>7. Sound(scr')
    BY <2>1, <2>2, <2>4, <2>5, <2>6, CopiedSound
  <2> QED BY <1>3, <2>7, StationsUnchanged DEF Copy
<1> QED BY <1>1, <1>2, <1>3 DEF DrawNext

LEMMA StationKeeps ==
    ASSUME IInv, StationNext
    PROVE  IInv'
<1> USE DEF IInv
<1>1. ASSUME NEW c \in Clients, Open(c) PROVE IInv'
  BY <1>1, OpenKeeps DEF Open
<1>2. ASSUME NEW c \in Clients, VdiExit(c) PROVE IInv'
  BY <1>2, ReleaseKeeps DEF VdiExit
<1>3. ASSUME NEW c \in Clients, VdiAttach(c) PROVE IInv'
  BY <1>3 DEF VdiAttach, StationTypes
<1>4. ASSUME NEW c \in Clients, NEW h \in Stations, Close(c, h) PROVE IInv'
  BY <1>4, CloseKeeps DEF Close
<1>5. ASSUME NEW c \in Clients, NEW h \in Stations, NEW low \in Lows, NEW high \in Highs,
             SetClip(c, h, low, high)
      PROVE  IInv'
  <2>1. ws[h] \in Opened /\ ws[h].open
    BY <1>5, OwnedIsOpened DEF SetClip
  <2>2. PICK x1 : x1 = IF low < 0 THEN 0 ELSE low
    OBVIOUS
  <2>3. PICK x2 : x2 = IF high >= Columns THEN Columns - 1 ELSE high
    OBVIOUS
  <2>4. PICK w : w = [ws[h] EXCEPT !.clip = IF x2 < x1 THEN NONE ELSE <<x1, x2>>]
    OBVIOUS
  <2>5. ~(x2 < x1) => <<x1, x2>> \in Intervals
    <3>1. low \in Int /\ high \in Int /\ Columns \in Nat \ {0}
      BY VdiAssumption
    <3>2. x1 \in Nat /\ x2 \in Int /\ x2 <= Columns - 1
      BY <2>2, <2>3, <3>1
    <3>3. ~(x2 < x1) => x1 \in Screen /\ x2 \in Screen
      BY <3>1, <3>2 DEF Screen
    <3>4. ~(x2 < x1) => x1 <= x2
      BY <3>1, <3>2
    <3> QED BY <3>3, <3>4 DEF Intervals
  <2>6. w \in Opened /\ w.owner = ws[h].owner
    BY <2>1, <2>4, <2>5 DEF Opened
  <2>7. ws' = [ws EXCEPT ![h] = w] /\ live' = live /\ opened' = opened
    BY <1>5, <2>2, <2>3, <2>4 DEF SetClip
  <2> QED BY <1>5, <2>1, <2>6, <2>7, StationChanges DEF SetClip
<1> QED BY <1>1, <1>2, <1>3, <1>4, <1>5 DEF StationNext

LEMMA AttributeKeeps ==
    ASSUME IInv, AttributeNext
    PROVE  IInv'
<1> USE DEF IInv
<1>1. ASSUME NEW c \in Clients, NEW h \in Stations, NEW p \in Pens, SetColor(c, h, p)
      PROVE  IInv'
  <2>1. ws[h] \in Opened /\ ws[h].open
    BY <1>1, OwnedIsOpened DEF SetColor
  <2>2. PICK w : w = [ws[h] EXCEPT !.pen = p]
    OBVIOUS
  <2>3. w \in Opened /\ w.owner = ws[h].owner
    BY <2>1, <2>2 DEF Opened
  <2>4. ws' = [ws EXCEPT ![h] = w] /\ live' = live /\ opened' = opened
    BY <1>1, <2>2 DEF SetColor
  <2> QED BY <1>1, <2>1, <2>3, <2>4, StationChanges DEF SetColor
<1>2. ASSUME NEW c \in Clients, NEW h \in Stations, NEW a \in Attributes, NEW v \in Values,
             SetAttribute(c, h, a, v)
      PROVE  IInv'
  <2>1. ws[h] \in Opened /\ ws[h].open /\ v \in Int
    BY <1>2, OwnedIsOpened, VdiAssumption DEF SetAttribute
  <2>2. PICK w : w = [ws[h] EXCEPT ![a] = Kept(ws[h], a, v)]
    OBVIOUS
  <2>3. w \in Opened /\ w.owner = ws[h].owner
    BY <2>1, <2>2, KeptTyped
  <2>4. ws' = [ws EXCEPT ![h] = w] /\ live' = live /\ opened' = opened
    BY <1>2, <2>2 DEF SetAttribute
  <2> QED BY <1>2, <2>1, <2>3, <2>4, StationChanges DEF SetAttribute
<1> QED BY <1>1, <1>2 DEF AttributeNext

LEMMA Keeps == IInv /\ [VdiNext]_vars => IInv'
<1> SUFFICES ASSUME IInv, [VdiNext]_vars PROVE IInv'
  OBVIOUS
<1>1. CASE UNCHANGED vars
  BY <1>1 DEF IInv, StationTypes, vars
<1>2. CASE VdiNext
  BY <1>2, CursorKeeps, DrawKeeps, StationKeeps, AttributeKeeps DEF VdiNext
<1> QED BY <1>1, <1>2
-----------------------------------------------------------------------------
(* What follows from it *)

\* gem_vdi_fill_rows and gem_vdi_draw_markers with the attributes of any
\* workstation stay inside their tables.
LEMMA TablesAreLargeEnough ==
    ASSUME NEW w \in Opened
    PROVE  /\ FillRows(w) \in ({"pattern"} \X Patterns) \cup ({"hatch"} \X Hatches)
                                \cup {<<"user", 0>>, NONE}
           /\ MarkerShape(w) \in Shapes
           /\ MarkerScale(w) \in 1 .. 8
           /\ w.mode \in 1 .. 4
<1>1. /\ w.interior \in 0 .. 4 /\ w.style \in 1 .. 24 /\ w.marker \in 1 .. 6
      /\ w.height \in 11 .. 88 /\ w.mode \in 1 .. 4
  BY DEF Opened, MarkerHeight, MarkerMax
<1>2. FillRows(w) \in ({"pattern"} \X Patterns) \cup ({"hatch"} \X Hatches)
                        \cup {<<"user", 0>>, NONE}
  <2>1. ~(w.style < 1)
    BY <1>1
  <2>2. CASE w.interior = 2 /\ w.style > 8
    BY <2>1, <2>2 DEF FillRows, Patterns
  <2>3. CASE w.interior = 2 /\ w.style \in 1 .. 6
    <3>1. ~(w.style > 8) /\ w.style \in Patterns
      BY <2>3 DEF Patterns
    <3>2. FillRows(w) = <<"pattern", w.style>>
      BY <2>1, <2>3, <3>1 DEF FillRows
    <3> QED BY <3>1, <3>2
  <2>4. CASE w.interior = 3
    <3>1. PICK row : row = (IF w.style > 12 THEN 12 ELSE w.style) - 1
      OBVIOUS
    <3>2. row \in Hatches
      BY <1>1, <3>1 DEF Hatches
    <3>3. FillRows(w) = <<"hatch", row>>
      BY <2>1, <2>4, <3>1 DEF FillRows
    <3> QED BY <3>2, <3>3
  <2>5. CASE w.interior = 4
    BY <2>1, <2>5 DEF FillRows
  <2>6. CASE ~(w.interior = 2 /\ w.style > 8) /\ ~(w.interior = 2 /\ w.style \in 1 .. 6)
             /\ w.interior # 3 /\ w.interior # 4
    BY <2>1, <2>6 DEF FillRows
  <2> QED BY <2>2, <2>3, <2>4, <2>5, <2>6
<1>3. MarkerShape(w) \in Shapes
  BY <1>1 DEF MarkerShape, OneOf, Shapes
<1>4. MarkerScale(w) \in 1 .. 8
  BY <1>1 DEF MarkerScale, MarkerHeight
<1> QED BY <1>1, <1>2, <1>3, <1>4

LEMMA Implies == IInv => VdiSafety
<1> SUFFICES ASSUME IInv PROVE VdiSafety
  OBVIOUS
<1>1. CursorLiesOnTop
  BY DEF IInv, Sound, Fits, OnTop, CursorLiesOnTop
<1>2. CursorIsUp
  BY DEF IInv, Sound, CursorIsUp
<1>3. ASSUME NEW h \in Stations, ws[h].open PROVE ws[h] \in Opened
  BY <1>3 DEF IInv, StationTypes, Closed
<1>4. StationsAreOwned
  BY <1>3, ClipTyped DEF IInv, StationTypes, StationsAreOwned
<1>5. TablesHold
  BY <1>3, TablesAreLargeEnough DEF TablesHold
<1> QED BY <1>1, <1>2, <1>4, <1>5 DEF VdiSafety, CursorSafety, StationSafety

\* A drawing is in the clip and the color of its own workstation.
LEMMA DrawsInside == IInv /\ [VdiNext]_vars => [OwnClips]_vars
<1> SUFFICES ASSUME IInv PROVE OwnClips
  OBVIOUS
<1>1. ASSUME NEW c \in Clients, NEW h \in Stations, Clear(c, h)
      PROVE  scr'.picture = [p \in Screen |-> IF p \in Screen \cap Cells(Clip(ws[h]))
                                              THEN "white" ELSE scr.picture[p]]
  <2>1. Cells(Clip(ws[h])) \subseteq Screen
    BY <1>1, OwnedIsOpened, ClipTyped DEF Clear, IInv
  <2>2. PICK cells : cells = Screen \cap Cells(Clip(ws[h]))
    OBVIOUS
  <2>3. Cells(Clip(ws[h])) = cells
    BY <2>1, <2>2
  <2>4. scr' = Painted(scr, cells, "white")
    BY <1>1, <2>3 DEF Clear, ApplyWorkstation
  <2>5. cells \in SUBSET Screen /\ "white" \in Pens
    BY <2>1, <2>2 DEF Pens
  <2>6. scr'.picture = [p \in Screen |-> IF p \in cells THEN "white" ELSE scr.picture[p]]
    BY <2>4, <2>5, PaintedSound DEF IInv
  <2> QED BY <2>2, <2>6
<1>2. ASSUME NEW c \in Clients, NEW h \in Stations, NEW i \in Areas, Fill(c, h, i)
      PROVE  scr'.picture = [p \in Screen |-> IF p \in Cells(i) \cap Cells(Clip(ws[h]))
                                              THEN ws[h].pen ELSE scr.picture[p]]
  <2>1. Cells(Clip(ws[h])) \subseteq Screen /\ ws[h].pen \in Pens
    BY <1>2, OwnedIsOpened, ClipTyped DEF Fill, IInv
  <2>2. PICK cells : cells = Cells(i) \cap Cells(Clip(ws[h]))
    OBVIOUS
  <2>3. scr' = Painted(scr, cells, ws[h].pen)
    BY <1>2, <2>2 DEF Fill, ApplyWorkstation
  <2>4. cells \in SUBSET Screen
    BY <2>1, <2>2
  <2> QED BY <2>1, <2>2, <2>3, <2>4, PaintedSound DEF IInv
<1> QED BY <1>1, <1>2 DEF OwnClips

-----------------------------------------------------------------------------

\* The inductive invariant of the cursor and the workstations.
THEOREM Invariance == VdiSpec => []IInv
BY Establishes, Keeps, PTL DEF VdiSpec

\* gem_begin_draw, gem_cursor_draw, gem_cursor_remove, gem_vdi_find_workstation,
\* gem_vdi_resident_release: the video memory is always what was drawn with
\* the cursor upon it, the cursor is up just while nothing hides it, and every
\* workstation is of a client that lives, counted, with a clip on the screen and
\* attributes inside the tables.
THEOREM CursorAndStationsAreSafe == VdiSpec => []VdiSafety
BY Invariance, Implies, PTL

\* gem_vdi_apply_workstation: whoever drew before, a workstation fills and
\* clears in its own clip and its own color.
THEOREM DrawingIsClipped == VdiSpec => [][OwnClips]_vars
BY Invariance, DrawsInside, PTL DEF VdiSpec
----------------------------------------------------------------------------
(* Object trees.  First what the lists and the links of a tree are.        *)

\* An object's link leads to another, or nowhere.
LinkMaps == [Objects -> Links]

\* Where the link of the child number i of p leads.
NextOf(s, i, p) == IF i = Len(s) THEN p ELSE s[i + 1]

\* The links n, from "from" to "to", go along the children s of p and back.
Strung(n, from, to, p, s) ==
    /\ s = <<>> => from = NIL /\ to = NIL
    /\ s # <<>> => from = s[1] /\ to = s[Len(s)]
    /\ \A i \in 1 .. Len(s) : n[s[i]] = NextOf(s, i, p)

\* What the children of p can be.
Row(s, p) ==
    /\ s \in Seq(Objects)
    /\ NoRepeats(s)
    /\ ~Listed(s, p)
    /\ ~Listed(s, ROOT)

\* The links n, h and t are those of the lists of children k.
Tree(n, h, t, k) ==
    /\ n \in LinkMaps /\ h \in LinkMaps /\ t \in LinkMaps
    /\ k \in [Objects -> Seq(Objects)]
    /\ \A p \in Objects : Row(k[p], p)
    /\ \A p, q, o \in Objects : Listed(k[p], o) /\ Listed(k[q], o) => p = q
    /\ \A p \in Objects : Strung(n, h[p], t[p], p, k[p])
    /\ \A o \in Objects : (\A p \in Objects : ~Listed(k[p], o)) => n[o] = NIL

----------------------------------------------------------------------------
(* Walks *)

\* One object on, along the links n.
NextMet(n, y) == IF y = NIL THEN NIL ELSE n[y]

\* The loop of Met.
LEMMA MetTurns ==
    ASSUME NEW n, NEW x
    PROVE  \E met :
              /\ met = [i \in 0 .. Count |-> IF i = 0 THEN x ELSE NextMet(n, met[i - 1])]
              /\ Met(n, x) = met
<1> DEFINE Turn(f, i) == IF i = 0 THEN x ELSE NextMet(n, f[i - 1])
           Is(f, t) == f = [i \in 0 .. t |-> Turn(f, i)]
           P == {t \in 0 .. Count : \E f : Is(f, t)}
<1>0. Count \in Nat
  BY BuiltAssumption
<1>1. 0 \in P
  <2>1. Is([i \in 0 .. 0 |-> x], 0)
    OBVIOUS
  <2>2. 0 \in 0 .. Count
    BY <1>0
  <2> HIDE DEF Is
  <2> QED BY <2>1, <2>2
<1>2. ASSUME NEW t \in 1 .. Count, t - 1 \in P PROVE t \in P
  <2>1. PICK f : Is(f, t - 1)
    BY <1>2
  <2> DEFINE g == [i \in 0 .. t |-> IF i = t THEN Turn(f, t) ELSE f[i]]
  <2>2. Is(g, t)
    BY ONLY <1>0, <2>1, t \in 1 .. Count
  <2>3. t \in 0 .. Count
    BY <1>0
  <2> HIDE DEF Is, g
  <2> QED BY <2>2, <2>3
<1>3. Count \in P
  <2> HIDE DEF P
  <2> QED BY <1>0, <1>1, <1>2, Turns
<1>4. PICK f : Is(f, Count)
  BY <1>3
<1>5. Met(n, x) = CHOOSE g : Is(g, Count)
  BY DEF Met, NextMet
<1>6. Is(CHOOSE g : Is(g, Count), Count)
  <2> HIDE DEF Is
  <2> QED BY <1>4
<1> QED BY <1>5, <1>6

\* Each object but the first is met from the one before.
LEMMA MetOnes ==
    ASSUME NEW n, NEW x, NEW met, met = Met(n, x)
    PROVE  /\ met[0] = x
           /\ \A i \in 1 .. Count : met[i] = IF met[i - 1] = NIL THEN NIL ELSE n[met[i - 1]]
<1>1. PICK f : /\ f = [i \in 0 .. Count |-> IF i = 0 THEN x ELSE NextMet(n, f[i - 1])]
               /\ Met(n, x) = f
  BY MetTurns
<1>2. Count \in Nat
  BY BuiltAssumption
<1>3. 0 \in 0 .. Count /\ \A i \in 1 .. Count : i \in 0 .. Count /\ i # 0
  BY <1>2
<1>4. met = f
  BY <1>1
<1>5. f[0] = x
  BY <1>1, <1>3
<1>6. \A i \in 1 .. Count : f[i] = NextMet(n, f[i - 1])
  BY <1>1, <1>3
<1> QED BY <1>4, <1>5, <1>6 DEF NextMet

\* A list of children is shorter than the array: the root is none.
LEMMA RowIsShort ==
    ASSUME NEW p, NEW s, Row(s, p)
    PROVE  /\ Len(s) \in 0 .. Count - 1
           /\ DOMAIN s = 1 .. Len(s)
           /\ \A i \in 1 .. Len(s) : s[i] \in Objects /\ s[i] # p /\ s[i] # ROOT
<1>1. Len(s) \in Nat /\ DOMAIN s = 1 .. Len(s)
  BY LenProperties DEF Row
<1>2. \A i \in 1 .. Len(s) : s[i] \in Objects /\ s[i] # p /\ s[i] # ROOT
  BY <1>1, LenProperties DEF Row, Listed
<1>3. Count \in Nat /\ Count # 0
  BY BuiltAssumption
<1>4. Objects \ {ROOT} = 1 .. Count - 1
  BY <1>3 DEF Objects, ROOT
<1>5. s \in [1 .. Len(s) -> 1 .. Count - 1]
  <2>1. s \in [1 .. Len(s) -> Objects]
    BY LenProperties DEF Row
  <2>2. \A i \in 1 .. Len(s) : s[i] \in 1 .. Count - 1
    BY <1>2, <1>4
  <2> QED BY <2>1, <2>2
<1>6. s \in Injection(1 .. Len(s), 1 .. Count - 1)
  BY <1>1, <1>5 DEF Row, NoRepeats, Injection, IsInjective
<1>7. IsFiniteSet(1 .. Count - 1) /\ Cardinality(1 .. Count - 1) = Count - 1
  <2>1. 1 \in Int /\ Count - 1 \in Int
    BY <1>3
  <2>2. Cardinality(1 .. Count - 1) = IF 1 > Count - 1 THEN 0 ELSE (Count - 1) - 1 + 1
    BY <2>1, FS_Interval
  <2> QED BY <1>3, <2>1, <2>2, FS_Interval
<1>8. Cardinality(1 .. Len(s)) = Len(s)
  <2>1. 1 \in Int /\ Len(s) \in Int
    BY <1>1
  <2>2. Cardinality(1 .. Len(s)) = IF 1 > Len(s) THEN 0 ELSE Len(s) - 1 + 1
    BY <2>1, FS_Interval
  <2> QED BY <1>1, <2>2
<1>9. Cardinality(1 .. Len(s)) <= Cardinality(1 .. Count - 1)
  BY <1>6, <1>7, FS_Injection
<1> QED BY <1>1, <1>2, <1>3, <1>7, <1>8, <1>9

\* The links n go from each of the children s of p to the next, and back.
Along(n, p, s) == \A i \in 1 .. Len(s) : n[s[i]] = NextOf(s, i, p)

\* A walk meets the objects of s from the number j on, and then p.
MeetsFrom(met, s, j, p) ==
    /\ \A i \in 0 .. Len(s) - j : met[i] = s[j + i]
    /\ met[Len(s) - j + 1] = p

\* From the child number j on, a walk meets the children behind it and then
\* their parent.
LEMMA WalkAlong ==
    ASSUME NEW n, NEW p, NEW s, Row(s, p), Along(n, p, s), NEW j \in 1 .. Len(s)
    PROVE  MeetsFrom(Met(n, s[j]), s, j, p)
<1>0. PICK met : met = Met(n, s[j])
  OBVIOUS
<1> DEFINE m == Len(s) - j
<1>1. /\ Len(s) \in 0 .. Count - 1
      /\ \A i \in 1 .. Len(s) : s[i] \in Objects
  BY RowIsShort
<1>2. m \in 0 .. Count - 1 /\ Count \in Nat
  BY <1>1, BuiltAssumption
<1>3. /\ met[0] = s[j]
      /\ \A i \in 1 .. Count : met[i] = IF met[i - 1] = NIL THEN NIL ELSE n[met[i - 1]]
  BY <1>0, MetOnes
<1> DEFINE P == {i \in 0 .. m : met[i] = s[j + i]}
<1>4. 0 \in P
  BY <1>1, <1>2, <1>3
<1>5. ASSUME NEW i \in 1 .. m, i - 1 \in P PROVE i \in P
  <2>1. met[i - 1] = s[j + (i - 1)]
    BY <1>5
  <2>2. j + (i - 1) \in 1 .. Len(s) /\ j + (i - 1) # Len(s) /\ (j + (i - 1)) + 1 = j + i
    BY <1>1
  <2>3. n[s[j + (i - 1)]] = s[j + i]
    BY <2>2 DEF NextOf, Along
  <2>4. met[i - 1] # NIL
    BY <1>1, <2>1, <2>2 DEF Objects, NIL
  <2>5. i \in 1 .. Count
    BY <1>2
  <2>6. met[i] = s[j + i]
    BY <1>3, <2>1, <2>3, <2>4, <2>5
  <2> QED BY <1>2, <2>6
<1>6. \A i \in 0 .. m : i \in P
  <2>1. SUFFICES ASSUME NEW i \in 0 .. m PROVE i \in P
    OBVIOUS
  <2>2. i \in Nat /\ \A l \in 1 .. i : l \in 1 .. m
    BY <1>2
  <2>3. \A l \in 1 .. i : l - 1 \in P => l \in P
    BY <1>5, <2>2
  <2> HIDE DEF P
  <2> QED BY <1>4, <2>2, <2>3, Turns
<1>7. met[m] = s[Len(s)]
  <2>1. m \in 0 .. m /\ j + m = Len(s)
    BY <1>1, <1>2
  <2> QED BY <1>6, <2>1
<1>8. met[m + 1] = p
  <2>1. m + 1 \in 1 .. Count /\ (m + 1) - 1 = m
    BY <1>2
  <2>2. Len(s) \in 1 .. Len(s) /\ s[Len(s)] # NIL
    BY <1>1 DEF Objects, NIL
  <2>3. n[s[Len(s)]] = p
    BY <2>2 DEF NextOf, Along
  <2>4. met[m + 1] = IF met[m] = NIL THEN NIL ELSE n[met[m]]
    BY <1>3, <2>1
  <2> QED BY <1>7, <2>2, <2>3, <2>4
<1> QED BY <1>0, <1>6, <1>8 DEF MeetsFrom

\* A walk meets the objects of s, in order, and then p.
Meets(met, s, p) ==
    /\ \A i \in 1 .. Len(s) : met[i - 1] = s[i]
    /\ s # <<>> => met[Len(s)] = p

\* The walk along the children of p meets just them.
LEMMA SistersAre ==
    ASSUME NEW n, NEW h, NEW p \in Objects, NEW to, NEW s,
           Row(s, p), Strung(n, h[p], to, p, s)
    PROVE  /\ Sisters(n, h, p) = Len(s)
           /\ Meets(Met(n, h[p]), s, p)
<1>0. PICK met : met = Met(n, h[p])
  OBVIOUS
<1>1. /\ Len(s) \in 0 .. Count - 1 /\ Count \in Nat
      /\ \A i \in 1 .. Len(s) : s[i] \in Objects /\ s[i] # p
  BY RowIsShort, BuiltAssumption
<1>2. p # NIL
  BY DEF Objects, NIL
<1>3. ASSUME NEW m \in 0 .. Count, met[m] \in {p, NIL},
             \A j \in 0 .. m - 1 : met[j] \notin {p, NIL}
      PROVE  Sisters(n, h, p) = m
  <2>1. \A i \in 0 .. Count :
           met[i] \in {p, NIL} /\ (\A j \in 0 .. i - 1 : met[j] \notin {p, NIL}) => i = m
    <3>1. SUFFICES ASSUME NEW i \in 0 .. Count, met[i] \in {p, NIL},
                          \A j \in 0 .. i - 1 : met[j] \notin {p, NIL}
                   PROVE  i = m
      OBVIOUS
    <3>2. ~(m < i)
      <4>1. m < i => m \in 0 .. i - 1
        BY <1>1
      <4> QED BY <1>3, <3>1, <4>1
    <3>3. ~(i < m)
      <4>1. i < m => i \in 0 .. m - 1
        BY <1>1
      <4> QED BY <1>3, <3>1, <4>1
    <3> QED BY <1>1, <3>2, <3>3
  <2>2. Sisters(n, h, p) =
           IF \E i \in 0 .. Count : met[i] \in {p, NIL}
           THEN CHOOSE i \in 0 .. Count :
                   met[i] \in {p, NIL} /\ \A j \in 0 .. i - 1 : met[j] \notin {p, NIL}
           ELSE Count
    BY <1>0 DEF Sisters, Steps
  <2> QED BY <1>3, <2>1, <2>2
<1>4. CASE s = <<>>
  <2>1. Len(s) = 0 /\ met[0] = NIL
    BY <1>0, <1>4, MetOnes DEF Strung
  <2>2. 0 \in 0 .. Count /\ 0 .. 0 - 1 = {}
    BY <1>1
  <2>3. Sisters(n, h, p) = 0
    BY <1>3, <2>1, <2>2
  <2> QED BY <1>0, <1>1, <1>4, <2>1, <2>3 DEF Meets
<1>5. CASE s # <<>>
  <2>1. 1 \in 1 .. Len(s) /\ h[p] = s[1]
    <3>1. Len(s) # 0
      BY <1>5, EmptySeq DEF Row
    <3> QED BY <1>1, <1>5, <3>1 DEF Strung
  <2>2. Along(n, p, s)
    BY DEF Strung, Along
  <2>3. met = Met(n, s[1])
    BY <1>0, <2>1
  <2>4. /\ \A i \in 0 .. Len(s) - 1 : met[i] = s[1 + i]
        /\ met[Len(s) - 1 + 1] = p
    <3>1. MeetsFrom(Met(n, s[1]), s, 1, p)
      BY <2>1, <2>2, WalkAlong
    <3> QED BY <2>3, <3>1 DEF MeetsFrom
  <2>5. met[Len(s)] = p
    BY <1>1, <2>4
  <2>6. \A i \in 0 .. Len(s) - 1 : met[i] \notin {p, NIL}
    <3>1. \A i \in 0 .. Len(s) - 1 : 1 + i \in 1 .. Len(s)
      BY <1>1
    <3>2. \A i \in 1 .. Len(s) : s[i] # p /\ s[i] # NIL
      BY <1>1 DEF Objects, NIL
    <3> QED BY <2>4, <3>1, <3>2
  <2>7. Len(s) \in 0 .. Count
    BY <1>1
  <2>8. Sisters(n, h, p) = Len(s)
    BY <1>3, <2>5, <2>6, <2>7
  <2>9. \A i \in 1 .. Len(s) : met[i - 1] = s[i]
    <3>1. \A i \in 1 .. Len(s) : i - 1 \in 0 .. Len(s) - 1 /\ 1 + (i - 1) = i
      BY <1>1
    <3> QED BY <2>4, <3>1
  <2> QED BY <1>0, <2>5, <2>8, <2>9 DEF Meets
<1> QED BY <1>4, <1>5

\* So Kids reads the lists off the links.
LEMMA KidsAre ==
    ASSUME NEW n, NEW h, NEW t, NEW k, Tree(n, h, t, k)
    PROVE  Kids(n, h) = k
<1>1. ASSUME NEW p \in Objects
      PROVE  [i \in 1 .. Sisters(n, h, p) |-> Met(n, h[p])[i - 1]] = k[p]
  <2>1. PICK s : s = k[p]
    OBVIOUS
  <2>2. Row(s, p) /\ Strung(n, h[p], t[p], p, s)
    BY <2>1 DEF Tree
  <2>3. Sisters(n, h, p) = Len(s) /\ Meets(Met(n, h[p]), s, p)
    BY <2>2, SistersAre
  <2>4. s = [i \in 1 .. Len(s) |-> s[i]]
    BY <2>2, LenProperties DEF Row
  <2> QED BY <2>1, <2>3, <2>4 DEF Meets
<1>2. k = [p \in Objects |-> k[p]]
  BY DEF Tree
<1> QED BY <1>1, <1>2 DEF Kids

----------------------------------------------------------------------------
(* What the calls look for *)

Now == Tree(ob_next, ob_head, ob_tail, kids)

\* gem_object_children
LEMMA ChildrenAre ==
    ASSUME Now, NEW p \in Objects
    PROVE  Children(p) = Len(kids[p])
<1>1. PICK s : s = kids[p]
  OBVIOUS
<1>2. Row(s, p) /\ Strung(ob_next, ob_head[p], ob_tail[p], p, s)
  BY <1>1 DEF Now, Tree
<1>3. PICK met : met = Met(ob_next, ob_head[p])
  OBVIOUS
<1>4. /\ Sisters(ob_next, ob_head, p) = Len(s)
      /\ \A i \in 1 .. Len(s) : met[i - 1] = s[i]
      /\ s # <<>> => met[Len(s)] = p
  <2>1. /\ Sisters(ob_next, ob_head, p) = Len(s)
        /\ Meets(Met(ob_next, ob_head[p]), s, p)
    BY <1>2, SistersAre
  <2> QED BY <1>3, <2>1 DEF Meets
<1>5. /\ Len(s) \in Nat
      /\ \A i \in 1 .. Len(s) : s[i] # NIL
  BY <1>2, RowIsShort DEF Objects, NIL
<1>6. CASE s = <<>>
  <2>1. ob_head[p] = NIL /\ ob_tail[p] = NIL
    BY <1>2, <1>6 DEF Strung
  <2>2. Children(p) = 0
    BY <2>1 DEF Children
  <2> QED BY <1>1, <1>6, <2>2
<1>7. CASE s # <<>>
  <2>1. Len(s) # 0 /\ 1 \in 1 .. Len(s) /\ Len(s) \in 1 .. Len(s)
    <3>1. Len(s) # 0
      BY <1>2, <1>7, EmptySeq DEF Row
    <3> QED BY <1>5, <3>1
  <2>2. ob_head[p] # NIL /\ ob_tail[p] = s[Len(s)] /\ ob_tail[p] # NIL
    BY <1>2, <1>5, <1>7, <2>1 DEF Strung
  <2>3. met[Len(s)] = p /\ Len(s) > 0 /\ met[Len(s) - 1] = ob_tail[p]
    BY <1>4, <1>5, <1>7, <2>1, <2>2
  <2>4. Children(p) = Len(s)
    BY <1>3, <1>4, <2>2, <2>3 DEF Children
  <2> QED BY <1>1, <2>4
<1> QED BY <1>6, <1>7

\* gem_object_previous
LEMMA PreviousIs ==
    ASSUME Now, NEW p \in Objects, NEW i \in 1 .. Len(kids[p])
    PROVE  PreviousChild(p, kids[p][i]) = IF i = 1 THEN NIL ELSE kids[p][i - 1]
<1>1. PICK s : s = kids[p]
  OBVIOUS
<1>2. Row(s, p) /\ Strung(ob_next, ob_head[p], ob_tail[p], p, s)
  BY <1>1 DEF Now, Tree
<1>3. PICK met : met = Met(ob_next, ob_head[p])
  OBVIOUS
<1>4. \A j \in 1 .. Len(s) : met[j - 1] = s[j]
  <2>1. Meets(Met(ob_next, ob_head[p]), s, p)
    BY <1>2, SistersAre
  <2> QED BY <1>3, <2>1 DEF Meets
<1>5. /\ Len(s) \in 0 .. Count - 1 /\ Count \in Nat
      /\ \A j \in 1 .. Len(s) : s[j] # NIL /\ s[j] # p
      /\ DOMAIN s = 1 .. Len(s)
  BY <1>2, RowIsShort, BuiltAssumption DEF Objects, NIL
<1>6. i \in 1 .. Len(s) /\ s # <<>>
  BY <1>1, <1>5
<1>7. ob_head[p] = s[1] /\ 1 \in 1 .. Len(s)
  BY <1>2, <1>5, <1>6 DEF Strung
<1>8. CASE i = 1
  BY <1>1, <1>7, <1>8 DEF PreviousChild
<1>9. CASE i # 1
  <2>1. PICK o : o = s[i]
    OBVIOUS
  <2>2. PICK m : m = i - 2
    OBVIOUS
  <2>3. m \in 0 .. Count - 1 /\ m # Count /\ m + 1 = i - 1 /\ i - 1 \in 1 .. Len(s) /\ i - 1 # Len(s)
    BY <1>5, <1>6, <1>9, <2>2
  <2>4. met[m] = s[i - 1]
    BY <1>4, <2>2, <2>3
  <2>5. ob_head[p] # o
    BY <1>2, <1>5, <1>6, <1>7, <1>9, <2>1 DEF Row, NoRepeats
  <2>6. ob_next[met[m]] = o /\ met[m] # NIL
    <3>1. ob_next[s[i - 1]] = NextOf(s, i - 1, p)
      BY <1>2, <2>3 DEF Strung
    <3>2. (i - 1) + 1 = i
      BY <1>6
    <3> QED BY <1>5, <2>1, <2>3, <2>4, <3>1, <3>2 DEF NextOf
  <2>7. ASSUME NEW j \in 0 .. m - 1
        PROVE  met[j] # NIL /\ ob_next[met[j]] \notin {o, p}
    <3>1. j + 1 \in 1 .. Len(s) /\ j + 2 \in 1 .. Len(s) /\ j + 1 # Len(s)
          /\ (j + 1) + 1 = j + 2 /\ j + 2 # i /\ (j + 1) - 1 = j
      <4>1. Len(s) \in Int /\ i \in Int /\ i <= Len(s) /\ j \in Int /\ 0 <= j /\ j < i - 2
        BY <1>5, <1>6, <2>2, <2>3
      <4> QED BY ONLY <4>1
    <3>2. met[j] = s[j + 1]
      BY <1>4, <3>1
    <3>3. ob_next[s[j + 1]] = s[j + 2]
      BY <1>2, <3>1 DEF Strung, NextOf
    <3>4. s[j + 2] # o
      BY <1>2, <1>5, <1>6, <2>1, <3>1 DEF Row, NoRepeats
    <3> QED BY <1>5, <3>1, <3>2, <3>3, <3>4
  <2> DEFINE Ends(x) == x = NIL \/ ob_next[x] \in {o, p}
  <2>8. Ends(met[m]) /\ \A j \in 0 .. m - 1 : ~Ends(met[j])
    BY <2>6, <2>7
  <2>9. m \in 0 .. Count
    BY <1>5, <2>3
  <2>10. ASSUME NEW l \in 0 .. Count, Ends(met[l]), \A j \in 0 .. l - 1 : ~Ends(met[j])
         PROVE  l = m
    <3> HIDE DEF Ends
    <3>1. m < l => m \in 0 .. l - 1
      BY <1>5, <2>9
    <3>2. l < m => l \in 0 .. m - 1
      BY <1>5, <2>9
    <3>3. l = m \/ m < l \/ l < m
      BY <1>5, <2>9
    <3> QED BY <2>8, <2>10, <3>1, <3>2, <3>3
  <2>11. Steps(met, Ends) = m
    <3>1. Steps(met, Ends) =
            IF \E l \in 0 .. Count : Ends(met[l])
            THEN CHOOSE l \in 0 .. Count : Ends(met[l]) /\ \A j \in 0 .. l - 1 : ~Ends(met[j])
            ELSE Count
      BY DEF Steps
    <3> HIDE DEF Ends
    <3> QED BY <2>8, <2>9, <2>10, <3>1
  <2>12. Steps(met, LAMBDA x : x = NIL \/ ob_next[x] \in {o, p}) = m
    BY <2>11
  <2> HIDE DEF Ends
  <2>13. PreviousChild(p, o) = met[m]
    BY <1>3, <2>3, <2>5, <2>6, <2>12 DEF PreviousChild
  <2> QED BY <1>1, <1>9, <2>1, <2>4, <2>13
<1> QED BY <1>8, <1>9

\* gem_object_parent: along the sisters, whose links lead to no object that
\* has them last.
LEMMA ParentIs ==
    ASSUME Now, NEW p \in Objects, NEW i \in 1 .. Len(kids[p])
    PROVE  Parent(kids[p][i]) = p
<1>1. PICK s : s = kids[p]
  OBVIOUS
<1>2. PICK o : o = s[i]
  OBVIOUS
<1>3. PICK m : m = Len(s) - i
  OBVIOUS
<1>4. PICK met : met = Met(ob_next, o)
  OBVIOUS
<1>5. Row(s, p) /\ Strung(ob_next, ob_head[p], ob_tail[p], p, s)
  BY <1>1 DEF Now, Tree
<1>6. /\ Len(s) \in 0 .. Count - 1 /\ Count \in Nat
      /\ \A j \in 1 .. Len(s) : s[j] \in Objects /\ s[j] # NIL /\ s[j] # p /\ s[j] # ROOT
      /\ DOMAIN s = 1 .. Len(s)
  BY <1>5, RowIsShort, BuiltAssumption DEF Objects, NIL
<1>7. i \in 1 .. Len(s)
  BY <1>1
<1>8. m \in 0 .. Count /\ m # Count /\ i + m = Len(s) /\ m + 1 = Len(s) - i + 1
  BY <1>3, <1>6, <1>7
<1>9. \A j \in 1 .. Len(s) : ob_next[s[j]] = NextOf(s, j, p)
  BY <1>5 DEF Strung
<1>10. \A j \in 0 .. m : met[j] = s[i + j]
  <2>1. Along(ob_next, p, s)
    BY <1>9 DEF Along
  <2>2. MeetsFrom(Met(ob_next, s[i]), s, i, p)
    BY <1>5, <1>7, <2>1, WalkAlong
  <2> QED BY <1>2, <1>3, <1>4, <2>2 DEF MeetsFrom
<1>11. Len(s) \in 1 .. Len(s) /\ s # <<>>
  BY <1>6, <1>7
<1>12. met[m] = s[Len(s)]
  <2>1. m \in 0 .. m
    BY <1>8
  <2> QED BY <1>8, <1>10, <2>1
<1>13. ob_next[met[m]] = p
  BY <1>9, <1>11, <1>12 DEF NextOf
<1>14. ob_tail[p] = met[m]
  BY <1>5, <1>11, <1>12 DEF Strung
<1> DEFINE Ends(x) == ob_next[x] = NIL \/ ob_tail[ob_next[x]] = x
<1>15. Ends(met[m])
  BY <1>13, <1>14
<1>16. ASSUME NEW j \in 0 .. m - 1 PROVE ~Ends(met[j])
  <2>1. i + j \in 1 .. Len(s) /\ i + j # Len(s) /\ (i + j) + 1 \in 1 .. Len(s) /\ j \in 0 .. m
    <3>1. /\ Len(s) \in Int /\ i \in Int /\ 1 <= i /\ j \in Int /\ 0 <= j
          /\ j < m /\ m = Len(s) - i
      BY <1>3, <1>6, <1>7, <1>8
    <3> QED BY ONLY <3>1
  <2>2. PICK x \in Objects : x = s[i + j]
    BY <1>6, <2>1
  <2>3. PICK y \in Objects : y = s[(i + j) + 1]
    BY <1>6, <2>1
  <2>4. met[j] = x /\ ob_next[x] = y
    BY <1>9, <1>10, <2>1, <2>2, <2>3 DEF NextOf
  <2>5. y # NIL /\ x # NIL /\ y # p
    BY <1>6, <2>1, <2>2, <2>3
  <2>6. Listed(kids[p], x)
    BY <1>1, <1>6, <2>1, <2>2 DEF Listed
  <2>7. ob_tail[y] # x
    <3>1. PICK r : r = kids[y]
      OBVIOUS
    <3>2. Row(r, y) /\ Strung(ob_next, ob_head[y], ob_tail[y], y, r)
      BY <3>1 DEF Now, Tree
    <3>3. CASE r = <<>>
      BY <2>5, <3>2, <3>3 DEF Strung
    <3>4. CASE r # <<>>
      <4>1. ob_tail[y] = r[Len(r)]
        BY <3>2, <3>4 DEF Strung
      <4>2. Len(r) \in DOMAIN r
        <5>1. Len(r) # 0
          BY <3>2, <3>4, EmptySeq DEF Row
        <5>2. Len(r) \in Nat /\ DOMAIN r = 1 .. Len(r)
          BY <3>2, LenProperties DEF Row
        <5> QED BY <5>1, <5>2
      <4>3. Listed(kids[y], ob_tail[y])
        BY <3>1, <4>1, <4>2 DEF Listed
      <4>4. SUFFICES ASSUME ob_tail[y] = x PROVE FALSE
        OBVIOUS
      <4>5. Listed(kids[y], x)
        BY <4>3, <4>4
      <4> QED BY <2>5, <2>6, <4>5 DEF Now, Tree
    <3> QED BY <3>3, <3>4
  <2> QED BY <2>4, <2>5, <2>7
<1>17. ASSUME NEW l \in 0 .. Count, Ends(met[l]), \A j \in 0 .. l - 1 : ~Ends(met[j])
       PROVE  l = m
  <2> HIDE DEF Ends
  <2>1. m < l => m \in 0 .. l - 1
    BY <1>6, <1>8
  <2>2. l < m => l \in 0 .. m - 1
    BY <1>6, <1>8
  <2>3. l = m \/ m < l \/ l < m
    BY <1>6, <1>8
  <2> QED BY <1>15, <1>16, <1>17, <2>1, <2>2, <2>3
<1>18. Steps(met, Ends) = m
  <2>1. Steps(met, Ends) =
          IF \E l \in 0 .. Count : Ends(met[l])
          THEN CHOOSE l \in 0 .. Count : Ends(met[l]) /\ \A j \in 0 .. l - 1 : ~Ends(met[j])
          ELSE Count
    BY DEF Steps
  <2> HIDE DEF Ends
  <2> QED BY <1>8, <1>15, <1>16, <1>17, <2>1
<1>19. Steps(met, LAMBDA x : ob_next[x] = NIL \/ ob_tail[ob_next[x]] = x) = m
  BY <1>18
<1> HIDE DEF Ends
<1>20. o # ROOT
  BY <1>2, <1>6, <1>7
<1>21. Parent(o) = p
  BY <1>4, <1>8, <1>13, <1>19, <1>20 DEF Parent
<1> QED BY <1>1, <1>2, <1>21

\* And of an object that is nobody's child there is none.
LEMMA OrphanIs ==
    ASSUME Now, NEW o \in Objects, \A p \in Objects : ~Listed(kids[p], o)
    PROVE  Parent(o) = NIL /\ ob_next[o] = NIL
<1>1. ob_next[o] = NIL
  BY DEF Now, Tree
<1>2. PICK met : met = Met(ob_next, o)
  OBVIOUS
<1>3. met[0] = o
  BY <1>2, MetOnes
<1> DEFINE Ends(x) == ob_next[x] = NIL \/ ob_tail[ob_next[x]] = x
<1>4. Ends(met[0])
  BY <1>1, <1>3
<1>5. Count \in Nat /\ Count # 0
  BY BuiltAssumption
<1>6. 0 \in 0 .. Count /\ 0 .. 0 - 1 = {}
  BY <1>5
<1>7. \A l \in 0 .. Count : (\A j \in 0 .. l - 1 : ~Ends(met[j])) => l = 0
  <2> HIDE DEF Ends
  <2>1. \A l \in 0 .. Count : l # 0 => 0 \in 0 .. l - 1
    BY <1>5
  <2> QED BY <1>4, <2>1
<1>8. Steps(met, Ends) = 0
  <2>1. Steps(met, Ends) =
          IF \E l \in 0 .. Count : Ends(met[l])
          THEN CHOOSE l \in 0 .. Count : Ends(met[l]) /\ \A j \in 0 .. l - 1 : ~Ends(met[j])
          ELSE Count
    BY DEF Steps
  <2> HIDE DEF Ends
  <2> QED BY <1>4, <1>6, <1>7, <2>1
<1>9. Steps(met, LAMBDA x : ob_next[x] = NIL \/ ob_tail[ob_next[x]] = x) = 0
  BY <1>8
<1> HIDE DEF Ends
<1> QED BY <1>1, <1>2, <1>3, <1>5, <1>9 DEF Parent

\* Who is listed is the child of one object.
LEMMA OwnerIs ==
    ASSUME Now, NEW o \in Objects
    PROVE  /\ \A p \in Objects : Listed(kids[p], o) =>
                 /\ Forest!Parents(o) = {p} /\ Owner(o) = p /\ Parent(o) = p
                 /\ IsChild(o) /\ Owner(o) # NIL
           /\ (\A p \in Objects : ~Listed(kids[p], o)) =>
                 /\ Forest!Parents(o) = {} /\ Owner(o) = NIL /\ ~IsChild(o)
<1>1. ASSUME NEW p \in Objects, Listed(kids[p], o)
      PROVE  /\ Forest!Parents(o) = {p} /\ Owner(o) = p /\ Parent(o) = p
             /\ IsChild(o) /\ Owner(o) # NIL
  <2>1. Forest!Parents(o) = {p}
    BY <1>1 DEF Forest!Parents, Forest!Listed, Listed, Now, Tree
  <2>2. Owner(o) = p
    BY <2>1 DEF Owner
  <2>3. Row(kids[p], p)
    BY DEF Now, Tree
  <2>4. PICK i \in DOMAIN kids[p] : kids[p][i] = o
    BY <1>1 DEF Listed
  <2>5. i \in 1 .. Len(kids[p]) /\ Len(kids[p]) \in Nat
    BY <2>3, RowIsShort
  <2>6. Parent(o) = p
    BY <2>4, <2>5, ParentIs
  <2>7. Children(p) > 0
    BY <2>5, ChildrenAre
  <2>8. o # ROOT
    BY <1>1, <2>3 DEF Row
  <2>9. p # NIL
    BY DEF Objects, NIL
  <2> QED BY <2>1, <2>2, <2>6, <2>7, <2>8, <2>9 DEF IsChild
<1>2. ASSUME \A p \in Objects : ~Listed(kids[p], o)
      PROVE  Forest!Parents(o) = {} /\ Owner(o) = NIL /\ ~IsChild(o)
  <2>1. Forest!Parents(o) = {}
    BY <1>2 DEF Forest!Parents, Forest!Listed, Listed
  <2>2. Owner(o) = NIL
    BY <2>1 DEF Owner
  <2>3. Parent(o) = NIL /\ NIL \notin Objects
    BY <1>2, OrphanIs DEF Objects, NIL
  <2> QED BY <2>1, <2>2, <2>3 DEF IsChild
<1> QED BY <1>1, <1>2

\* gem_object_parent and gem_object_children give up on nothing.
LEMMA NothingIsRefused ==
    ASSUME Now
    PROVE  RefusedOnlyInVain
<1>1. SUFFICES ASSUME NEW o \in Objects
               PROVE  /\ CanDelete(o) <=> Owner(o) # NIL
                      /\ \A p \in Objects :
                            CanAdd(p, o) <=> o # ROOT /\ p # o /\ Owner(o) = NIL
                      /\ \A position \in -1 .. Count - 1 :
                            CanOrder(o, position) <=>
                                Owner(o) # NIL /\ position < Len(kids[Owner(o)])
  BY DEF RefusedOnlyInVain
<1>2. \A p \in Objects : Children(p) = Len(kids[p]) /\ Len(kids[p]) \in Nat
  <2>1. \A p \in Objects : Row(kids[p], p)
    BY DEF Now, Tree
  <2>2. \A p \in Objects : Len(kids[p]) \in Nat
    BY <2>1, LenProperties DEF Row
  <2> QED BY <2>2, ChildrenAre
<1>3. CASE \E p \in Objects : Listed(kids[p], o)
  <2>1. PICK p \in Objects : Listed(kids[p], o)
    BY <1>3
  <2>2. /\ Owner(o) = p /\ Parent(o) = p /\ IsChild(o) /\ Owner(o) # NIL
    BY <2>1, OwnerIs
  <2>3. PICK s : s = kids[p]
    OBVIOUS
  <2>4. Row(s, p) /\ Strung(ob_next, ob_head[p], ob_tail[p], p, s)
    BY <2>3 DEF Now, Tree
  <2>5. PICK i \in 1 .. Len(s) : s[i] = o
    <3>1. DOMAIN s = 1 .. Len(s)
      BY <2>4, RowIsShort
    <3> QED BY <2>1, <2>3, <3>1 DEF Listed
  <2>6. Len(s) \in Nat /\ s # <<>> /\ \A j \in 1 .. Len(s) : s[j] # NIL /\ s[j] # ROOT /\ s[j] \in Objects
    <3>1. Len(s) \in Nat /\ \A j \in 1 .. Len(s) : s[j] # NIL /\ s[j] # ROOT /\ s[j] \in Objects
      BY <2>4, RowIsShort DEF Objects, NIL
    <3>2. s # <<>>
      BY <2>5
    <3> QED BY <3>1, <3>2
  <2>7. ob_head[p] = s[1]
    BY <2>4, <2>6 DEF Strung
  <2>8. ob_head[p] # o => PreviousChild(p, o) # NIL
    <3>1. SUFFICES ASSUME ob_head[p] # o PROVE PreviousChild(p, o) # NIL
      OBVIOUS
    <3>2. i # 1 /\ i - 1 \in 1 .. Len(s)
      BY <2>5, <2>6, <2>7, <3>1
    <3>3. PreviousChild(p, o) = s[i - 1]
      BY <2>3, <2>5, <3>2, PreviousIs
    <3> QED BY <2>6, <3>2, <3>3
  <2>9. CanDelete(o)
    BY <2>2, <2>8 DEF CanDelete
  <2>10. Children(p) = 1 => ob_head[p] = o
    BY <1>2, <2>3, <2>5, <2>6, <2>7
  <2>11. ASSUME NEW position \in -1 .. Count - 1
         PROVE  CanOrder(o, position) <=> position < Len(s)
    <3>1. position = NIL => position < Len(s)
      BY <2>6 DEF NIL
    <3> QED BY <1>2, <2>2, <2>3, <2>8, <2>10, <3>1 DEF CanOrder
  <2>12. ASSUME NEW q \in Objects PROVE ~CanAdd(q, o)
    <3>1. ob_next[o] = NextOf(s, i, p)
      BY <2>4, <2>5 DEF Strung
    <3>2. NextOf(s, i, p) # NIL
      <4>1. i # Len(s) => i + 1 \in 1 .. Len(s)
        BY <2>5, <2>6
      <4>2. p # NIL
        BY DEF Objects, NIL
      <4> QED BY <2>6, <4>1, <4>2 DEF NextOf
    <3> QED BY <3>1, <3>2 DEF CanAdd
  <2> QED BY <2>2, <2>3, <2>9, <2>11, <2>12
<1>4. CASE \A p \in Objects : ~Listed(kids[p], o)
  <2>1. Owner(o) = NIL /\ ~IsChild(o)
    BY <1>4, OwnerIs
  <2>2. ob_next[o] = NIL
    BY <1>4, OrphanIs
  <2>3. ~CanDelete(o) /\ \A position \in -1 .. Count - 1 : ~CanOrder(o, position)
    BY <2>1 DEF CanDelete, CanOrder
  <2>4. \A p \in Objects : Children(p) # Bad
    BY <1>2 DEF Bad
  <2>5. \A p \in Objects : CanAdd(p, o) <=> o # ROOT /\ p # o
    BY <2>2, <2>4 DEF CanAdd
  <2> QED BY <2>1, <2>3, <2>5
<1> QED BY <1>3, <1>4

----------------------------------------------------------------------------
(* What the calls relink *)

\* The links change with the children of p, which become s, and only there.
Relinked(n, h, t, k, m, g, u, p, s) ==
    /\ m \in LinkMaps /\ g \in LinkMaps /\ u \in LinkMaps
    /\ Row(s, p)
    /\ Strung(m, g[p], u[p], p, s)
    /\ \A q \in Objects : q # p => g[q] = h[q] /\ u[q] = t[q]
    /\ \A o \in Objects : Listed(s, o) => Listed(k[p], o) \/ \A q \in Objects : ~Listed(k[q], o)
    /\ \A o \in Objects : m[o] # n[o] => Listed(k[p], o) \/ Listed(s, o)
    /\ \A o \in Objects : Listed(k[p], o) /\ ~Listed(s, o) => m[o] = NIL

\* That keeps the other lists.
LEMMA RelinkedTree ==
    ASSUME NEW n, NEW h, NEW t, NEW k, NEW m, NEW g, NEW u, NEW p \in Objects, NEW s,
           Tree(n, h, t, k), Relinked(n, h, t, k, m, g, u, p, s)
    PROVE  Tree(m, g, u, [k EXCEPT ![p] = s])
<1>1. PICK l : l = [k EXCEPT ![p] = s]
  OBVIOUS
<1>2. /\ l \in [Objects -> Seq(Objects)] /\ l[p] = s
      /\ \A q \in Objects : q # p => l[q] = k[q]
  BY <1>1 DEF Tree, Relinked, Row
<1>3. \A q \in Objects : Row(l[q], q)
  BY <1>2 DEF Tree, Relinked
<1>4. ASSUME NEW q \in Objects, NEW r \in Objects, NEW o \in Objects,
             Listed(l[q], o), Listed(l[r], o)
      PROVE  q = r
  <2>1. \A v \in Objects : v # p /\ Listed(l[v], o) => Listed(k[v], o)
    BY <1>2
  <2>2. Listed(l[p], o) => Listed(k[p], o) \/ \A v \in Objects : ~Listed(k[v], o)
    BY <1>2 DEF Relinked
  <2>3. \A v, w \in Objects : Listed(k[v], o) /\ Listed(k[w], o) => v = w
    BY DEF Tree
  <2> QED BY <1>4, <2>1, <2>2, <2>3
<1>5. ASSUME NEW q \in Objects PROVE Strung(m, g[q], u[q], q, l[q])
  <2>1. CASE q = p
    BY <1>2, <2>1 DEF Relinked
  <2>2. CASE q # p
    <3>1. PICK r : r = k[q]
      OBVIOUS
    <3>2. Row(r, q) /\ Strung(n, h[q], t[q], q, r)
      BY <3>1 DEF Tree
    <3>3. ASSUME NEW i \in 1 .. Len(r) PROVE m[r[i]] = NextOf(r, i, q)
      <4>1. r[i] \in Objects /\ i \in DOMAIN r
        BY <3>2, RowIsShort
      <4>2. Listed(k[q], r[i])
        BY <3>1, <4>1 DEF Listed
      <4>3. ~Listed(k[p], r[i])
        BY <2>2, <4>1, <4>2 DEF Tree
      <4>4. ~Listed(s, r[i])
        BY <4>1, <4>2, <4>3 DEF Relinked
      <4>5. m[r[i]] = n[r[i]]
        BY <4>1, <4>3, <4>4 DEF Relinked
      <4> QED BY <3>2, <4>5 DEF Strung
    <3>4. g[q] = h[q] /\ u[q] = t[q] /\ l[q] = r
      BY <1>2, <2>2, <3>1 DEF Relinked
    <3> QED BY <3>2, <3>3, <3>4 DEF Strung
  <2> QED BY <2>1, <2>2
<1>6. ASSUME NEW o \in Objects, \A q \in Objects : ~Listed(l[q], o)
      PROVE  m[o] = NIL
  <2>1. ~Listed(s, o)
    BY <1>2, <1>6
  <2>2. CASE Listed(k[p], o)
    BY <2>1, <2>2 DEF Relinked
  <2>3. CASE ~Listed(k[p], o)
    <3>1. \A q \in Objects : ~Listed(k[q], o)
      BY <1>2, <1>6, <2>3
    <3>2. n[o] = NIL
      BY <3>1 DEF Tree
    <3> QED BY <2>1, <2>3, <3>2 DEF Relinked
  <2> QED BY <2>2, <2>3
<1> QED BY <1>1, <1>2, <1>3, <1>4, <1>5, <1>6 DEF Tree, Relinked

\* A child is put behind the first q of the list r.
Inserted(s, r, q, o) ==
    /\ s \in Seq(Objects)
    /\ Len(s) = Len(r) + 1
    /\ \A j \in 1 .. Len(s) : s[j] = IF j <= q THEN r[j] ELSE IF j = q + 1 THEN o ELSE r[j - 1]

\* SequencesExt puts it there.
LEMMA InsertAtIs ==
    ASSUME NEW r \in Seq(Objects), NEW o \in Objects, NEW q \in 0 .. Len(r)
    PROVE  Inserted(InsertAt(r, q + 1, o), r, q, o)
<1> DEFINE front == SubSeq(r, 1, (q + 1) - 1)
           back == SubSeq(r, q + 1, Len(r))
<1>1. Len(r) \in Nat /\ q \in Nat /\ q <= Len(r) /\ \A j \in 1 .. Len(r) : r[j] \in Objects
  BY LenProperties
<1>2. /\ front \in Seq(Objects) /\ Len(front) = q
      /\ \A j \in 1 .. q : front[j] = r[j]
  BY <1>1
<1>3. /\ back \in Seq(Objects) /\ Len(back) = Len(r) - q
      /\ \A j \in 1 .. Len(r) - q : back[j] = r[q + j]
  BY <1>1
<1> HIDE DEF front, back
<1>4. PICK a : a = front \o <<o>>
  OBVIOUS
<1>5. /\ a \in Seq(Objects) /\ Len(a) = q + 1
      /\ \A j \in 1 .. q : a[j] = r[j]
      /\ a[q + 1] = o
  BY <1>1, <1>2, <1>4
<1>6. PICK s : s = a \o back
  OBVIOUS
<1>7. /\ s \in Seq(Objects) /\ Len(s) = (q + 1) + (Len(r) - q)
      /\ \A j \in 1 .. q + 1 : s[j] = a[j]
      /\ \A j \in 1 .. Len(r) - q : s[(q + 1) + j] = back[j]
  <2>1. a \in Seq(Objects) /\ back \in Seq(Objects) /\ Len(a) = q + 1 /\ Len(back) = Len(r) - q
    BY <1>3, <1>5
  <2>2. /\ s \in Seq(Objects) /\ Len(s) = Len(a) + Len(back)
        /\ \A j \in 1 .. Len(a) + Len(back) : s[j] = IF j <= Len(a) THEN a[j] ELSE back[j - Len(a)]
    BY <1>6, <2>1, ConcatProperties
  <2>3. \A j \in 1 .. q + 1 : j \in 1 .. Len(a) + Len(back) /\ j <= Len(a)
    BY <1>1, <2>1
  <2>4. \A j \in 1 .. q + 1 : s[j] = a[j]
    BY <2>2, <2>3
  <2>5. ASSUME NEW j \in 1 .. Len(r) - q PROVE s[(q + 1) + j] = back[j]
    <3>1. PICK i : i = (q + 1) + j
      OBVIOUS
    <3>2. i \in 1 .. Len(a) + Len(back) /\ ~(i <= Len(a)) /\ i - Len(a) = j
      BY <1>1, <2>1, <3>1
    <3>3. s[i] = back[i - Len(a)]
      BY <2>2, <3>2
    <3> QED BY <3>1, <3>2, <3>3
  <2> QED BY <2>1, <2>2, <2>4, <2>5
<1>8. ASSUME NEW j \in 1 .. Len(r) + 1
      PROVE  s[j] = IF j <= q THEN r[j] ELSE IF j = q + 1 THEN o ELSE r[j - 1]
  <2>1. CASE j <= q
    <3>1. j \in 1 .. q /\ j \in 1 .. q + 1
      BY <1>1, <2>1
    <3> QED BY <1>5, <1>7, <2>1, <3>1
  <2>2. CASE j = q + 1
    <3>1. q + 1 \in 1 .. q + 1 /\ ~(q + 1 <= q)
      BY <1>1
    <3> QED BY <1>5, <1>7, <2>2, <3>1
  <2>3. CASE j > q + 1
    <3>1. PICK i : i = j - (q + 1)
      OBVIOUS
    <3>2. i \in 1 .. Len(r) - q /\ (q + 1) + i = j /\ q + i = j - 1 /\ ~(j <= q) /\ j # q + 1
      BY <1>1, <2>3, <3>1
    <3>3. s[(q + 1) + i] = r[q + i]
      BY <1>3, <1>7, <3>2
    <3> QED BY <3>2, <3>3
  <2>4. j <= q \/ j = q + 1 \/ j > q + 1
    BY <1>1
  <2> QED BY <2>1, <2>2, <2>3, <2>4
<1>9. Len(s) = Len(r) + 1
  BY <1>1, <1>7
<1>10. s = InsertAt(r, q + 1, o)
  BY <1>4, <1>6 DEF InsertAt, front, back
<1> QED BY <1>7, <1>8, <1>9, <1>10 DEF Inserted

\* Appending puts it behind all.
LEMMA AppendIs ==
    ASSUME NEW r \in Seq(Objects), NEW o \in Objects
    PROVE  Inserted(Append(r, o), r, Len(r), o)
<1>1. PICK n \in Nat : n = Len(r)
  BY LenProperties
<1>2. PICK s : s = Append(r, o)
  OBVIOUS
<1>3. /\ s \in Seq(Objects) /\ Len(s) = n + 1 /\ s[n + 1] = o
      /\ \A j \in 1 .. n : s[j] = r[j]
  BY <1>1, <1>2, AppendProperties
<1>4. \A j \in 1 .. n + 1 : s[j] = IF j <= n THEN r[j] ELSE IF j = n + 1 THEN o ELSE r[j - 1]
  <2>1. \A j \in 1 .. n + 1 : (j \in 1 .. n /\ j <= n) \/ (j = n + 1 /\ ~(j <= n))
    BY <1>1
  <2> QED BY <1>3, <2>1
<1> QED BY <1>1, <1>2, <1>3, <1>4 DEF Inserted

\* There is only one such list.
LEMMA InsertedOnce ==
    ASSUME NEW r, NEW q, NEW o, NEW s, NEW z, Inserted(s, r, q, o), Inserted(z, r, q, o)
    PROVE  s = z
<1>1. Len(s) = Len(z) /\ s \in Seq(Objects) /\ z \in Seq(Objects)
  BY DEF Inserted
<1>2. \A j \in 1 .. Len(s) : s[j] = z[j]
  BY <1>1 DEF Inserted
<1>3. DOMAIN s = 1 .. Len(s) /\ DOMAIN z = 1 .. Len(z)
  BY <1>1, LenProperties
<1>4. s = [j \in 1 .. Len(s) |-> s[j]] /\ z = [j \in 1 .. Len(z) |-> z[j]]
  BY <1>1, LenProperties
<1> QED BY <1>1, <1>2, <1>4

\* The list stays one of children, and has the new one besides.
LEMMA InsertedRow ==
    ASSUME NEW p, NEW r, Row(r, p), NEW o \in Objects, o # p, o # ROOT, ~Listed(r, o),
           NEW q \in 0 .. Len(r), NEW s, Inserted(s, r, q, o)
    PROVE  /\ Row(s, p) /\ s # <<>>
           /\ \A x : Listed(s, x) <=> x = o \/ Listed(r, x)
<1>1. PICK n \in Nat : n = Len(r) /\ DOMAIN r = 1 .. n
  BY LenProperties DEF Row
<1>2. /\ s \in Seq(Objects) /\ Len(s) = n + 1 /\ DOMAIN s = 1 .. n + 1
      /\ \A j \in 1 .. n + 1 : s[j] = IF j <= q THEN r[j] ELSE IF j = q + 1 THEN o ELSE r[j - 1]
  BY <1>1, LenProperties DEF Inserted
<1>3. q \in 0 .. n
  BY <1>1
<1> DEFINE old(j) == IF j <= q THEN j ELSE j - 1
<1>4. \A j \in 1 .. n + 1 : j # q + 1 => old(j) \in 1 .. n /\ s[j] = r[old(j)]
  BY <1>1, <1>2, <1>3
<1>5. \A i, j \in 1 .. n + 1 : i # q + 1 /\ j # q + 1 /\ old(i) = old(j) => i = j
  BY <1>1, <1>3
<1>6. q + 1 \in 1 .. n + 1 /\ s[q + 1] = o
  BY <1>1, <1>2, <1>3
<1>7. \A j \in 1 .. n : r[j] # o
  BY <1>1 DEF Listed
<1> HIDE DEF old
<1>8. NoRepeats(s)
  <2>1. ASSUME NEW i \in 1 .. n + 1, NEW j \in 1 .. n + 1, s[i] = s[j] PROVE i = j
    <3>1. CASE i # q + 1 /\ j # q + 1
      <4>1. r[old(i)] = r[old(j)]
        BY <1>4, <2>1, <3>1
      <4>2. old(i) = old(j)
        BY <1>1, <1>4, <3>1, <4>1 DEF Row, NoRepeats
      <4> QED BY <1>5, <3>1, <4>2
    <3>2. CASE i = q + 1 \/ j = q + 1
      BY <1>4, <1>6, <1>7, <2>1, <3>2
    <3> QED BY <3>1, <3>2
  <2> QED BY <1>2, <2>1 DEF NoRepeats
<1>9. ASSUME NEW x PROVE Listed(s, x) <=> x = o \/ Listed(r, x)
  <2>1. ASSUME NEW j \in 1 .. n + 1, s[j] = x PROVE x = o \/ Listed(r, x)
    BY <1>1, <1>4, <1>6, <2>1 DEF Listed
  <2>2. ASSUME NEW i \in 1 .. n, r[i] = x PROVE \E j \in 1 .. n + 1 : s[j] = x
    <3>1. CASE i <= q
      <4>1. i \in 1 .. n + 1
        BY <1>1
      <4> QED BY <1>2, <2>2, <3>1, <4>1
    <3>2. CASE ~(i <= q)
      <4>1. i + 1 \in 1 .. n + 1 /\ ~(i + 1 <= q) /\ i + 1 # q + 1 /\ (i + 1) - 1 = i
        BY <1>1, <1>3, <3>2
      <4>2. s[i + 1] = r[i]
        BY <1>2, <4>1
      <4> QED BY <2>2, <4>1, <4>2
    <3> QED BY <3>1, <3>2
  <2> QED BY <1>1, <1>2, <1>6, <2>1, <2>2 DEF Listed
<1>10. s # <<>>
  BY <1>1, <1>2
<1> QED BY <1>2, <1>8, <1>9, <1>10 DEF Row

\* The links m hook o in behind the first q of the list r, whose links are n.
Hooked(m, n, p, r, q, o) ==
    /\ \A x \in Objects : x # o /\ (q # 0 => x # r[q]) => m[x] = n[x]
    /\ m[o] = IF q = Len(r) THEN p ELSE r[q + 1]
    /\ q # 0 => m[r[q]] = o

\* Then they go along the longer list.
LEMMA HookedAlong ==
    ASSUME NEW m, NEW n, NEW p, NEW r, Row(r, p), NEW o \in Objects, ~Listed(r, o),
           NEW q \in 0 .. Len(r), Along(n, p, r), Hooked(m, n, p, r, q, o),
           NEW s, Inserted(s, r, q, o)
    PROVE  /\ Along(m, p, s)
           /\ s[1] = IF q = 0 THEN o ELSE r[1]
           /\ s[Len(s)] = IF q = Len(r) THEN o ELSE r[Len(r)]
<1>1. PICK len \in Nat : len = Len(r) /\ DOMAIN r = 1 .. len
  BY LenProperties DEF Row
<1>2. /\ Len(s) = len + 1
      /\ \A j \in 1 .. len + 1 : s[j] = IF j <= q THEN r[j] ELSE IF j = q + 1 THEN o ELSE r[j - 1]
  BY <1>1 DEF Inserted
<1>3. q \in 0 .. len /\ q \in Nat
  BY <1>1
<1>4. \A j \in 1 .. len : r[j] \in Objects /\ r[j] # o
  BY <1>1, RowIsShort DEF Listed
<1>5. \A i, j \in 1 .. len : r[i] = r[j] => i = j
  BY <1>1 DEF Row, NoRepeats
<1>6. \A j \in 1 .. len : n[r[j]] = IF j = len THEN p ELSE r[j + 1]
  BY <1>1 DEF Along, NextOf
<1>7. \A j \in 1 .. len : j # q => m[r[j]] = n[r[j]]
  <2>1. q # 0 => q \in 1 .. len
    BY <1>3
  <2> QED BY <1>4, <1>5, <2>1 DEF Hooked
<1>8. ASSUME NEW j \in 1 .. len + 1 PROVE m[s[j]] = IF j = len + 1 THEN p ELSE s[j + 1]
  <2>1. CASE j < q
    <3>1. j \in 1 .. len /\ j + 1 \in 1 .. len + 1 /\ j # len /\ j # len + 1 /\ j <= q /\ j + 1 <= q /\ j # q
      BY <1>1, <1>3, <2>1
    <3>2. s[j] = r[j] /\ s[j + 1] = r[j + 1]
      BY <1>2, <3>1
    <3> QED BY <1>6, <1>7, <3>1, <3>2
  <2>2. CASE j = q
    <3>1. q # 0 /\ q <= q /\ q + 1 \in 1 .. len + 1 /\ ~(q + 1 <= q) /\ q # len + 1
      BY <1>1, <1>3, <2>2
    <3>2. s[j] = r[q] /\ s[j + 1] = o
      BY <1>2, <2>2, <3>1
    <3> QED BY <2>2, <3>1, <3>2 DEF Hooked
  <2>3. CASE j = q + 1
    <3>1. s[j] = o
      <4>1. ~(q + 1 <= q)
        BY <1>3
      <4> QED BY <1>2, <2>3, <4>1
    <3>2. CASE q = len
      BY <1>1, <2>3, <3>1, <3>2 DEF Hooked
    <3>3. CASE q # len
      <4>1. j # len + 1 /\ j + 1 \in 1 .. len + 1 /\ ~(j + 1 <= q) /\ j + 1 # q + 1 /\ (j + 1) - 1 = q + 1
        BY <1>1, <1>3, <2>3, <3>3
      <4>2. s[j + 1] = r[q + 1]
        BY <1>2, <4>1
      <4> QED BY <1>1, <3>1, <3>3, <4>1, <4>2 DEF Hooked
    <3> QED BY <3>2, <3>3
  <2>4. CASE j > q + 1
    <3>1. PICK i : i = j - 1
      OBVIOUS
    <3>2. i \in 1 .. len /\ i # q /\ ~(j <= q) /\ j # q + 1 /\ i + 1 = j
      BY <1>1, <1>3, <2>4, <3>1
    <3>3. s[j] = r[i]
      BY <1>2, <3>1, <3>2
    <3>4. m[s[j]] = IF i = len THEN p ELSE r[i + 1]
      BY <1>6, <1>7, <3>2, <3>3
    <3>5. CASE i = len
      BY <3>2, <3>4, <3>5
    <3>6. CASE i # len
      <4>1. j # len + 1 /\ j + 1 \in 1 .. len + 1 /\ ~(j + 1 <= q) /\ j + 1 # q + 1 /\ (j + 1) - 1 = j
        BY <1>1, <1>3, <3>2, <3>6
      <4>2. s[j + 1] = r[j]
        BY <1>2, <4>1
      <4> QED BY <3>2, <3>4, <3>6, <4>1, <4>2
    <3> QED BY <3>5, <3>6
  <2>5. j < q \/ j = q \/ j = q + 1 \/ j > q + 1
    BY <1>1, <1>3
  <2> QED BY <2>1, <2>2, <2>3, <2>4, <2>5
<1>9. s[1] = IF q = 0 THEN o ELSE r[1]
  <2>1. 1 \in 1 .. len + 1 /\ (q # 0 => 1 <= q) /\ (q = 0 => 1 = q + 1 /\ ~(1 <= q))
    BY <1>1, <1>3
  <2> QED BY <1>2, <2>1
<1>10. s[len + 1] = IF q = len THEN o ELSE r[len]
  <2>1. len + 1 \in 1 .. len + 1 /\ ~(len + 1 <= q) /\ (len + 1 = q + 1 <=> q = len) /\ (len + 1) - 1 = len
    BY <1>1, <1>3
  <2> QED BY <1>2, <2>1
<1> QED BY <1>1, <1>2, <1>8, <1>9, <1>10 DEF Along, NextOf

\* The links m pass over the child number i of the list s, whose links are n.
Passed(m, n, s, i) ==
    /\ \A x \in Objects : x # s[i] /\ (i # 1 => x # s[i - 1]) => m[x] = n[x]
    /\ i # 1 => m[s[i - 1]] = n[s[i]]

\* r is the list of p without its child number i, and the links m go along it.
Shorter(m, p, s, i, r) ==
    /\ Row(r, p) /\ Along(m, p, r) /\ Len(r) = Len(s) - 1
    /\ r = <<>> <=> Len(s) = 1
    /\ \A x \in Objects : Listed(r, x) <=> x # s[i] /\ Listed(s, x)
    /\ r # <<>> => /\ r[1] = IF i = 1 THEN s[2] ELSE s[1]
                   /\ r[Len(r)] = IF i = Len(s) THEN s[i - 1] ELSE s[Len(s)]

\* Then they go along the shorter list.
LEMMA PassedAlong ==
    ASSUME NEW m, NEW n, NEW p, NEW s, Row(s, p), NEW i \in 1 .. Len(s),
           Along(n, p, s), Passed(m, n, s, i), NEW r, r = Without(s, s[i])
    PROVE  Shorter(m, p, s, i, r)
<1>1. PICK len \in Nat : len = Len(s) /\ DOMAIN s = 1 .. len
  BY LenProperties DEF Row
<1>2. i \in 1 .. len /\ s \in Seq(Objects)
  BY <1>1 DEF Row
<1>3. \A j, k \in 1 .. len : s[j] = s[k] => j = k
  BY <1>1 DEF Row, NoRepeats
<1>4. /\ r \in Seq(Objects) /\ Len(r) = len - 1
      /\ \A j \in 1 .. len - 1 : r[j] = IF j < i THEN s[j] ELSE s[j + 1]
  BY <1>1, <1>2, <1>3, WithoutAt
<1>5. /\ NoRepeats(r)
      /\ \A x \in Objects : Listed(r, x) <=> x # s[i] /\ Listed(s, x)
  BY <1>2, WithoutListed DEF Row
<1>6. Row(r, p)
  <2>1. ~Listed(r, ROOT) /\ ~Listed(r, p)
    <3>1. \A x : Listed(r, x) => x \in Objects
      BY <1>4, LenProperties DEF Listed
    <3> QED BY <1>5, <3>1 DEF Row
  <2> QED BY <1>4, <1>5, <2>1 DEF Row
<1>7. \A j \in 1 .. len : s[j] \in Objects
  BY <1>1, RowIsShort
<1>8. \A j \in 1 .. len : n[s[j]] = IF j = len THEN p ELSE s[j + 1]
  BY <1>1 DEF Along, NextOf
<1>9. \A j \in 1 .. len : j # i /\ j # i - 1 => m[s[j]] = n[s[j]]
  <2>1. i # 1 => i - 1 \in 1 .. len
    BY <1>1, <1>2
  <2> QED BY <1>2, <1>3, <1>7, <2>1 DEF Passed
<1>10. ASSUME NEW j \in 1 .. len - 1 PROVE m[r[j]] = IF j = len - 1 THEN p ELSE r[j + 1]
  <2>1. CASE j < i - 1
    <3>1. j \in 1 .. len /\ j + 1 \in 1 .. len - 1 /\ j < i /\ j + 1 < i /\ j # len - 1 /\ j # len /\ j # i /\ j # i - 1
      BY <1>1, <1>2, <2>1
    <3>2. r[j] = s[j] /\ r[j + 1] = s[j + 1]
      BY <1>4, <3>1
    <3> QED BY <1>8, <1>9, <3>1, <3>2
  <2>2. CASE j = i - 1
    <3>1. j < i /\ i # 1 /\ i \in 1 .. len
      BY <1>1, <1>2, <2>2
    <3>2. m[r[j]] = IF i = len THEN p ELSE s[i + 1]
      BY <1>4, <1>8, <2>2, <3>1 DEF Passed
    <3>3. CASE i = len
      BY <2>2, <3>2, <3>3
    <3>4. CASE i # len
      <4>1. j # len - 1 /\ j + 1 \in 1 .. len - 1 /\ ~(j + 1 < i) /\ (j + 1) + 1 = i + 1
        BY <1>1, <1>2, <2>2, <3>4
      <4>2. r[j + 1] = s[i + 1]
        BY <1>4, <4>1
      <4> QED BY <3>2, <3>4, <4>1, <4>2
    <3> QED BY <3>3, <3>4
  <2>3. CASE j >= i
    <3>1. PICK l : l = j + 1
      OBVIOUS
    <3>2. l \in 1 .. len /\ l # i /\ l # i - 1 /\ ~(j < i)
      BY <1>1, <1>2, <2>3, <3>1
    <3>3. r[j] = s[l]
      BY <1>4, <3>1, <3>2
    <3>4. m[r[j]] = IF l = len THEN p ELSE s[l + 1]
      BY <1>8, <1>9, <3>2, <3>3
    <3>5. CASE l = len
      <4>1. j = len - 1
        BY <1>1, <3>1, <3>5
      <4> QED BY <3>4, <3>5, <4>1
    <3>6. CASE l # len
      <4>1. j # len - 1 /\ j + 1 \in 1 .. len - 1 /\ ~(j + 1 < i) /\ (j + 1) + 1 = l + 1
        BY <1>1, <1>2, <2>3, <3>1, <3>6
      <4>2. r[j + 1] = s[l + 1]
        BY <1>4, <4>1
      <4> QED BY <3>4, <3>6, <4>1, <4>2
    <3> QED BY <3>5, <3>6
  <2>4. j < i - 1 \/ j = i - 1 \/ j >= i
    BY <1>1, <1>2
  <2> QED BY <2>1, <2>2, <2>3, <2>4
<1>11. ASSUME r # <<>>
       PROVE  /\ r[1] = IF i = 1 THEN s[2] ELSE s[1]
              /\ r[Len(r)] = IF i = len THEN s[i - 1] ELSE s[len]
  <2>1. len - 1 # 0
    BY <1>4, <1>11, EmptySeq
  <2>2. 1 \in 1 .. len - 1 /\ len - 1 \in 1 .. len - 1 /\ (len - 1) + 1 = len /\ 1 + 1 = 2
    BY <1>1, <1>2, <2>1
  <2>3. (1 < i <=> i # 1) /\ (len - 1 < i <=> i = len)
    BY <1>1, <1>2
  <2> QED BY <1>4, <2>2, <2>3
<1>12. r = <<>> <=> len = 1
  <2>1. r = <<>> <=> Len(r) = 0
    BY <1>4, EmptySeq
  <2> QED BY <1>1, <1>4, <2>1
<1>13. Along(m, p, r)
  BY <1>4, <1>10 DEF Along, NextOf
<1> QED BY <1>1, <1>4, <1>5, <1>6, <1>11, <1>12, <1>13 DEF Shorter

----------------------------------------------------------------------------
(* The calls *)

\* Kids reads the new list off the new links.
LEMMA RelinkedKids ==
    ASSUME NEW n, NEW h, NEW t, NEW k, NEW m, NEW g, NEW u, NEW p \in Objects, NEW s,
           Tree(n, h, t, k), Relinked(n, h, t, k, m, g, u, p, s), NEW l, l = Kids(m, g)
    PROVE  l = [k EXCEPT ![p] = s] /\ Tree(m, g, u, l)
<1>1. Tree(m, g, u, [k EXCEPT ![p] = s])
  BY RelinkedTree
<1>2. Kids(m, g) = [k EXCEPT ![p] = s]
  BY <1>1, KidsAre
<1> QED BY <1>1, <1>2

\* OBJC_ADD
LEMMA AddSteps ==
    ASSUME Now, NEW p \in Objects, NEW o \in Objects, ObjcAdd(p, o)
    PROVE  Now' /\ Forest!Add(p, o)
<1>1. o # ROOT /\ p # o /\ Owner(o) = NIL
  BY NothingIsRefused DEF ObjcAdd, RefusedOnlyInVain
<1>2. (\A q \in Objects : ~Listed(kids[q], o)) /\ Forest!Parents(o) = {}
  BY <1>1, OwnerIs
<1>3. PICK r : r = kids[p]
  OBVIOUS
<1>4. Row(r, p) /\ Strung(ob_next, ob_head[p], ob_tail[p], p, r)
  BY <1>3 DEF Now, Tree
<1>5. PICK q \in Nat : q = Len(r)
  BY <1>4, LenProperties DEF Row
<1>6. PICK s : s = Append(r, o)
  OBVIOUS
<1>7. Inserted(s, r, q, o) /\ q \in 0 .. Len(r)
  BY <1>4, <1>5, <1>6, AppendIs DEF Row
<1>8. Row(s, p) /\ s # <<>> /\ \A x : Listed(s, x) <=> x = o \/ Listed(r, x)
  BY <1>1, <1>2, <1>3, <1>4, <1>7, InsertedRow
<1>9. Children(p) = q
  BY <1>3, <1>5, ChildrenAre
<1>10. /\ ob_next \in LinkMaps /\ ob_head \in LinkMaps /\ ob_tail \in LinkMaps
       /\ o \in Links /\ p \in Links
  BY DEF Now, Tree, Links
<1>11. q # 0 => /\ q \in 1 .. Len(r) /\ ob_tail[p] = r[q] /\ ob_head[p] = r[1]
                /\ r[q] \in Objects /\ r[q] # o
  <2>1. SUFFICES ASSUME q # 0
                 PROVE  /\ q \in 1 .. Len(r) /\ ob_tail[p] = r[q] /\ ob_head[p] = r[1]
                        /\ r[q] \in Objects /\ r[q] # o
    OBVIOUS
  <2>2. r # <<>> /\ q \in 1 .. Len(r)
    BY <1>5, <2>1
  <2>3. r[q] \in Objects /\ DOMAIN r = 1 .. Len(r)
    BY <1>4, <2>2, RowIsShort
  <2>4. r[q] # o
    BY <1>2, <1>3, <2>2, <2>3 DEF Listed
  <2> QED BY <1>4, <1>5, <2>2, <2>3, <2>4 DEF Strung
<1>12. /\ ob_next' = IF q = 0 THEN [ob_next EXCEPT ![o] = p]
                     ELSE [ob_next EXCEPT ![o] = p, ![r[q]] = o]
       /\ ob_head' = IF q = 0 THEN [ob_head EXCEPT ![p] = o] ELSE ob_head
       /\ ob_tail' = [ob_tail EXCEPT ![p] = o]
  BY <1>9, <1>11 DEF ObjcAdd, AddChild
<1>13. ob_next' \in LinkMaps /\ ob_head' \in LinkMaps /\ ob_tail' \in LinkMaps
  BY <1>10, <1>12 DEF LinkMaps
<1>14. Hooked(ob_next', ob_next, p, r, q, o)
  <2>1. CASE q = 0
    BY <1>5, <1>10, <1>12, <2>1 DEF Hooked, LinkMaps
  <2>2. CASE q # 0
    BY <1>5, <1>10, <1>11, <1>12, <2>2 DEF Hooked, LinkMaps
  <2> QED BY <2>1, <2>2
<1>15. /\ Along(ob_next', p, s)
       /\ s[1] = IF q = 0 THEN o ELSE r[1]
       /\ s[Len(s)] = o
  <2>1. Along(ob_next, p, r)
    BY <1>4 DEF Strung, Along
  <2>2. ~Listed(r, o)
    BY <1>2, <1>3
  <2>3. /\ Along(ob_next', p, s)
        /\ s[1] = IF q = 0 THEN o ELSE r[1]
        /\ s[Len(s)] = IF q = Len(r) THEN o ELSE r[Len(r)]
    BY <1>4, <1>7, <1>14, <2>1, <2>2, HookedAlong
  <2> QED BY <1>5, <2>3
<1>16. ob_head'[p] = s[1] /\ ob_tail'[p] = s[Len(s)]
  BY <1>10, <1>11, <1>12, <1>15 DEF LinkMaps
<1>17. Strung(ob_next', ob_head'[p], ob_tail'[p], p, s)
  BY <1>8, <1>15, <1>16 DEF Strung, Along
<1>18. Relinked(ob_next, ob_head, ob_tail, kids, ob_next', ob_head', ob_tail', p, s)
  <2>1. \A x \in Objects : x # p => ob_head'[x] = ob_head[x] /\ ob_tail'[x] = ob_tail[x]
    BY <1>10, <1>12 DEF LinkMaps
  <2>2. \A x \in Objects : Listed(s, x) => Listed(kids[p], x) \/ \A z \in Objects : ~Listed(kids[z], x)
    BY <1>2, <1>3, <1>8
  <2>3. \A x \in Objects : ob_next'[x] # ob_next[x] => Listed(kids[p], x) \/ Listed(s, x)
    <3>1. q # 0 => Listed(r, r[q])
      <4>1. DOMAIN r = 1 .. Len(r)
        BY <1>4, RowIsShort
      <4> QED BY <1>11, <4>1 DEF Listed
    <3> QED BY <1>8, <1>3, <1>14, <3>1 DEF Hooked
  <2>4. \A x \in Objects : Listed(kids[p], x) => Listed(s, x)
    BY <1>3, <1>8
  <2> QED BY <1>8, <1>13, <1>17, <2>1, <2>2, <2>3, <2>4 DEF Relinked
<1>19. kids' = [kids EXCEPT ![p] = s] /\ Tree(ob_next', ob_head', ob_tail', kids')
  <2>1. kids' = Kids(ob_next', ob_head')
    BY DEF ObjcAdd
  <2> QED BY <1>18, <2>1, RelinkedKids DEF Now
<1>20. kids' = [kids EXCEPT ![p] = Append(@, o)]
  BY <1>3, <1>6, <1>19
<1> QED BY <1>1, <1>2, <1>19, <1>20 DEF Now, Forest!Add

\* What is known of the child o of p.
ChildOf(p, o, s, i) ==
    /\ p \in Objects /\ s = kids[p] /\ i \in 1 .. Len(s) /\ s[i] = o
    /\ Row(s, p) /\ Strung(ob_next, ob_head[p], ob_tail[p], p, s)
    /\ Parent(o) = p /\ Children(p) = Len(s)
    /\ PreviousChild(p, o) = IF i = 1 THEN NIL ELSE s[i - 1]
    /\ ob_head[p] = s[1] /\ ob_tail[p] = s[Len(s)]
    /\ ob_head[p] = o <=> i = 1
    /\ ob_tail[p] = o <=> i = Len(s)
    /\ ob_next[o] = NextOf(s, i, p)
    /\ Along(ob_next, p, s)
    /\ Forest!Parents(o) = {p}

\* And it is one, if the calls take it for one.
LEMMA ChildIs ==
    ASSUME Now, NEW o \in Objects, IsChild(o)
    PROVE  \E p, s, i : ChildOf(p, o, s, i)
<1>1. PICK p \in Objects : Listed(kids[p], o)
  BY OwnerIs
<1>2. Parent(o) = p /\ Forest!Parents(o) = {p}
  BY <1>1, OwnerIs
<1>3. PICK s : s = kids[p]
  OBVIOUS
<1>4. Row(s, p) /\ Strung(ob_next, ob_head[p], ob_tail[p], p, s)
  BY <1>3 DEF Now, Tree
<1>5. Len(s) \in Nat /\ DOMAIN s = 1 .. Len(s)
  BY <1>4, RowIsShort
<1>6. PICK i \in 1 .. Len(s) : s[i] = o
  BY <1>1, <1>3, <1>5 DEF Listed
<1>7. PreviousChild(p, o) = IF i = 1 THEN NIL ELSE s[i - 1]
  BY <1>3, <1>6, PreviousIs
<1>8. s # <<>> /\ 1 \in 1 .. Len(s) /\ Len(s) \in 1 .. Len(s)
  BY <1>5, <1>6
<1>9. ob_head[p] = s[1] /\ ob_tail[p] = s[Len(s)]
  BY <1>4, <1>8 DEF Strung
<1>10. (ob_head[p] = o <=> i = 1) /\ (ob_tail[p] = o <=> i = Len(s))
  BY <1>4, <1>5, <1>6, <1>8, <1>9 DEF Row, NoRepeats
<1>11. ob_next[o] = NextOf(s, i, p) /\ Along(ob_next, p, s)
  BY <1>4, <1>6 DEF Strung, Along
<1>12. Children(p) = Len(s)
  BY <1>3, ChildrenAre
<1>13. ChildOf(p, o, s, i)
  BY <1>2, <1>3, <1>4, <1>6, <1>7, <1>9, <1>10, <1>11, <1>12 DEF ChildOf
<1> QED BY <1>13

\* OBJC_DELETE
LEMMA DeleteSteps ==
    ASSUME Now, NEW o \in Objects, ObjcDelete(o)
    PROVE  Now' /\ Forest!Take(o)
<1>1. PICK p, s, i : ChildOf(p, o, s, i)
  BY ChildIs DEF ObjcDelete, CanDelete
<1>2. /\ Len(s) \in Nat /\ DOMAIN s = 1 .. Len(s)
      /\ \A j \in 1 .. Len(s) : s[j] \in Objects /\ s[j] # p
      /\ i \in 1 .. Len(s) /\ p \in Objects
  BY <1>1, RowIsShort DEF ChildOf
<1>3. PICK before : before = PreviousChild(p, o)
  OBVIOUS
<1>4. before = (IF i = 1 THEN NIL ELSE s[i - 1]) /\ (i # 1 => before \in Objects /\ before # o)
  <2>1. i # 1 => i - 1 \in 1 .. Len(s) /\ i - 1 # i
    BY <1>2
  <2>2. i # 1 => s[i - 1] # s[i]
    BY <1>1, <1>2, <2>1 DEF ChildOf, Row, NoRepeats
  <2> QED BY <1>1, <1>2, <1>3, <2>1, <2>2 DEF ChildOf
<1>5. /\ ob_next \in LinkMaps /\ ob_head \in LinkMaps /\ ob_tail \in LinkMaps
  BY DEF Now, Tree
<1>6. /\ NIL \in Links /\ before \in Links /\ ob_next[o] \in Links
  BY <1>4, <1>5 DEF Links, LinkMaps
<1>7. /\ ob_head' = IF i # 1 THEN ob_head
                    ELSE [ob_head EXCEPT ![p] = IF i = Len(s) THEN NIL ELSE ob_next[o]]
      /\ ob_tail' = IF i = Len(s) THEN [ob_tail EXCEPT ![p] = before] ELSE ob_tail
      /\ ob_next' = IF i = 1 THEN [ob_next EXCEPT ![o] = NIL]
                    ELSE [ob_next EXCEPT ![before] = ob_next[o], ![o] = NIL]
  <2>1. Parent(o) = p /\ (ob_head[p] = o <=> i = 1) /\ (ob_tail[p] = o <=> i = Len(s))
    BY <1>1 DEF ChildOf
  <2>2. Delete(o)
    BY DEF ObjcDelete
  <2> QED BY <1>3, <2>1, <2>2 DEF Delete
<1>8. ob_next' \in LinkMaps /\ ob_head' \in LinkMaps /\ ob_tail' \in LinkMaps
  BY <1>5, <1>6, <1>7 DEF LinkMaps
<1>9. s[i] = o
  BY <1>1 DEF ChildOf
<1>10. Passed(ob_next', ob_next, s, i)
  <2>1. CASE i = 1
    BY <1>5, <1>7, <1>9, <2>1 DEF Passed, LinkMaps
  <2>2. CASE i # 1
    BY <1>4, <1>5, <1>7, <1>9, <2>2 DEF Passed, LinkMaps
  <2> QED BY <2>1, <2>2
<1>11. PICK r, m : r = Without(s, o) /\ m = ob_next'
  OBVIOUS
<1>12. Shorter(m, p, s, i, r)
  <2>1. Row(s, p) /\ Along(ob_next, p, s)
    BY <1>1 DEF ChildOf
  <2>2. r = Without(s, s[i]) /\ Passed(m, ob_next, s, i)
    BY <1>9, <1>10, <1>11
  <2> QED BY <1>2, <2>1, <2>2, PassedAlong
<1>13. Strung(ob_next', ob_head'[p], ob_tail'[p], p, r)
  <2>1. \A j \in 1 .. Len(r) : ob_next'[r[j]] = NextOf(r, j, p)
    BY <1>11, <1>12 DEF Shorter, Along
  <2>2. CASE r = <<>>
    <3>1. i = 1 /\ i = Len(s)
      <4>1. Len(s) = 1
        BY <1>12, <2>2 DEF Shorter
      <4> QED BY <1>2, <4>1
    <3>2. ob_head'[p] = NIL /\ ob_tail'[p] = NIL
      BY <1>2, <1>4, <1>5, <1>7, <3>1 DEF LinkMaps
    <3> QED BY <2>1, <2>2, <3>2 DEF Strung
  <2>3. CASE r # <<>>
    <3>1. ~(i = 1 /\ i = Len(s))
      BY <1>12, <2>3 DEF Shorter
    <3>2. i = 1 => ob_next[o] = s[2]
      <4>1. ob_next[o] = NextOf(s, i, p)
        BY <1>1 DEF ChildOf
      <4> QED BY <3>1, <4>1 DEF NextOf
    <3>3. ob_head[p] = s[1] /\ ob_tail[p] = s[Len(s)]
      BY <1>1 DEF ChildOf
    <3>4. ob_head'[p] = r[1]
      <4>1. r[1] = IF i = 1 THEN s[2] ELSE s[1]
        BY <1>12, <2>3 DEF Shorter
      <4> QED BY <1>2, <1>5, <1>7, <3>1, <3>2, <3>3, <4>1 DEF LinkMaps
    <3>5. ob_tail'[p] = r[Len(r)]
      <4>1. r[Len(r)] = IF i = Len(s) THEN s[i - 1] ELSE s[Len(s)]
        BY <1>12, <2>3 DEF Shorter
      <4> QED BY <1>2, <1>4, <1>5, <1>7, <3>1, <3>3, <4>1 DEF LinkMaps
    <3> QED BY <2>1, <2>3, <3>4, <3>5 DEF Strung
  <2> QED BY <2>2, <2>3
<1>14. kids[p] = s /\ Forest!Parents(o) = {p}
  BY <1>1 DEF ChildOf
<1>15. \A x \in Objects : Listed(r, x) <=> x # o /\ Listed(s, x)
  BY <1>9, <1>12 DEF Shorter
<1>16. Relinked(ob_next, ob_head, ob_tail, kids, ob_next', ob_head', ob_tail', p, r)
  <2>1. \A x \in Objects : x # p => ob_head'[x] = ob_head[x] /\ ob_tail'[x] = ob_tail[x]
    BY <1>5, <1>7 DEF LinkMaps
  <2>2. \A x \in Objects : Listed(r, x) => Listed(kids[p], x)
    BY <1>14, <1>15
  <2>3. \A x \in Objects : ob_next'[x] # ob_next[x] => Listed(kids[p], x)
    <3>1. Listed(s, o)
      BY <1>2, <1>9 DEF Listed
    <3>2. i # 1 => Listed(s, s[i - 1])
      <4>1. i # 1 => i - 1 \in DOMAIN s
        BY <1>2
      <4> QED BY <4>1 DEF Listed
    <3> QED BY <1>9, <1>10, <1>14, <3>1, <3>2 DEF Passed
  <2>4. \A x \in Objects : Listed(kids[p], x) /\ ~Listed(r, x) => ob_next'[x] = NIL
    <3>1. \A x \in Objects : Listed(kids[p], x) /\ ~Listed(r, x) => x = o
      BY <1>14, <1>15
    <3>2. ob_next'[o] = NIL
      BY <1>5, <1>7 DEF LinkMaps
    <3> QED BY <3>1, <3>2
  <2> QED BY <1>8, <1>12, <1>13, <2>1, <2>2, <2>3, <2>4 DEF Relinked, Shorter
<1>17. kids' = [kids EXCEPT ![p] = r] /\ Tree(ob_next', ob_head', ob_tail', kids')
  <2>1. PICK g, u, l : g = ob_head' /\ u = ob_tail' /\ l = kids'
    OBVIOUS
  <2>2. l = Kids(m, g)
    BY <1>11, <2>1 DEF ObjcDelete
  <2>3. Relinked(ob_next, ob_head, ob_tail, kids, m, g, u, p, r)
    BY <1>11, <1>16, <2>1
  <2>4. l = [kids EXCEPT ![p] = r] /\ Tree(m, g, u, l)
    BY <1>2, <2>2, <2>3, RelinkedKids DEF Now
  <2> QED BY <1>11, <2>1, <2>4
<1>18. kids' = [kids EXCEPT ![p] = Forest!Without(@, o)]
  <2>1. r = Forest!Without(s, o)
    BY <1>11 DEF Without, Forest!Without
  <2> QED BY <1>14, <1>17, <2>1
<1> QED BY <1>14, <1>17, <1>18 DEF Now, Forest!Take

\* What gem_object_order has when the child number i of p is unhooked: the
\* links m go along r, the other children of p.
Left(m, p, o, r) ==
    /\ m \in LinkMaps /\ Row(r, p) /\ r # <<>> /\ Along(m, p, r)
    /\ \A x \in Objects : Listed(r, x) <=> x # o /\ Listed(kids[p], x)
    /\ \A x \in Objects : m[x] # ob_next[x] => Listed(kids[p], x)

LEMMA UnhookedIs ==
    ASSUME Now, NEW p, NEW o, NEW s, NEW i, ChildOf(p, o, s, i), Len(s) # 1,
           NEW r, r = Without(s, o)
    PROVE  /\ Left(Unhooked(p, o).next, p, o, r)
           /\ Unhooked(p, o).first = r[1] /\ Unhooked(p, o).last = r[Len(r)]
<1>1. PICK m : m = Unhooked(p, o).next
  OBVIOUS
<1>2. /\ Len(s) \in Nat /\ DOMAIN s = 1 .. Len(s)
      /\ \A j \in 1 .. Len(s) : s[j] \in Objects /\ s[j] # p
      /\ i \in 1 .. Len(s) /\ p \in Objects /\ s[i] = o /\ s = kids[p]
  BY RowIsShort DEF ChildOf
<1>3. ob_next \in LinkMaps
  BY DEF Now, Tree
<1>4. ob_next[o] = IF i = Len(s) THEN p ELSE s[i + 1]
  BY DEF ChildOf, NextOf
<1>5. o \in Objects /\ ob_next[o] \in Links
  BY <1>2, <1>3 DEF LinkMaps
<1>6. m = IF i = 1 THEN ob_next ELSE [ob_next EXCEPT ![s[i - 1]] = ob_next[o]]
  BY <1>1 DEF Unhooked, ChildOf
<1>7. i # 1 => s[i - 1] \in Objects /\ Listed(s, s[i - 1])
  <2>1. i # 1 => i - 1 \in 1 .. Len(s)
    BY <1>2
  <2> QED BY <1>2, <2>1 DEF Listed
<1>8. m \in LinkMaps
  BY <1>3, <1>5, <1>6, <1>7 DEF LinkMaps
<1>9. Passed(m, ob_next, s, i)
  <2>1. CASE i = 1
    BY <1>6, <2>1 DEF Passed
  <2>2. CASE i # 1
    BY <1>2, <1>3, <1>6, <1>7, <2>2 DEF Passed, LinkMaps
  <2> QED BY <2>1, <2>2
<1>10. Shorter(m, p, s, i, r)
  <2>1. Row(s, p) /\ Along(ob_next, p, s) /\ r = Without(s, s[i])
    BY <1>2 DEF ChildOf
  <2> QED BY <1>2, <1>9, <2>1, PassedAlong
<1>11. r # <<>> /\ r[1] = (IF i = 1 THEN s[2] ELSE s[1])
       /\ r[Len(r)] = IF i = Len(s) THEN s[i - 1] ELSE s[Len(s)]
  BY <1>10 DEF Shorter
<1>12. Unhooked(p, o).first = r[1]
  <2>1. Unhooked(p, o).first = IF i = 1 THEN ob_next[o] ELSE s[1]
    BY DEF Unhooked, ChildOf
  <2>2. i = 1 => ob_next[o] = s[2]
    BY <1>2, <1>4
  <2> QED BY <1>11, <2>1, <2>2
<1>13. Unhooked(p, o).last = r[Len(r)]
  <2>1. Unhooked(p, o).last = IF i = Len(s) THEN PreviousChild(p, o) ELSE s[Len(s)]
    BY DEF Unhooked, ChildOf
  <2>2. i = Len(s) => PreviousChild(p, o) = s[i - 1]
    BY <1>2 DEF ChildOf
  <2> QED BY <1>11, <2>1, <2>2
<1>14. \A x \in Objects : m[x] # ob_next[x] => Listed(s, x)
  BY <1>3, <1>6, <1>7 DEF LinkMaps
<1>15. Left(m, p, o, r)
  BY <1>2, <1>8, <1>10, <1>11, <1>14 DEF Left, Shorter
<1> QED BY <1>1, <1>12, <1>13, <1>15

\* The links m, g and u have the child o of p behind the first q of r.
HookedIn(m, g, u, n, p, o, r, q) ==
    /\ q \in 0 .. Len(r) /\ m \in LinkMaps /\ Hooked(m, n, p, r, q, o)
    /\ g = [ob_head EXCEPT ![p] = IF q = 0 THEN o ELSE r[1]]
    /\ u = [ob_tail EXCEPT ![p] = IF q = Len(r) THEN o ELSE r[Len(r)]]

\* They make the list that the forest has.
LEMMA HookedSteps ==
    ASSUME Now, NEW p \in Objects, NEW o \in Objects, o # p, o # ROOT, Listed(kids[p], o),
           NEW n, NEW r, Left(n, p, o, r), NEW q, NEW m, NEW g, NEW u,
           HookedIn(m, g, u, n, p, o, r, q), NEW s, Inserted(s, r, q, o)
    PROVE  Kids(m, g) = [kids EXCEPT ![p] = s] /\ Tree(m, g, u, [kids EXCEPT ![p] = s])
<1>0. /\ q \in 0 .. Len(r) /\ m \in LinkMaps /\ Hooked(m, n, p, r, q, o)
      /\ g = [ob_head EXCEPT ![p] = IF q = 0 THEN o ELSE r[1]]
      /\ u = [ob_tail EXCEPT ![p] = IF q = Len(r) THEN o ELSE r[Len(r)]]
  BY DEF HookedIn
<1>1. /\ ob_next \in LinkMaps /\ ob_head \in LinkMaps /\ ob_tail \in LinkMaps
  BY DEF Now, Tree
<1>2. /\ Row(r, p) /\ r # <<>> /\ Along(n, p, r) /\ n \in LinkMaps
      /\ \A x \in Objects : Listed(r, x) <=> x # o /\ Listed(kids[p], x)
      /\ \A x \in Objects : n[x] # ob_next[x] => Listed(kids[p], x)
  BY DEF Left
<1>3. Len(r) \in Nat /\ DOMAIN r = 1 .. Len(r) /\ Len(r) # 0
      /\ \A i \in 1 .. Len(r) : r[i] \in Objects
  <2>1. r \in Seq(Objects)
    BY <1>2 DEF Row
  <2> QED BY <1>2, <2>1, RowIsShort, EmptySeq
<1>4. 1 \in 1 .. Len(r) /\ Len(r) \in 1 .. Len(r) /\ (q # 0 => q \in 1 .. Len(r))
  <2>1. q \in 0 .. Len(r)
    BY <1>0
  <2> QED BY <1>3, <2>1
<1>5. g \in LinkMaps /\ u \in LinkMaps
  <2>1. r[1] \in Links /\ r[Len(r)] \in Links /\ o \in Links
    BY <1>3, <1>4 DEF Links
  <2> QED BY <1>0, <1>1, <2>1 DEF LinkMaps
<1>6. Row(s, p) /\ s # <<>> /\ \A x : Listed(s, x) <=> x = o \/ Listed(r, x)
  BY <1>0, <1>2, InsertedRow
<1>7. /\ Along(m, p, s)
      /\ s[1] = IF q = 0 THEN o ELSE r[1]
      /\ s[Len(s)] = IF q = Len(r) THEN o ELSE r[Len(r)]
  BY <1>0, <1>2, HookedAlong
<1>8. Strung(m, g[p], u[p], p, s)
  <2>1. g[p] = s[1] /\ u[p] = s[Len(s)]
    BY <1>0, <1>1, <1>7 DEF LinkMaps
  <2> QED BY <1>6, <1>7, <2>1 DEF Strung, Along
<1>9. \A x \in Objects : x # p => g[x] = ob_head[x] /\ u[x] = ob_tail[x]
  BY <1>0, <1>1 DEF LinkMaps
<1>10. \A x \in Objects : Listed(s, x) <=> Listed(kids[p], x)
  BY <1>2, <1>6
<1>11. \A x \in Objects : m[x] # ob_next[x] => Listed(kids[p], x)
  <2>1. q # 0 => Listed(r, r[q])
    BY <1>3, <1>4 DEF Listed
  <2>2. q # 0 => Listed(kids[p], r[q])
    BY <1>2, <1>3, <1>4, <2>1
  <2> QED BY <1>0, <1>2, <2>2 DEF Hooked
<1>12. Relinked(ob_next, ob_head, ob_tail, kids, m, g, u, p, s)
  BY <1>0, <1>5, <1>6, <1>8, <1>9, <1>10, <1>11 DEF Relinked
<1>13. Tree(ob_next, ob_head, ob_tail, kids)
  BY DEF Now
<1>14. Tree(m, g, u, [kids EXCEPT ![p] = s])
  BY <1>12, <1>13, RelinkedTree
<1>15. Kids(m, g) = [kids EXCEPT ![p] = s]
  BY <1>14, KidsAre
<1> QED BY <1>14, <1>15

\* Behind which of the others gem_object_order puts the child.
PlaceIn(r, position) == IF position = NIL THEN Len(r) ELSE position

\* The links it makes.
LEMMA OrderHooks ==
    ASSUME Now, NEW o \in Objects, NEW position \in -1 .. Count - 1,
           NEW p, NEW s, NEW i, ChildOf(p, o, s, i), Len(s) # 1, CanOrder(o, position),
           Order(o, position), NEW r, r = Without(s, o), NEW q, q = PlaceIn(r, position)
    PROVE  HookedIn(ob_next', ob_head', ob_tail', Unhooked(p, o).next, p, o, r, q)
<1>1. PICK n, first, last : n = Unhooked(p, o).next /\ first = Unhooked(p, o).first
                            /\ last = Unhooked(p, o).last
  OBVIOUS
<1>2. Left(n, p, o, r) /\ first = r[1] /\ last = r[Len(r)]
  BY <1>1, UnhookedIs
<1>3. /\ Row(r, p) /\ r # <<>> /\ Along(n, p, r) /\ n \in LinkMaps
      /\ ~Listed(r, o)
  BY <1>2 DEF Left
<1>4. Len(r) \in Nat /\ DOMAIN r = 1 .. Len(r) /\ Len(r) # 0
      /\ \A j \in 1 .. Len(r) : r[j] \in Objects /\ r[j] # p
  <2>1. r \in Seq(Objects)
    BY <1>3 DEF Row
  <2> QED BY <1>3, <2>1, RowIsShort, EmptySeq
<1>5. 1 \in 1 .. Len(r) /\ Len(r) \in 1 .. Len(r)
  BY <1>4
<1>6. /\ Parent(o) = p /\ Children(p) = Len(s) /\ p \in Objects
      /\ s \in Seq(Objects) /\ i \in 1 .. Len(s)
  BY DEF ChildOf, Row
<1>7. Len(r) = Len(s) - 1
  <2>1. s[i] = o /\ NoRepeats(s)
    BY DEF ChildOf, Row
  <2>2. \A j, k \in 1 .. Len(s) : s[j] = s[k] => j = k
    BY <1>6, <2>1, LenProperties DEF NoRepeats
  <2> QED BY <1>6, <2>1, <2>2, WithoutAt
<1>8. Len(s) \in Nat /\ (position # NIL => position \in 0 .. Len(r))
  BY <1>6, <1>7, LenProperties DEF CanOrder, NIL
<1>9. q \in 0 .. Len(r)
  BY <1>4, <1>8 DEF PlaceIn
<1>10. o # p /\ \A j \in 1 .. Len(r) : r[j] # o
  <2>1. s[i] = o /\ ~Listed(s, p) /\ DOMAIN s = 1 .. Len(s)
    BY RowIsShort DEF ChildOf, Row
  <2> QED BY <1>3, <1>4, <1>6, <2>1 DEF Listed
<1>11. CASE position = 0
  <2>1. /\ ob_next' = [n EXCEPT ![o] = first]
        /\ ob_head' = [ob_head EXCEPT ![p] = o]
        /\ ob_tail' = [ob_tail EXCEPT ![p] = last]
    BY <1>1, <1>6, <1>11 DEF Order, OrderToFront
  <2>2. q = 0
    BY <1>11 DEF PlaceIn, NIL
  <2>3. ob_next' \in LinkMaps
    BY <1>2, <1>3, <1>4, <1>5, <2>1 DEF LinkMaps, Links
  <2>4. Hooked(ob_next', n, p, r, q, o)
    BY <1>2, <1>3, <1>4, <2>1, <2>2 DEF Hooked, LinkMaps
  <2> QED BY <1>1, <1>2, <1>4, <1>9, <2>1, <2>2, <2>3, <2>4 DEF HookedIn
<1>12. CASE position # 0
  <2>1. PICK met, place : met = Met(n, first)
                          /\ place = IF position = NIL THEN last ELSE met[position - 1]
    OBVIOUS
  <2>2. /\ ob_next' = [n EXCEPT ![o] = n[place], ![place] = o]
        /\ ob_head' = [ob_head EXCEPT ![p] = first]
        /\ ob_tail' = [ob_tail EXCEPT ![p] = IF n[place] = p THEN o ELSE last]
    BY <1>1, <1>6, <1>12, <2>1 DEF Order, OrderBehind
  <2>3. q \in 1 .. Len(r)
    BY <1>4, <1>8, <1>12 DEF PlaceIn
  <2>4. place = r[q]
    <3>1. CASE position = NIL
      BY <1>2, <2>1, <3>1 DEF PlaceIn
    <3>2. CASE position # NIL
      <4>1. MeetsFrom(met, r, 1, p)
        BY <1>2, <1>3, <1>5, <2>1, WalkAlong
      <4>2. q = position /\ q - 1 \in 0 .. Len(r) - 1 /\ 1 + (q - 1) = q
        BY <1>4, <2>3, <3>2 DEF PlaceIn
      <4>3. met[q - 1] = r[1 + (q - 1)]
        BY <4>1, <4>2 DEF MeetsFrom
      <4> QED BY <2>1, <3>2, <4>2, <4>3
    <3> QED BY <3>1, <3>2
  <2>5. place \in Objects /\ place # o /\ n[place] = IF q = Len(r) THEN p ELSE r[q + 1]
    BY <1>3, <1>4, <1>10, <2>3, <2>4 DEF Along, NextOf
  <2>6. n[place] = p <=> q = Len(r)
    <3>1. q # Len(r) => q + 1 \in 1 .. Len(r)
      BY <1>4, <2>3
    <3> QED BY <1>4, <2>5, <3>1
  <2>7. ob_next' \in LinkMaps
    BY <1>3, <2>2, <2>5 DEF LinkMaps, Links
  <2>8. Hooked(ob_next', n, p, r, q, o)
    <3>1. PICK m : m = ob_next'
      OBVIOUS
    <3>2. m = [n EXCEPT ![o] = n[place], ![place] = o] /\ DOMAIN n = Objects
      BY <1>3, <2>2, <3>1 DEF LinkMaps
    <3>3. m[o] = n[place] /\ m[place] = o
      BY <2>5, <3>2
    <3>4. \A x \in Objects : x # o /\ x # place => m[x] = n[x]
      BY <3>2
    <3>5. Hooked(m, n, p, r, q, o)
      BY <2>3, <2>4, <2>5, <3>3, <3>4 DEF Hooked
    <3> QED BY <3>1, <3>5
  <2>9. q # 0
    BY <2>3
  <2> QED BY <1>1, <1>2, <1>9, <2>2, <2>6, <2>7, <2>8, <2>9 DEF HookedIn
<1> QED BY <1>11, <1>12

\* OBJC_ORDER
LEMMA OrderSteps ==
    ASSUME Now, NEW o \in Objects, NEW position \in -1 .. Count - 1, ObjcOrder(o, position)
    PROVE  /\ Now'
           /\ \/ kids' = kids
              \/ \E place \in 0 .. Cardinality(Objects) : Forest!Move(o, place)
              \/ Forest!MoveToEnd(o)
<1>1. PICK p, s, i : ChildOf(p, o, s, i)
  BY ChildIs DEF ObjcOrder, CanOrder
<1>2. /\ Row(s, p) /\ p \in Objects /\ s = kids[p] /\ i \in 1 .. Len(s) /\ s[i] = o
      /\ Parent(o) = p /\ Children(p) = Len(s) /\ Forest!Parents(o) = {p}
  BY <1>1 DEF ChildOf
<1>3. CanOrder(o, position) /\ Order(o, position) /\ kids' = Kids(ob_next', ob_head')
  BY DEF ObjcOrder
<1>4. CASE Len(s) = 1
  <2>1. ob_next' = [ob_next EXCEPT ![o] = p] /\ ob_head' = ob_head /\ ob_tail' = ob_tail
    BY <1>2, <1>3, <1>4 DEF Order, OrderAlone
  <2>2. ob_next[o] = p
    BY <1>1, <1>4 DEF ChildOf, NextOf
  <2>3. ob_next' = ob_next
    BY <2>1, <2>2 DEF Now, Tree, LinkMaps
  <2>4. kids' = Kids(ob_next, ob_head)
    BY <1>3, <2>1, <2>3
  <2>5. Kids(ob_next, ob_head) = kids
    BY KidsAre DEF Now
  <2>6. kids' = kids
    BY <2>4, <2>5
  <2> QED BY <2>1, <2>3, <2>6 DEF Now
<1>5. CASE Len(s) # 1
  <2>1. PICK r, q : r = Without(s, o) /\ q = PlaceIn(r, position)
    OBVIOUS
  <2>2. PICK n, m, g, u, l : n = Unhooked(p, o).next /\ m = ob_next' /\ g = ob_head'
                             /\ u = ob_tail' /\ l = kids'
    OBVIOUS
  <2>3. Left(n, p, o, r)
    BY <1>1, <1>5, <2>1, <2>2, UnhookedIs
  <2>4. HookedIn(m, g, u, n, p, o, r, q)
    BY <1>1, <1>3, <1>5, <2>1, <2>2, OrderHooks
  <2>5. o # p /\ o # ROOT /\ Listed(kids[p], o) /\ DOMAIN s = 1 .. Len(s)
    BY <1>2, RowIsShort DEF Row, Listed
  <2>6. l = Kids(m, g)
    BY <1>3, <2>2
  <2>7. ASSUME NEW z, Inserted(z, r, q, o)
        PROVE  l = [kids EXCEPT ![p] = z] /\ Tree(m, g, u, l)
    <3>1. Kids(m, g) = [kids EXCEPT ![p] = z] /\ Tree(m, g, u, [kids EXCEPT ![p] = z])
      BY <1>2, <2>3, <2>4, <2>5, <2>7, HookedSteps
    <3> QED BY <2>6, <3>1
  <2>8. r \in Seq(Objects)
    BY <2>3 DEF Left, Row
  <2>9. r = Forest!Without(kids[p], o)
    BY <1>2, <2>1 DEF Without, Forest!Without
  <2>10. CASE position = NIL
    <3>1. q = Len(r)
      BY <2>1, <2>10 DEF PlaceIn
    <3>2. PICK z : z = Append(r, o)
      OBVIOUS
    <3>3. Inserted(z, r, q, o)
      BY <2>8, <3>1, <3>2, AppendIs
    <3>4. l = [kids EXCEPT ![p] = z] /\ Tree(m, g, u, l)
      BY <2>7, <3>3
    <3>5. kids' = [kids EXCEPT ![p] = Append(Forest!Without(@, o), o)]
      BY <2>2, <2>9, <3>2, <3>4
    <3> QED BY <1>2, <2>2, <3>4, <3>5 DEF Now, Forest!MoveToEnd
  <2>11. CASE position # NIL
    <3>1. q = position
      BY <2>1, <2>11 DEF PlaceIn
    <3>2. PICK z : z = InsertAt(r, q + 1, o)
      OBVIOUS
    <3>3. Inserted(z, r, q, o)
      BY <2>4, <2>8, <3>2, InsertAtIs DEF HookedIn
    <3>4. l = [kids EXCEPT ![p] = z] /\ Tree(m, g, u, l)
      BY <2>7, <3>3
    <3>5. kids' = [kids EXCEPT ![p] = Forest!InsertAt(Forest!Without(@, o), position + 1, o)]
      <4>1. z = Forest!InsertAt(r, position + 1, o)
        BY <3>1, <3>2 DEF InsertAt, Forest!InsertAt
      <4> QED BY <2>2, <2>9, <3>4, <4>1
    <3>6. position < Len(kids[p])
      BY <1>2, <1>3, <2>11 DEF CanOrder
    <3>7. position \in 0 .. Cardinality(Objects)
      <4>1. Cardinality(Objects) = Count
        <5>1. Count - 1 >= 0 /\ Count \in Nat
          BY BuiltAssumption
        <5> QED BY <5>1, FS_Interval DEF Objects
      <4> QED BY <2>11, <4>1, BuiltAssumption DEF NIL
    <3>8. Forest!Move(o, position)
      BY <1>2, <3>5, <3>6 DEF Forest!Move
    <3> QED BY <2>2, <3>4, <3>7, <3>8 DEF Now
  <2> QED BY <2>10, <2>11
<1> QED BY <1>4, <1>5

\* The tree that the client built.
LEMMA BuiltTree ==
    ObjectInit => Now
<1> SUFFICES ASSUME ObjectInit PROVE Now
  OBVIOUS
<1>1. /\ FirstKids \in [Objects -> Seq(Objects \ {ROOT})]
      /\ \A p \in Objects : NoRepeats(FirstKids[p]) /\ ~Listed(FirstKids[p], p)
      /\ \A p, q, o \in Objects :
            Listed(FirstKids[p], o) /\ Listed(FirstKids[q], o) => p = q
  BY BuiltAssumption
<1>2. ASSUME NEW p \in Objects
      PROVE  /\ FirstKids[p] \in Seq(Objects) /\ Len(FirstKids[p]) \in Nat
             /\ DOMAIN FirstKids[p] = 1 .. Len(FirstKids[p])
             /\ \A i \in 1 .. Len(FirstKids[p]) :
                   FirstKids[p][i] \in Objects /\ FirstKids[p][i] # ROOT
             /\ FirstKids[p] = <<>> <=> Len(FirstKids[p]) = 0
  <2>1. FirstKids[p] \in Seq(Objects \ {ROOT})
    BY <1>1
  <2>2. PICK s \in Seq(Objects \ {ROOT}) : s = FirstKids[p]
    BY <2>1
  <2>3. Len(s) \in Nat /\ DOMAIN s = 1 .. Len(s) /\ \A i \in 1 .. Len(s) : s[i] \in Objects \ {ROOT}
    BY LenProperties
  <2>4. s \in Seq(Objects)
    BY <2>3
  <2>5. s = <<>> <=> Len(s) = 0
    BY EmptySeq
  <2> QED BY <2>2, <2>3, <2>4, <2>5
<1>3. \A p \in Objects : Row(FirstKids[p], p)
  <2> TAKE p \in Objects
  <2>1. ~Listed(FirstKids[p], ROOT)
    BY <1>2 DEF Listed
  <2> QED BY <1>1, <1>2, <2>1 DEF Row
<1> DEFINE Home(o) == CHOOSE q \in Objects : Listed(FirstKids[q], o)
           Number(o) == CHOOSE j \in DOMAIN FirstKids[Home(o)] : FirstKids[Home(o)][j] = o
<1>4. ob_next = [o \in Objects |->
                   IF \E p \in Objects : Listed(FirstKids[p], o)
                   THEN NextOf(FirstKids[Home(o)], Number(o), Home(o))
                   ELSE NIL]
  BY DEF ObjectInit, NextOf
<1>5. ASSUME NEW p \in Objects, NEW i \in 1 .. Len(FirstKids[p]), NEW o, o = FirstKids[p][i]
      PROVE  o \in Objects /\ Listed(FirstKids[p], o) /\ Home(o) = p /\ Number(o) = i
  <2>1. o \in Objects /\ Listed(FirstKids[p], o)
    BY <1>2, <1>5 DEF Listed
  <2>2. Home(o) = p
    BY <1>1, <2>1
  <2>3. Number(o) = CHOOSE j \in DOMAIN FirstKids[p] : FirstKids[p][j] = o
    BY <2>2
  <2>4. i \in DOMAIN FirstKids[p] /\ \A j \in DOMAIN FirstKids[p] : FirstKids[p][j] = o => j = i
    BY <1>1, <1>2, <1>5 DEF NoRepeats
  <2> HIDE DEF Number
  <2>5. Number(o) = i
    BY <1>5, <2>3, <2>4
  <2> QED BY <2>1, <2>2, <2>5
<1> HIDE DEF Home, Number
<1>6. ASSUME NEW p \in Objects, NEW i \in 1 .. Len(FirstKids[p])
      PROVE  ob_next[FirstKids[p][i]] = NextOf(FirstKids[p], i, p)
  BY <1>4, <1>5
<1>7. \A o \in Objects : (\A p \in Objects : ~Listed(FirstKids[p], o)) => ob_next[o] = NIL
  BY <1>4
<1>8. ob_next \in LinkMaps
  <2>1. ASSUME NEW o \in Objects PROVE ob_next[o] \in Links
    <3>1. CASE \E p \in Objects : Listed(FirstKids[p], o)
      <4>0. PICK p \in Objects : Listed(FirstKids[p], o)
        BY <3>1
      <4>1. PICK i \in 1 .. Len(FirstKids[p]) : FirstKids[p][i] = o
        BY <1>2, <4>0 DEF Listed
      <4>2. ob_next[o] = NextOf(FirstKids[p], i, p)
        BY <1>6, <4>1
      <4>3. i # Len(FirstKids[p]) => i + 1 \in 1 .. Len(FirstKids[p])
        BY <1>2
      <4> QED BY <1>2, <4>2, <4>3 DEF NextOf, Links
    <3>2. CASE ~\E p \in Objects : Listed(FirstKids[p], o)
      BY <1>7, <3>2 DEF Links
    <3> QED BY <3>1, <3>2
  <2>2. DOMAIN ob_next = Objects /\ ob_next = [o \in Objects |-> ob_next[o]]
    BY <1>4
  <2> QED BY <2>1, <2>2 DEF LinkMaps
<1>9. \A p \in Objects : FirstKids[p] # <<>> =>
          FirstKids[p][1] \in Links /\ FirstKids[p][Len(FirstKids[p])] \in Links
  <2> TAKE p \in Objects
  <2>1. FirstKids[p] # <<>> => 1 \in 1 .. Len(FirstKids[p]) /\ Len(FirstKids[p]) \in 1 .. Len(FirstKids[p])
    BY <1>2
  <2> QED BY <1>2, <2>1 DEF Links
<1>10. ob_head \in LinkMaps /\ ob_tail \in LinkMaps
  BY <1>9 DEF ObjectInit, LinkMaps, Links
<1>11. \A p \in Objects : Strung(ob_next, ob_head[p], ob_tail[p], p, FirstKids[p])
  <2> TAKE p \in Objects
  <2>1. /\ FirstKids[p] = <<>> => ob_head[p] = NIL /\ ob_tail[p] = NIL
        /\ FirstKids[p] # <<>> => ob_head[p] = FirstKids[p][1]
                                  /\ ob_tail[p] = FirstKids[p][Len(FirstKids[p])]
    BY DEF ObjectInit
  <2> QED BY <1>6, <2>1 DEF Strung
<1>12. FirstKids \in [Objects -> Seq(Objects)]
  BY <1>1, <1>2
<1>13. kids = FirstKids
  BY DEF ObjectInit
<1> QED BY <1>1, <1>3, <1>7, <1>8, <1>10, <1>11, <1>12, <1>13 DEF Now, Tree

----------------------------------------------------------------------------
(* The states on the screen, and the theorems *)

\* What the screen shows can be trusted.
Faces == state \in [Objects -> SUBSET Bits] /\ FacesShowStates

\* Every call keeps it, OBJC_CHANGE because an inversion takes the state
\* that was shown to the one that was stored.
LEMMA FacesStay ==
    ASSUME Faces, [ObjectNext]_objectVars
    PROVE  Faces'
<1>1. ASSUME NEW f, \A x \in Objects : f[x] \in {Unknown, face[x], state[x]},
             face' = f, state' = state
      PROVE  Faces'
  BY <1>1 DEF Faces, FacesShowStates
<1>2. ASSUME face' = [x \in Objects |-> Unknown], UNCHANGED state
      PROVE  Faces'
  BY <1>1, <1>2
<1>3. CASE \E p, o \in Objects : ObjcAdd(p, o)
  BY <1>2, <1>3 DEF ObjcAdd
<1>4. CASE \E o \in Objects : ObjcDelete(o)
  BY <1>2, <1>4 DEF ObjcDelete
<1>5. CASE \E o \in Objects, position \in -1 .. Count - 1 : ObjcOrder(o, position)
  BY <1>2, <1>5 DEF ObjcOrder
<1>6. CASE \E o \in Objects, depth \in Depths : ObjcDraw(o, depth)
  <2>1. PICK o \in Objects, depth \in Depths : ObjcDraw(o, depth)
    BY <1>6
  <2>2. PICK drawn, below : face' = [x \in Objects |->
                      IF x \in drawn THEN state[x]
                      ELSE IF drawn # {} /\ x \in below THEN Unknown
                      ELSE face[x]]
    BY <2>1 DEF ObjcDraw
  <2>3. state' = state
    BY <2>1 DEF ObjcDraw
  <2> QED BY <1>1, <2>2, <2>3
<1>7. CASE \E o \in Changeable, new \in SUBSET Bits, redraw \in BOOLEAN :
              ObjcChange(o, new, redraw)
  <2>1. PICK o \in Changeable, new \in SUBSET Bits, redraw \in BOOLEAN :
              ObjcChange(o, new, redraw)
    BY <1>7
  <2>2. state' = [state EXCEPT ![o] = new]
    BY <2>1 DEF ObjcChange
  <2>3. \A x \in Objects : x # o => face'[x] \in {Unknown, face[x]}
    BY <2>1 DEF ObjcChange
  <2>4. ASSUME o \in Objects
        PROVE  \/ face'[o] \in {Unknown, new}
               \/ /\ SymDiff(state[o], new) = {"SELECTED"} /\ face[o] # Unknown
                  /\ face'[o] = SymDiff(face[o], {"SELECTED"})
    BY <2>1, <2>4 DEF ObjcChange, Inverts
  <2>5. ASSUME o \in Objects, SymDiff(state[o], new) = {"SELECTED"}, face[o] # Unknown
        PROVE  SymDiff(face[o], {"SELECTED"}) = new
    <3>1. face[o] = state[o]
      BY <2>5 DEF Faces, FacesShowStates
    <3>2. \A b : b \in SymDiff(state[o], new) <=> ~(b \in state[o] <=> b \in new)
      BY DEF SymDiff
    <3>3. \A b : b \in SymDiff(state[o], {"SELECTED"}) <=> ~(b \in state[o] <=> b \in {"SELECTED"})
      BY DEF SymDiff
    <3> QED BY <2>5, <3>1, <3>2, <3>3
  <2>6. ASSUME NEW x \in Objects, face'[x] # Unknown PROVE face'[x] = state'[x]
    <3>1. CASE x = o
      BY <2>2, <2>4, <2>5, <2>6, <3>1 DEF Faces
    <3>2. CASE x # o
      BY <2>2, <2>3, <2>6, <3>2 DEF Faces, FacesShowStates
    <3> QED BY <3>1, <3>2
  <2> QED BY <2>2, <2>6 DEF Faces, FacesShowStates
<1>8. CASE UNCHANGED objectVars
  BY <1>8 DEF objectVars, Faces, FacesShowStates
<1> QED BY <1>3, <1>4, <1>5, <1>6, <1>7, <1>8 DEF ObjectNext

\* A step keeps the links those of a forest, and is one of the forest's.
LEMMA TreeSteps ==
    ASSUME Now, [ObjectNext]_objectVars
    PROVE  Now' /\ [Forest!Next]_kids
<1>1. CASE \E p, o \in Objects : ObjcAdd(p, o)
  BY <1>1, AddSteps DEF Forest!Next
<1>2. CASE \E o \in Objects : ObjcDelete(o)
  BY <1>2, DeleteSteps DEF Forest!Next
<1>3. CASE \E o \in Objects, position \in -1 .. Count - 1 : ObjcOrder(o, position)
  <2>1. PICK o \in Objects, position \in -1 .. Count - 1 : ObjcOrder(o, position)
    BY <1>3
  <2>2. /\ Now'
        /\ \/ kids' = kids
           \/ \E place \in 0 .. Cardinality(Objects) : Forest!Move(o, place)
           \/ Forest!MoveToEnd(o)
    BY <2>1, OrderSteps
  <2>3. Cardinality(Objects) = Forest!Cardinality(Objects)
    BY DEF Cardinality, Forest!Cardinality
  <2> QED BY <2>2, <2>3 DEF Forest!Next
<1>4. CASE UNCHANGED links
  BY <1>4 DEF links, Now
<1>5. CASE \E o \in Objects, depth \in Depths : ObjcDraw(o, depth)
  BY <1>4, <1>5 DEF ObjcDraw
<1>6. CASE \E o \in Changeable, new \in SUBSET Bits, redraw \in BOOLEAN :
              ObjcChange(o, new, redraw)
  BY <1>4, <1>6 DEF ObjcChange
<1>7. CASE UNCHANGED objectVars
  BY <1>4, <1>7 DEF objectVars, links
<1> QED BY <1>1, <1>2, <1>3, <1>5, <1>6, <1>7 DEF ObjectNext

\* The links are always those of the lists of children.
THEOREM TreesInvariance == ObjectSpec => [](Now /\ Faces)
<1>1. ObjectInit => Now /\ Faces
  BY BuiltTree DEF ObjectInit, Faces, FacesShowStates
<1>2. Now /\ Faces /\ [ObjectNext]_objectVars => (Now /\ Faces)'
  BY TreeSteps, FacesStay
<1> QED BY <1>1, <1>2, PTL DEF ObjectSpec

\* gem_object_add_child, gem_object_delete, gem_object_order: however many
\* objects there are and however the client built its tree, whatever the
\* calls relink is again a forest, and relinked the way its lists should be.
THEOREM TreesImplementForest == ObjectSpec => ImplementsForest
<1>1. ObjectInit => Forest!Init
  BY DEF ObjectInit, Forest!Init
<1>2. Now /\ [ObjectNext]_objectVars => [Forest!Next]_kids
  BY TreeSteps
<1> QED BY <1>1, <1>2, TreesInvariance, PTL DEF ObjectSpec, ImplementsForest, Forest!Spec

\* gem_object_parent, gem_object_children, gem_object_previous and
\* OBJC_CHANGE: in no tree that the calls can make is a call refused that
\* could be done, and the screen never shows a state that is not stored.
THEOREM TreesCanBeChanged == ObjectSpec => [](RefusedOnlyInVain /\ FacesShowStates)
<1>1. Now /\ Faces => RefusedOnlyInVain /\ FacesShowStates
  BY NothingIsRefused DEF Faces
<1> QED BY <1>1, TreesInvariance, PTL

----------------------------------------------------------------------------
(* The mouse's bytes *)

Bytes == [place : 0 .. 2, turn : {0, 1}, left : BOOLEAN, move : Int]

\* One byte follows another, or one between them was lost.
Follows(a, b) ==
    IF a.place = 2 THEN b.place = 0 ELSE b.place = a.place + 1 /\ b.turn = a.turn

Skips(a, b) ==
    \/ a.place = 2 /\ b.place = 1
    \/ a.place = 0 /\ b.place = 2
    \/ a.place = 1 /\ b.place = 0

Odd(s, j) == ~Follows(s[j], s[j + 1])

\* In the stream s at most one byte is missing, and none if none was lost.
Heals(s, l) ==
    /\ s \in Seq(Bytes)
    /\ \A j \in 1 .. Len(s) - 1 : Odd(s, j) => Skips(s[j], s[j + 1]) /\ l > 0
    /\ \A j, k \in 1 .. Len(s) - 1 : Odd(s, j) /\ Odd(s, k) => j = k
    /\ Len(s) # 0 => s[Len(s)].place \in {1, 2}
    /\ Len(s) # 0 /\ s[Len(s)].place = 1 =>
          l > 0 /\ \A j \in 1 .. Len(s) - 1 : ~Odd(s, j)

\* t is s without its first k elements.
Behind(s, k, t) ==
    /\ Len(t) = Len(s) - k
    /\ \A j \in 1 .. Len(t) : t[j] = s[k + j]

\* What is true of a stream is true of what is behind its first bytes.
LEMMA BehindHeals ==
    ASSUME NEW s, NEW l, Heals(s, l), NEW k \in Nat, NEW t \in Seq(Bytes), Behind(s, k, t)
    PROVE  Heals(t, l)
<1>1. Len(s) \in Nat /\ Len(t) \in Nat /\ Len(t) = Len(s) - k
  BY LenProperties DEF Heals, Behind
<1>2. \A j \in 1 .. Len(t) : t[j] = s[k + j]
  BY DEF Behind
<1>3. ASSUME NEW j \in 1 .. Len(t) - 1
      PROVE  /\ k + j \in 1 .. Len(s) - 1
             /\ t[j] = s[k + j] /\ t[j + 1] = s[(k + j) + 1]
  <2>1. j \in 1 .. Len(t) /\ j + 1 \in 1 .. Len(t) /\ k + (j + 1) = (k + j) + 1
    BY <1>1
  <2>2. t[j + 1] = s[k + (j + 1)]
    BY <1>2, <2>1
  <2> QED BY <1>1, <1>2, <2>1, <2>2
<1>4. \A j \in 1 .. Len(t) - 1 : Odd(t, j) <=> Odd(s, k + j)
  BY <1>3 DEF Odd
<1>5. \A j \in 1 .. Len(t) - 1 : Odd(t, j) => Skips(t[j], t[j + 1]) /\ l > 0
  BY <1>3, <1>4 DEF Heals
<1>6. ASSUME NEW i \in 1 .. Len(t) - 1, NEW j \in 1 .. Len(t) - 1, Odd(t, i), Odd(t, j)
      PROVE  i = j
  <2>1. k + i = k + j
    BY <1>3, <1>4, <1>6 DEF Heals
  <2> QED BY <2>1
<1>7. Len(t) # 0 => Len(s) # 0 /\ t[Len(t)] = s[Len(s)]
  <2>1. Len(t) # 0 => Len(t) \in 1 .. Len(t) /\ k + Len(t) = Len(s) /\ Len(s) # 0
    BY <1>1
  <2> QED BY <1>2, <2>1
<1>8. Len(t) # 0 => t[Len(t)].place \in {1, 2}
  BY <1>7 DEF Heals
<1>9. Len(t) # 0 /\ t[Len(t)].place = 1 => l > 0 /\ \A j \in 1 .. Len(t) - 1 : ~Odd(t, j)
  BY <1>3, <1>4, <1>7 DEF Heals
<1> QED BY <1>5, <1>6, <1>8, <1>9 DEF Heals

\* The places of the bytes of a packet of which one is dropped.
Places(drop) ==
    CASE drop = 0 -> <<0, 1, 2>>
      [] drop = 1 -> <<1, 2>>
      [] drop = 2 -> <<0, 2>>
      [] drop = 3 -> <<0, 1>>

\* t is such a packet.
Sent(t, drop) ==
    /\ t \in Seq(Bytes)
    /\ Len(t) = IF drop = 0 THEN 3 ELSE 2
    /\ \A j \in 1 .. Len(t) : t[j].place = Places(drop)[j]
    /\ \A j \in 1 .. Len(t) : t[j].turn = t[1].turn

\* u is s and then t.
Then(s, t, u) ==
    /\ Len(u) = Len(s) + Len(t)
    /\ \A j \in 1 .. Len(s) : u[j] = s[j]
    /\ \A j \in 1 .. Len(t) : u[Len(s) + j] = t[j]

\* A packet behind a stream, the first with a byte lost or one that is whole.
LEMMA SentHeals ==
    ASSUME NEW s, NEW l \in {0, 1}, Heals(s, l), NEW drop \in 0 .. 3, drop > 0 => l = 0,
           NEW t, Sent(t, drop), NEW u \in Seq(Bytes), Then(s, t, u),
           NEW k, k = IF drop > 0 THEN l + 1 ELSE l
    PROVE  Heals(u, k)
<1>1. PICK n \in Nat : n = Len(s)
  BY LenProperties DEF Heals
<1>2. /\ \A j \in 1 .. n : u[j] = s[j]
      /\ Len(u) = n + IF drop = 0 THEN 3 ELSE 2
      /\ u[n + 1] = t[1] /\ u[n + 2] = t[2] /\ (drop = 0 => u[n + 3] = t[3])
  <2>1. 1 \in 1 .. Len(t) /\ 2 \in 1 .. Len(t) /\ (drop = 0 => 3 \in 1 .. Len(t))
    BY DEF Sent
  <2> QED BY <1>1, <2>1 DEF Then, Sent
<1>3. /\ t[1].place = Places(drop)[1] /\ t[2].place = Places(drop)[2] /\ t[2].turn = t[1].turn
      /\ drop = 0 => t[3].place = 2 /\ t[3].turn = t[1].turn
  <2>1. 1 \in 1 .. Len(t) /\ 2 \in 1 .. Len(t) /\ (drop = 0 => 3 \in 1 .. Len(t))
    BY DEF Sent
  <2>2. drop = 0 => Places(drop)[3] = 2
    BY DEF Places
  <2> QED BY <2>1, <2>2 DEF Sent
<1>4. /\ drop = 0 => t[1].place = 0 /\ t[2].place = 1
      /\ drop = 1 => t[1].place = 1 /\ t[2].place = 2
      /\ drop = 2 => t[1].place = 0 /\ t[2].place = 2
      /\ drop = 3 => t[1].place = 0 /\ t[2].place = 1
  BY <1>3 DEF Places
<1>5. \A j \in 1 .. n - 1 : Odd(u, j) <=> Odd(s, j)
  <2> TAKE j \in 1 .. n - 1
  <2>1. j \in 1 .. n /\ j + 1 \in 1 .. n
    BY <1>1
  <2> QED BY <1>2, <2>1 DEF Odd
<1>6. n # 0 => u[n] = s[n] /\ s[n].place \in {1, 2} /\ (s[n].place = 1 => l > 0)
  BY <1>1, <1>2 DEF Heals
<1>7. n # 0 => (Odd(u, n) <=> (s[n].place = 1 \/ drop = 1))
  <2>1. n # 0 => (Odd(u, n) <=> ~Follows(s[n], t[1]))
    BY <1>2, <1>6 DEF Odd
  <2> QED BY <1>4, <1>6, <2>1 DEF Follows
<1>8. n # 0 /\ Odd(u, n) => Skips(u[n], u[n + 1])
  BY <1>2, <1>4, <1>6, <1>7 DEF Skips
<1>9. /\ Odd(u, n + 1) <=> drop = 2
      /\ Odd(u, n + 1) => Skips(u[n + 1], u[(n + 1) + 1])
  <2>1. u[(n + 1) + 1] = t[2]
    BY <1>2
  <2>2. Odd(u, n + 1) <=> ~Follows(t[1], t[2])
    BY <1>2, <2>1 DEF Odd
  <2> QED BY <1>2, <1>3, <1>4, <2>1, <2>2 DEF Follows, Skips
<1>10. drop = 0 => ~Odd(u, n + 2)
  <2>1. drop = 0 => u[(n + 2) + 1] = t[3]
    BY <1>2
  <2>2. drop = 0 => (Odd(u, n + 2) <=> ~Follows(t[2], t[3]))
    BY <1>2, <2>1 DEF Odd
  <2> QED BY <1>3, <1>4, <2>2 DEF Follows
<1>11. ASSUME NEW j \in 1 .. Len(u) - 1, Odd(u, j)
       PROVE  \/ j \in 1 .. n - 1 /\ Odd(s, j)
              \/ j = n /\ n # 0
              \/ j = n + 1 /\ drop = 2
  BY <1>2, <1>5, <1>9, <1>10, <1>11
<1>12. \A j \in 1 .. Len(u) - 1 : Odd(u, j) => Skips(u[j], u[j + 1]) /\ k > 0
  <2> SUFFICES ASSUME NEW j \in 1 .. Len(u) - 1, Odd(u, j)
               PROVE  Skips(u[j], u[j + 1]) /\ k > 0
    OBVIOUS
  <2>1. CASE j \in 1 .. n - 1 /\ Odd(s, j)
    <3>1. Skips(s[j], s[j + 1]) /\ l > 0
      BY <1>1, <2>1 DEF Heals
    <3>2. j \in 1 .. n /\ j + 1 \in 1 .. n
      BY <1>1, <2>1
    <3> QED BY <1>2, <3>1, <3>2
  <2>2. CASE j = n /\ n # 0
    BY <1>6, <1>7, <1>8, <2>2
  <2>3. CASE j = n + 1 /\ drop = 2
    BY <1>9, <2>3
  <2> QED BY <1>11, <2>1, <2>2, <2>3
<1>13. l > 0 \/ n = 0 \/ \A j \in 1 .. n - 1 : ~Odd(s, j)
  BY <1>1 DEF Heals
<1>14. \A i, j \in 1 .. Len(u) - 1 : Odd(u, i) /\ Odd(u, j) => i = j
  <2> SUFFICES ASSUME NEW i \in 1 .. Len(u) - 1, NEW j \in 1 .. Len(u) - 1, Odd(u, i), Odd(u, j)
               PROVE  i = j
    OBVIOUS
  <2>1. \/ i \in 1 .. n - 1 /\ Odd(s, i)
        \/ i = n /\ n # 0
        \/ i = n + 1 /\ drop = 2
    BY <1>11
  <2>2. \/ j \in 1 .. n - 1 /\ Odd(s, j)
        \/ j = n /\ n # 0
        \/ j = n + 1 /\ drop = 2
    BY <1>11
  <2>3. n # 0 /\ Odd(u, n) => \A m \in 1 .. n - 1 : ~Odd(s, m)
    <3>1. n # 0 /\ s[n].place = 1 => \A m \in 1 .. n - 1 : ~Odd(s, m)
      BY <1>1 DEF Heals
    <3>2. drop = 1 => \A m \in 1 .. n - 1 : ~Odd(s, m)
      BY <1>1 DEF Heals
    <3> QED BY <1>7, <3>1, <3>2
  <2>4. drop = 2 => ~(n # 0 /\ Odd(u, n)) /\ \A m \in 1 .. n - 1 : ~Odd(s, m)
    <3>1. drop = 2 => \A m \in 1 .. n - 1 : ~Odd(s, m)
      BY <1>1 DEF Heals
    <3> QED BY <1>6, <1>7, <3>1
  <2>5. \A m \in 1 .. n - 1, o \in 1 .. n - 1 : Odd(s, m) /\ Odd(s, o) => m = o
    BY <1>1 DEF Heals
  <2> QED BY <2>1, <2>2, <2>3, <2>4, <2>5
<1>15. PICK m : m = Len(u)
  OBVIOUS
<1>16. m # 0 /\ u[m].place = IF drop = 3 THEN 1 ELSE 2
  BY <1>2, <1>3, <1>4, <1>15
<1>17. drop = 3 => k > 0 /\ \A j \in 1 .. Len(u) - 1 : ~Odd(u, j)
  <2> SUFFICES ASSUME drop = 3, NEW j \in 1 .. Len(u) - 1, Odd(u, j) PROVE FALSE
    OBVIOUS
  <2>1. \A i \in 1 .. n - 1 : ~Odd(s, i)
    BY <1>1 DEF Heals
  <2>2. ~(n # 0 /\ Odd(u, n))
    BY <1>6, <1>7
  <2> QED BY <1>11, <2>1, <2>2
<1> QED BY <1>12, <1>14, <1>15, <1>16, <1>17 DEF Heals

\* What gem_ms_packet holds: the beginning of a packet.
Begun(p) ==
    /\ p \in Seq(Bytes) /\ Len(p) <= 2
    /\ \A i \in 1 .. Len(p) : p[i].place = 0 <=> i = 1

\* The packet p and what the line brings behind its first n bytes.
Stream(p, bytes, n) ==
    [j \in 1 .. Len(p) + (Len(bytes) - n) |->
        IF j <= Len(p) THEN p[j] ELSE bytes[n + (j - Len(p))]]

IsStream(s, p, bytes, n) ==
    /\ s \in Seq(Bytes) /\ Len(s) = Len(p) + (Len(bytes) - n)
    /\ \A j \in 1 .. Len(p) : s[j] = p[j]
    /\ \A j \in 1 .. Len(bytes) - n : s[Len(p) + j] = bytes[n + j]

\* Stream, element by element.
LEMMA StreamIs ==
    ASSUME NEW p \in Seq(Bytes), NEW bytes \in Seq(Bytes), NEW n \in 0 .. Len(bytes)
    PROVE  IsStream(Stream(p, bytes, n), p, bytes, n)
<1>0. PICK s : s = Stream(p, bytes, n)
  OBVIOUS
<1>1. PICK k, m : k = Len(p) /\ m = Len(bytes)
  OBVIOUS
<1>2. /\ k \in Nat /\ m \in Nat
      /\ \A j \in 1 .. k : p[j] \in Bytes
      /\ \A j \in 1 .. m : bytes[j] \in Bytes
  BY <1>1, LenProperties
<1>3. s = [j \in 1 .. k + (m - n) |-> IF j <= k THEN p[j] ELSE bytes[n + (j - k)]]
  BY <1>0, <1>1 DEF Stream
<1>4. k + (m - n) \in Nat
  BY <1>1, <1>2
<1>5. ASSUME NEW j \in 1 .. k + (m - n) PROVE s[j] \in Bytes
  <2>1. CASE j <= k
    BY <1>2, <1>3, <2>1
  <2>2. CASE ~(j <= k)
    <3>1. n + (j - k) \in 1 .. m
      BY <1>1, <1>2, <2>2
    <3> QED BY <1>2, <1>3, <2>2, <3>1
  <2> QED BY <2>1, <2>2
<1>6. s \in Seq(Bytes) /\ Len(s) = k + (m - n)
  BY <1>3, <1>4, <1>5
<1>7. \A j \in 1 .. k : s[j] = p[j]
  BY <1>1, <1>2, <1>3
<1>8. ASSUME NEW j \in 1 .. m - n PROVE s[k + j] = bytes[n + j]
  <2>1. k + j \in 1 .. k + (m - n) /\ ~(k + j <= k) /\ n + ((k + j) - k) = n + j
    BY <1>1, <1>2
  <2> QED BY <1>3, <2>1
<1> QED BY <1>0, <1>1, <1>6, <1>7, <1>8 DEF IsStream

\* A packet of three bytes as the mouse sent it.
Whole(p) ==
    /\ \A i \in 1 .. 3 : p[i].place = i - 1 /\ p[i].turn = p[1].turn
    /\ p[1].left \in BOOLEAN /\ p[2].move \in Int

\* gem_mouse_ms_parse: a byte either begins or continues a packet, or ends one
\* that is whole; the stream stays one that heals.
LEMMA ParseHeals ==
    ASSUME NEW p, Begun(p), NEW bytes \in Seq(Bytes), NEW n \in 1 .. Len(bytes),
           NEW l, Heals(Stream(p, bytes, n - 1), l), NEW q, q = MsParse(p, bytes[n])
    PROVE  \/ Len(q) < 3 /\ Begun(q) /\ Heals(Stream(q, bytes, n), l)
           \/ Len(q) = 3 /\ Whole(q) /\ Heals(Stream(<<>>, bytes, n), l)
<1>1. PICK k, m, b, s : /\ k = Len(p) /\ m = Len(bytes) /\ b = bytes[n]
                        /\ s = Stream(p, bytes, n - 1)
  OBVIOUS
<1>2. k \in 0 .. 2 /\ m \in Nat /\ n \in 1 .. m /\ b \in Bytes /\ p \in Seq(Bytes)
  BY <1>1, LenProperties DEF Begun
<1>3. /\ s \in Seq(Bytes) /\ Len(s) = k + (m - (n - 1))
      /\ \A j \in 1 .. k : s[j] = p[j]
      /\ \A j \in 1 .. m - (n - 1) : s[k + j] = bytes[(n - 1) + j]
  <2>1. n - 1 \in 0 .. Len(bytes)
    BY <1>1, <1>2
  <2>2. IsStream(s, p, bytes, n - 1)
    BY <1>1, <1>2, <2>1, StreamIs
  <2> QED BY <1>1, <2>2 DEF IsStream
<1>4. s[k + 1] = b
  <2>1. 1 \in 1 .. m - (n - 1) /\ (n - 1) + 1 = n
    BY <1>2
  <2> QED BY <1>1, <1>3, <2>1
<1>5. ASSUME NEW j \in 1 .. m - n PROVE s[(k + 1) + j] = bytes[n + j]
  <2>1. 1 + j \in 1 .. m - (n - 1) /\ (n - 1) + (1 + j) = n + j /\ k + (1 + j) = (k + 1) + j
    BY <1>2
  <2> QED BY <1>3, <2>1
<1>6. Heals(s, l) /\ n \in 0 .. Len(bytes)
  BY <1>1, <1>2
<1>7. CASE b.place = 0
  <2>1. q = <<b>>
    BY <1>1, <1>7 DEF MsParse
  <2>2. q \in Seq(Bytes) /\ Len(q) = 1 /\ q[1] = b
    BY <1>2, <2>1
  <2>3. PICK t : t = Stream(q, bytes, n)
    OBVIOUS
  <2>4. /\ t \in Seq(Bytes) /\ Len(t) = 1 + (m - n) /\ t[1] = b
        /\ \A j \in 1 .. m - n : t[1 + j] = bytes[n + j]
    <3>1. IsStream(t, q, bytes, n)
      BY <1>6, <2>2, <2>3, StreamIs
    <3> QED BY <1>1, <2>2, <3>1 DEF IsStream
  <2>5. Behind(s, k, t)
    <3>1. ASSUME NEW j \in 1 .. Len(t) PROVE t[j] = s[k + j]
      <4>1. CASE j = 1
        BY <1>4, <2>4, <4>1
      <4>2. CASE j # 1
        <5>1. PICK i : i = j - 1
          OBVIOUS
        <5>2. i \in 1 .. m - n /\ 1 + i = j /\ (k + 1) + i = k + j
          BY <1>2, <2>4, <4>2, <5>1
        <5> QED BY <1>5, <2>4, <5>2
      <4> QED BY <4>1, <4>2
    <3>2. Len(t) = Len(s) - k
      BY <1>2, <1>3, <2>4
    <3> QED BY <3>1, <3>2 DEF Behind
  <2>6. Heals(t, l)
    BY <1>2, <1>6, <2>4, <2>5, BehindHeals
  <2> QED BY <1>7, <2>2, <2>3, <2>6 DEF Begun
<1>8. ASSUME NEW r \in Seq(Bytes), Len(r) = 0
      PROVE  Heals(Stream(r, bytes, n), l)
  <2>1. PICK t : t = Stream(r, bytes, n)
    OBVIOUS
  <2>2. /\ t \in Seq(Bytes) /\ Len(t) = 0 + (m - n)
        /\ \A j \in 1 .. m - n : t[0 + j] = bytes[n + j]
    <3>1. IsStream(t, r, bytes, n)
      BY <1>6, <1>8, <2>1, StreamIs
    <3> QED BY <1>1, <1>8, <3>1 DEF IsStream
  <2>3. Behind(s, k + 1, t)
    <3>1. ASSUME NEW j \in 1 .. Len(t) PROVE t[j] = s[(k + 1) + j]
      <4>1. j \in 1 .. m - n /\ 0 + j = j
        BY <1>2, <2>2
      <4> QED BY <1>5, <2>2, <4>1
    <3>2. Len(t) = Len(s) - (k + 1)
      BY <1>2, <1>3, <2>2
    <3> QED BY <3>1, <3>2 DEF Behind
  <2> QED BY <1>2, <1>6, <2>1, <2>2, <2>3, BehindHeals
<1>9. CASE b.place # 0 /\ k = 0
  <2>1. p = <<>>
    BY <1>1, <1>2, <1>9, EmptySeq
  <2>2. q = <<>>
    BY <1>1, <1>9, <2>1 DEF MsParse
  <2>3. q \in Seq(Bytes) /\ Len(q) = 0
    BY <1>1, <1>2, <1>9, <2>1, <2>2
  <2> QED BY <1>8, <2>3 DEF Begun
<1>10. CASE b.place # 0 /\ k # 0
  <2>1. p # <<>>
    BY <1>1, <1>10
  <2>2. q = Append(p, b)
    BY <1>1, <1>10, <2>1 DEF MsParse
  <2>3. /\ q \in Seq(Bytes) /\ Len(q) = k + 1 /\ q[k + 1] = b
        /\ \A i \in 1 .. k : q[i] = p[i]
    BY <1>1, <1>2, <2>2, AppendProperties
  <2>4. p[1].place = 0 /\ (k = 2 => p[2].place # 0) /\ 1 \in 1 .. k
    BY <1>1, <1>2, <1>10 DEF Begun
  <2>5. CASE k = 1
    <3>1. PICK t : t = Stream(q, bytes, n)
      OBVIOUS
    <3>2. /\ t \in Seq(Bytes) /\ Len(t) = 2 + (m - n)
          /\ \A j \in 1 .. 2 : t[j] = q[j]
          /\ \A j \in 1 .. m - n : t[2 + j] = bytes[n + j]
      <4>1. IsStream(t, q, bytes, n)
        BY <1>6, <2>3, <3>1, StreamIs
      <4>2. Len(q) = 2
        BY <2>3, <2>5
      <4>3. /\ t \in Seq(Bytes) /\ Len(t) = Len(q) + (Len(bytes) - n)
            /\ \A j \in 1 .. Len(q) : t[j] = q[j]
            /\ \A j \in 1 .. Len(bytes) - n : t[Len(q) + j] = bytes[n + j]
        BY ONLY <4>1 DEF IsStream
      <4>4. Len(bytes) = m
        BY <1>1
      <4> QED BY ONLY <4>2, <4>3, <4>4
    <3>3. Behind(s, 0, t)
      <4>1. ASSUME NEW j \in 1 .. Len(t) PROVE t[j] = s[j]
        <5>1. CASE j <= 2
          BY <1>3, <1>4, <2>3, <2>5, <3>2, <5>1
        <5>2. CASE ~(j <= 2)
          <6>1. PICK i : i = j - 2
            OBVIOUS
          <6>2. i \in 1 .. m - n /\ 2 + i = j /\ (k + 1) + i = j
            BY <1>2, <2>5, <3>2, <5>2, <6>1
          <6> QED BY <1>5, <3>2, <6>2
        <5> QED BY <5>1, <5>2
      <4>2. Len(t) = Len(s) - 0 /\ \A j \in 1 .. Len(t) : 0 + j = j
        BY <1>2, <1>3, <2>5, <3>2
      <4> QED BY <4>1, <4>2 DEF Behind
    <3>4. Heals(t, l)
      BY <1>6, <3>2, <3>3, BehindHeals
    <3>5. q[1].place = 0 /\ q[2].place # 0
      BY <1>10, <2>3, <2>4, <2>5
    <3> QED BY <2>3, <2>5, <3>1, <3>4, <3>5 DEF Begun
  <2>6. CASE k = 2
    <3>1. q[1] = s[1] /\ q[2] = s[2] /\ q[3] = s[3] /\ Len(q) = 3
      BY <1>3, <1>4, <2>3, <2>6
    <3>2. s[1].place = 0 /\ s[2].place # 0 /\ s[3].place # 0
      BY <1>10, <2>3, <2>4, <2>6, <3>1
    <3>3. 1 \in 1 .. Len(s) - 1 /\ 2 \in 1 .. Len(s) - 1 /\ 1 + 1 = 2 /\ 2 + 1 = 3
      BY <1>2, <1>3, <2>6
    <3>4. /\ Odd(s, 1) => Skips(s[1], s[2])
          /\ Odd(s, 2) => Skips(s[2], s[3])
          /\ ~(Odd(s, 1) /\ Odd(s, 2))
      <4>1. ~(1 = 2)
        OBVIOUS
      <4> QED BY <1>6, <3>3, <4>1 DEF Heals
    <3>5. /\ Odd(s, 1) <=> ~Follows(s[1], s[2])
          /\ Odd(s, 2) <=> ~Follows(s[2], s[3])
      BY <3>3 DEF Odd
    <3>6. /\ s[1].place = 0 /\ s[2].place = 1 /\ s[3].place = 2
          /\ s[2].turn = s[1].turn /\ s[3].turn = s[1].turn
      BY <3>2, <3>4, <3>5 DEF Follows, Skips
    <3>7. q[1] \in Bytes /\ q[2] \in Bytes
      BY <2>3, <3>1, LenProperties
    <3>8. Whole(q)
      BY <3>1, <3>6, <3>7 DEF Whole, Bytes
    <3>9. Heals(Stream(<<>>, bytes, n), l)
      <4>1. <<>> \in Seq(Bytes) /\ Len(<<>>) = 0
        BY EmptySeq
      <4> QED BY <1>8, <4>1
    <3> QED BY <3>1, <3>8, <3>9
  <2> QED BY <1>2, <1>10, <2>5, <2>6
<1> QED BY <1>7, <1>9, <1>10

\* A sequence of three without one of its elements, or as it is.
LEMMA DropOne ==
    ASSUME NEW S, NEW s \in Seq(S), Len(s) = 3, NEW drop \in 0 .. 3,
           NEW r, r = RemoveAt(s, drop)
    PROVE  /\ r \in Seq(S) /\ Len(r) = IF drop = 0 THEN 3 ELSE 2
           /\ r[1] = IF drop = 1 THEN s[2] ELSE s[1]
           /\ r[2] = IF drop \in {1, 2} THEN s[3] ELSE s[2]
           /\ drop = 0 => r[3] = s[3]
<1>1. \A i \in 1 .. 3 : s[i] \in S
  BY LenProperties
<1>2. PICK a, b : a = SubSeq(s, 1, drop - 1) /\ b = SubSeq(s, drop + 1, 3)
  OBVIOUS
<1>3. /\ a \in Seq(S) /\ Len(a) = IF drop = 0 THEN 0 ELSE drop - 1
      /\ \A i \in 1 .. drop - 1 : a[i] = s[i]
  <2>1. \A i \in 1 .. drop - 1 : s[i] \in S
    BY <1>1
  <2>2. /\ a \in Seq(S) /\ Len(a) = IF 1 <= drop - 1 THEN (drop - 1) - 1 + 1 ELSE 0
        /\ \A i \in 1 .. (drop - 1) - 1 + 1 : a[i] = s[1 + i - 1]
    BY <1>2, <2>1, SubSeqProperties
  <2> QED BY <2>2
<1>4. /\ b \in Seq(S) /\ Len(b) = 3 - drop
      /\ \A i \in 1 .. 3 - drop : b[i] = s[drop + i]
  <2>1. \A i \in drop + 1 .. 3 : s[i] \in S
    BY <1>1
  <2>2. /\ b \in Seq(S) /\ Len(b) = IF drop + 1 <= 3 THEN 3 - (drop + 1) + 1 ELSE 0
        /\ \A i \in 1 .. 3 - (drop + 1) + 1 : b[i] = s[(drop + 1) + i - 1]
    BY <1>2, <2>1, SubSeqProperties
  <2> QED BY <2>2
<1>5. r = a \o b
  BY <1>2 DEF RemoveAt
<1>6. /\ r \in Seq(S) /\ Len(r) = Len(a) + Len(b)
      /\ \A i \in 1 .. Len(a) + Len(b) : r[i] = IF i <= Len(a) THEN a[i] ELSE b[i - Len(a)]
  <2>1. a \in Seq(S) /\ b \in Seq(S)
    BY <1>3, <1>4
  <2> QED BY ONLY <1>5, <2>1, ConcatProperties
<1>7. CASE drop = 0
  BY <1>3, <1>4, <1>6, <1>7
<1>8. CASE drop = 1
  BY <1>3, <1>4, <1>6, <1>8
<1>9. CASE drop = 2
  BY <1>3, <1>4, <1>6, <1>9
<1>10. CASE drop = 3
  BY <1>3, <1>4, <1>6, <1>10
<1> QED BY <1>7, <1>8, <1>9, <1>10

\* The three bytes of a packet.
Packet(move, left, t) ==
    <<[place |-> 0, turn |-> t, left |-> left, move |-> 0],
      [place |-> 1, turn |-> t, left |-> FALSE, move |-> move],
      [place |-> 2, turn |-> t, left |-> FALSE, move |-> 0]>>

\* A packet that is sent, of which one byte may be lost.
LEMMA PacketIsSent ==
    ASSUME NEW move \in Int, NEW left \in BOOLEAN, NEW w \in {0, 1}, NEW drop \in 0 .. 3,
           NEW t, t = RemoveAt(Packet(move, left, w), drop)
    PROVE  Sent(t, drop)
<1>1. PICK s : s = Packet(move, left, w)
  OBVIOUS
<1>2. /\ s \in Seq(Bytes) /\ Len(s) = 3
      /\ s[1].place = 0 /\ s[2].place = 1 /\ s[3].place = 2
      /\ s[1].turn = w /\ s[2].turn = w /\ s[3].turn = w
  <2>1. /\ [place |-> 0, turn |-> w, left |-> left, move |-> 0] \in Bytes
        /\ [place |-> 1, turn |-> w, left |-> FALSE, move |-> move] \in Bytes
        /\ [place |-> 2, turn |-> w, left |-> FALSE, move |-> 0] \in Bytes
    BY DEF Bytes
  <2> QED BY <1>1, <2>1 DEF Packet
<1>3. /\ t \in Seq(Bytes) /\ Len(t) = IF drop = 0 THEN 3 ELSE 2
      /\ t[1] = IF drop = 1 THEN s[2] ELSE s[1]
      /\ t[2] = IF drop \in {1, 2} THEN s[3] ELSE s[2]
      /\ drop = 0 => t[3] = s[3]
  BY <1>1, <1>2, DropOne
<1>4. \A j \in 1 .. Len(t) : t[j].turn = t[1].turn
  BY <1>2, <1>3
<1>5. \A j \in 1 .. Len(t) : t[j].place = Places(drop)[j]
  <2> SUFFICES ASSUME NEW j \in 1 .. Len(t) PROVE t[j].place = Places(drop)[j]
    OBVIOUS
  <2>1. CASE drop = 0
    <3>1. Places(drop) = <<0, 1, 2>>
      BY <2>1 DEF Places
    <3> QED BY <1>2, <1>3, <2>1, <3>1
  <2>2. CASE drop = 1
    <3>1. Places(drop) = <<1, 2>>
      BY <2>2 DEF Places
    <3> QED BY <1>2, <1>3, <2>2, <3>1
  <2>3. CASE drop = 2
    <3>1. Places(drop) = <<0, 2>>
      BY <2>3 DEF Places
    <3> QED BY <1>2, <1>3, <2>3, <3>1
  <2>4. CASE drop = 3
    <3>1. Places(drop) = <<0, 1>>
      BY <2>4 DEF Places
    <3> QED BY <1>2, <1>3, <2>4, <3>1
  <2> QED BY <2>1, <2>2, <2>3, <2>4
<1> QED BY <1>3, <1>4, <1>5 DEF Sent

\* A packet is added behind the packet begun and the line.
LEMMA LineHeals ==
    ASSUME NEW p \in Seq(Bytes), NEW bytes \in Seq(Bytes), NEW l \in {0, 1},
           Heals(Stream(p, bytes, 0), l), NEW drop \in 0 .. 3, drop > 0 => l = 0,
           NEW t, Sent(t, drop), NEW new, new = bytes \o t,
           NEW k, k = IF drop > 0 THEN l + 1 ELSE l
    PROVE  new \in Seq(Bytes) /\ Heals(Stream(p, new, 0), k)
<1>1. PICK a, b, c, s, u : /\ a = Len(p) /\ b = Len(bytes) /\ c = Len(t)
                           /\ s = Stream(p, bytes, 0) /\ u = Stream(p, new, 0)
  OBVIOUS
<1>2. a \in Nat /\ b \in Nat /\ c \in Nat /\ t \in Seq(Bytes)
  BY <1>1, LenProperties DEF Sent
<1>3. /\ new \in Seq(Bytes) /\ Len(new) = b + c
      /\ \A i \in 1 .. b + c : new[i] = IF i <= b THEN bytes[i] ELSE t[i - b]
  BY <1>1, <1>2, ConcatProperties
<1>4. /\ s \in Seq(Bytes) /\ Len(s) = a + b
      /\ \A j \in 1 .. a : s[j] = p[j]
      /\ \A j \in 1 .. b : s[a + j] = bytes[j]
  <2>1. 0 \in 0 .. Len(bytes)
    BY <1>1, <1>2
  <2>2. IsStream(s, p, bytes, 0)
    BY <1>1, <2>1, StreamIs
  <2>3. /\ s \in Seq(Bytes) /\ Len(s) = a + (b - 0)
        /\ \A j \in 1 .. a : s[j] = p[j]
        /\ \A j \in 1 .. b - 0 : s[a + j] = bytes[0 + j]
    BY <1>1, <2>2 DEF IsStream
  <2> QED BY <1>2, <2>3
<1>5. /\ u \in Seq(Bytes) /\ Len(u) = a + (b + c)
      /\ \A j \in 1 .. a : u[j] = p[j]
      /\ \A j \in 1 .. b + c : u[a + j] = new[j]
  <2>1. 0 \in 0 .. Len(new)
    BY <1>2, <1>3
  <2>2. IsStream(u, p, new, 0)
    BY <1>1, <1>3, <2>1, StreamIs
  <2>3. Len(new) = b + c
    BY <1>3
  <2>4. /\ u \in Seq(Bytes) /\ Len(u) = a + ((b + c) - 0)
        /\ \A j \in 1 .. a : u[j] = p[j]
        /\ \A j \in 1 .. (b + c) - 0 : u[a + j] = new[0 + j]
    BY ONLY <1>1, <2>2, <2>3 DEF IsStream
  <2>5. (b + c) - 0 = b + c /\ \A j \in 1 .. b + c : 0 + j = j
    BY <1>2
  <2>6. \A j \in 1 .. b + c : u[a + j] = new[j]
    BY ONLY <2>4, <2>5
  <2> QED BY ONLY <2>4, <2>5, <2>6
<1>6. ASSUME NEW j \in 1 .. a + b PROVE u[j] = s[j]
  <2>1. CASE j <= a
    <3>1. j \in 1 .. a
      BY <1>2, <2>1
    <3> QED BY <1>4, <1>5, <3>1
  <2>2. CASE ~(j <= a)
    <3>1. PICK i : i = j - a
      OBVIOUS
    <3>2. i \in 1 .. b /\ i \in 1 .. b + c /\ a + i = j /\ i <= b
      BY <1>2, <2>2, <3>1
    <3>3. s[a + i] = bytes[i] /\ u[a + i] = new[i] /\ new[i] = bytes[i]
      BY <1>3, <1>4, <1>5, <3>2
    <3> QED BY <3>2, <3>3
  <2> QED BY <2>1, <2>2
<1>7. ASSUME NEW j \in 1 .. c PROVE u[(a + b) + j] = t[j]
  <2>1. PICK i : i = b + j
    OBVIOUS
  <2>2. i \in 1 .. b + c /\ a + i = (a + b) + j /\ ~(i <= b) /\ i - b = j
    BY <1>2, <2>1
  <2>3. u[a + i] = new[i] /\ new[i] = t[i - b]
    BY <1>3, <1>5, <2>2
  <2> QED BY <2>2, <2>3
<1>8. Then(s, t, u)
  <2>1. Len(u) = Len(s) + Len(t)
    BY <1>1, <1>2, <1>4, <1>5
  <2> QED BY <1>1, <1>4, <1>6, <1>7, <2>1 DEF Then
<1>9. Heals(s, l)
  BY <1>1
<1>10. Heals(u, k)
  BY ONLY l \in {0, 1}, drop \in 0 .. 3, drop > 0 => l = 0, Sent(t, drop),
          k = IF drop > 0 THEN l + 1 ELSE l, <1>5, <1>8, <1>9, SentHeals
<1> QED BY <1>1, <1>3, <1>10

----------------------------------------------------------------------------
(* What the mouse does *)

Pads ==
    [on : BOOLEAN, armed : BOOLEAN, seen : BOOLEAN, combo : BOOLEAN, dx : Int,
     button : BOOLEAN, release : BOOLEAN, event : BOOLEAN]

Pointers == [x : 0 .. Xres - 1, left : BOOLEAN]

Mice ==
    [pad : Pads, packet : Seq(Bytes), pointer : Pointers, real : BOOLEAN,
     mixed : BOOLEAN, line : Seq(Bytes)]

\* No movement was mixed, no button is left down, and the packet begun and the
\* line behind its first n bytes heal.
Good(s, bytes, n, l) ==
    /\ s \in Mice /\ ~s.mixed /\ Begun(s.packet)
    /\ s.pointer.left => s.real \/ s.pad.button \/ s.pad.event
    /\ Heals(Stream(s.packet, bytes, n), l)

\* gem_mouse_publish keeps the pointer on the screen.
LEMMA PublishOnScreen ==
    ASSUME NEW at \in Pointers, NEW delta \in Int, NEW left \in BOOLEAN
    PROVE  Publish(at, delta, left) \in Pointers /\ Publish(at, delta, left).left = left
<1>1. at.x \in Int /\ Xres \in Nat \ {0}
  BY InputAssumption DEF Pointers
<1>2. PICK x : x = at.x + delta
  OBVIOUS
<1>3. x \in Int
  BY <1>1, <1>2
<1>4. (IF x < 0 THEN 0 ELSE IF x >= Xres THEN Xres - 1 ELSE x) \in 0 .. Xres - 1
  BY <1>1, <1>3
<1>5. Publish(at, delta, left) =
         [x |-> IF x < 0 THEN 0 ELSE IF x >= Xres THEN Xres - 1 ELSE x, left |-> left]
  BY <1>2 DEF Publish
<1> QED BY <1>4, <1>5 DEF Pointers

\* What gem_mouse_apply leaves: the button is the mouse's or the keypad's.
LEMMA ApplyLeaves ==
    ASSUME NEW s \in Mice, NEW delta \in Int, NEW left \in BOOLEAN,
           NEW a, a = Apply(s, delta, left)
    PROVE  /\ a \in Mice /\ a.packet = s.packet /\ a.mixed = s.mixed
           /\ a.pointer.left => a.real \/ a.pad.button \/ a.pad.event
<1>1. PICK m : m = Accelerate(delta)
  OBVIOUS
<1>2. m \in Int
  BY <1>1 DEF Accelerate
<1>3. PICK b : b = (left \/ s.pad.button)
  OBVIOUS
<1>4. b \in BOOLEAN
  BY <1>3
<1>5. PICK q : q = Publish(s.pointer, m, b)
  OBVIOUS
<1>6. q \in Pointers /\ q.left = b
  <2>1. s.pointer \in Pointers
    BY DEF Mice
  <2> QED BY <1>2, <1>4, <1>5, <2>1, PublishOnScreen
<1>7. PICK f : f = (delta # 0 /\ ~s.pad.seen)
  OBVIOUS
<1>8. PICK p : p = [s.pad EXCEPT !.seen = @ \/ f, !.on = @ /\ ~f]
  OBVIOUS
<1>9. p \in Pads /\ p.button = s.pad.button
  <2>1. s.pad \in Pads
    BY DEF Mice
  <2>2. s.pad.seen \in BOOLEAN /\ s.pad.on \in BOOLEAN
    BY <2>1 DEF Pads
  <2>3. (s.pad.seen \/ f) \in BOOLEAN /\ (s.pad.on /\ ~f) \in BOOLEAN
    OBVIOUS
  <2> QED BY <1>8, <2>1, <2>3 DEF Pads
<1>10. a = [s EXCEPT !.pad = p, !.pointer = q, !.real = left]
  <2>1. PICK d : d = [s EXCEPT !.pad.seen = @ \/ f, !.pad.on = @ /\ ~f]
    OBVIOUS
  <2>2. a = [d EXCEPT !.pointer = q, !.real = left]
    BY <1>1, <1>3, <1>5, <1>7, <2>1 DEF Apply
  <2>3. d = [s EXCEPT !.pad = p]
    BY <1>8, <2>1 DEF Mice
  <2> QED BY <2>2, <2>3
<1>11. /\ a \in Mice /\ a.packet = s.packet /\ a.mixed = s.mixed
       /\ a.pointer = q /\ a.real = left /\ a.pad = p
  BY <1>6, <1>9, <1>10 DEF Mice
<1> QED BY <1>3, <1>6, <1>9, <1>11

\* The keypad's report: a button let go is shown for one poll more.
LEMMA ReportLeaves ==
    ASSUME NEW s \in Mice, NEW a, a = PadReport(s)
    PROVE  /\ a \in Mice /\ a.packet = s.packet /\ a.mixed = s.mixed
           /\ a.pointer.left => a.real \/ a.pad.button \/ a.pad.event
<1>1. s.pad \in Pads /\ s.pointer \in Pointers
  BY DEF Mice
<1>2. s.pad.button \in BOOLEAN /\ s.pad.release \in BOOLEAN /\ s.pad.dx \in Int
  BY <1>1 DEF Pads
<1>3. PICK q : q = Publish(s.pointer, s.pad.dx, s.pad.button)
  OBVIOUS
<1>4. q \in Pointers /\ q.left = s.pad.button
  BY <1>1, <1>2, <1>3, PublishOnScreen
<1>5. PICK c : c = (s.pad.button /\ s.pad.release)
  OBVIOUS
<1>6. PICK p : p = [s.pad EXCEPT !.dx = 0, !.button = @ /\ ~c, !.release = @ /\ ~c, !.event = c]
  OBVIOUS
<1>7. p \in Pads /\ p.button = (s.pad.button /\ ~c) /\ p.event = c
  <2>1. PICK x, y : x = (s.pad.button /\ ~c) /\ y = (s.pad.release /\ ~c)
    OBVIOUS
  <2>2. x \in BOOLEAN /\ y \in BOOLEAN /\ c \in BOOLEAN
    BY <1>2, <1>5, <2>1
  <2>3. PICK d : d = [s.pad EXCEPT !.dx = 0, !.button = x]
    OBVIOUS
  <2>4. d \in Pads /\ d.button = x
    <3>1. PICK e : e = [s.pad EXCEPT !.dx = 0]
      OBVIOUS
    <3>2. e \in Pads
      BY <1>1, <3>1 DEF Pads
    <3>3. d = [e EXCEPT !.button = x]
      BY <1>1, <2>3, <3>1 DEF Pads
    <3>4. d \in Pads
      BY <2>2, <3>2, <3>3 DEF Pads
    <3>5. d.button = x
      BY <3>2, <3>3 DEF Pads
    <3> QED BY <3>4, <3>5
  <2>5. p = [d EXCEPT !.release = y, !.event = c]
    BY <1>1, <1>6, <2>1, <2>3 DEF Pads
  <2>6. p \in Pads /\ p.button = d.button /\ p.event = c
    BY <2>2, <2>4, <2>5 DEF Pads
  <2> QED BY <2>1, <2>4, <2>6
<1>8. a = [s EXCEPT !.pad = p, !.pointer = q]
  <2>1. a = [s EXCEPT !.pad.dx = 0, !.pad.button = @ /\ ~c, !.pad.release = @ /\ ~c,
                      !.pad.event = c, !.pointer = q]
    BY <1>3, <1>5 DEF PadReport
  <2>2. [s EXCEPT !.pad.dx = 0, !.pad.button = @ /\ ~c, !.pad.release = @ /\ ~c,
                  !.pad.event = c] = [s EXCEPT !.pad = p]
    BY <1>6 DEF Mice
  <2> QED BY <2>1, <2>2
<1>9. /\ a \in Mice /\ a.packet = s.packet /\ a.mixed = s.mixed
      /\ a.pointer = q /\ a.pad = p
  BY <1>4, <1>7, <1>8 DEF Mice
<1> QED BY <1>4, <1>5, <1>7, <1>9

\* One byte of the line.
LEMMA HeardGood ==
    ASSUME NEW bytes \in Seq(Bytes), NEW n \in 1 .. Len(bytes), NEW l,
           NEW s, Good(s, bytes, n - 1, l), NEW a, a = Heard(s, bytes[n])
    PROVE  Good(a, bytes, n, l)
<1>1. PICK q : q = MsParse(s.packet, bytes[n])
  OBVIOUS
<1>2. \/ Len(q) < 3 /\ Begun(q) /\ Heals(Stream(q, bytes, n), l)
      \/ Len(q) = 3 /\ Whole(q) /\ Heals(Stream(<<>>, bytes, n), l)
  <2>1. Begun(s.packet) /\ Heals(Stream(s.packet, bytes, n - 1), l)
    BY DEF Good
  <2> QED BY <1>1, <2>1, ParseHeals
<1>3. s \in Mice /\ ~s.mixed
  BY DEF Good
<1>4. CASE Len(q) < 3 /\ Begun(q) /\ Heals(Stream(q, bytes, n), l)
  <2>1. a = [s EXCEPT !.packet = q]
    BY <1>1, <1>4 DEF Heard
  <2>2. q \in Seq(Bytes)
    BY <1>4 DEF Begun
  <2>3. /\ a \in Mice /\ a.mixed = s.mixed /\ a.packet = q
        /\ a.pointer = s.pointer /\ a.real = s.real /\ a.pad = s.pad
    BY <1>3, <2>1, <2>2 DEF Mice
  <2> QED BY <1>3, <1>4, <2>3 DEF Good
<1>5. CASE Len(q) = 3 /\ Whole(q) /\ Heals(Stream(<<>>, bytes, n), l)
  <2>1. PICK b : b = Apply(s, q[2].move, q[1].left)
    OBVIOUS
  <2>2. b \in Mice /\ b.mixed = s.mixed
        /\ (b.pointer.left => b.real \/ b.pad.button \/ b.pad.event)
    BY <1>3, <1>5, <2>1, ApplyLeaves DEF Whole
  <2>3. \A i \in 1 .. 3 : ~(q[i].place # i - 1 \/ q[i].turn # q[1].turn)
    BY <1>5 DEF Whole
  <2>4. a = [b EXCEPT !.packet = <<>>, !.mixed = FALSE]
    <3>1. a = [b EXCEPT !.packet = <<>>,
                        !.mixed = @ \/ \E i \in 1 .. 3 : q[i].place # i - 1 \/ q[i].turn # q[1].turn]
      BY <1>1, <1>5, <2>1 DEF Heard
    <3>2. (b.mixed \/ \E i \in 1 .. 3 : q[i].place # i - 1 \/ q[i].turn # q[1].turn) = FALSE
      BY <1>3, <2>2, <2>3
    <3> QED BY <3>1, <3>2
  <2>5. <<>> \in Seq(Bytes) /\ Len(<<>>) = 0
    BY EmptySeq
  <2>6. /\ a \in Mice /\ ~a.mixed /\ a.packet = <<>>
        /\ a.pointer = b.pointer /\ a.real = b.real /\ a.pad = b.pad
    BY <2>2, <2>4, <2>5 DEF Mice
  <2>7. Begun(<<>>)
    BY <2>5 DEF Begun
  <2> QED BY <1>5, <2>2, <2>6, <2>7 DEF Good
<1> QED BY <1>2, <1>4, <1>5

\* The loop over the line: Hearing satisfies its equation.
LEMMA HearingTurns ==
    ASSUME line \in Seq(Bytes), NEW begin
    PROVE  \E after :
              /\ after = [n \in 0 .. Len(line) |->
                            IF n = 0 THEN begin ELSE Heard(after[n - 1], line[n])]
              /\ Hearing(begin) = after
<1>1. PICK k, bytes : k = Len(line) /\ bytes = line
  OBVIOUS
<1> DEFINE Turn(f, n) == IF n = 0 THEN begin ELSE Heard(f[n - 1], bytes[n])
           Is(f, t) == f = [n \in 0 .. t |-> Turn(f, n)]
           P == {t \in 0 .. k : \E f : Is(f, t)}
<1>0. k \in Nat
  BY <1>1, LenProperties
<1>2. 0 \in P
  <2>1. Is([n \in 0 .. 0 |-> begin], 0)
    OBVIOUS
  <2>2. 0 \in 0 .. k
    BY <1>0
  <2> HIDE DEF Is
  <2> QED BY <2>1, <2>2
<1>3. ASSUME NEW t \in 1 .. k, t - 1 \in P PROVE t \in P
  <2>1. PICK f : Is(f, t - 1)
    BY <1>3
  <2> DEFINE g == [n \in 0 .. t |-> IF n = t THEN Turn(f, t) ELSE f[n]]
  <2>2. Is(g, t)
    BY ONLY <1>0, <2>1, t \in 1 .. k
  <2>3. t \in 0 .. k
    BY <1>0
  <2> HIDE DEF Is, g
  <2> QED BY <2>2, <2>3
<1>4. k \in P
  <2> HIDE DEF P
  <2> QED BY <1>0, <1>2, <1>3, Turns
<1>5. PICK f : Is(f, k)
  BY <1>4
<1>6. Hearing(begin) = CHOOSE g : Is(g, k)
  BY <1>1 DEF Hearing
<1>7. Is(CHOOSE g : Is(g, k), k)
  <2> HIDE DEF Is
  <2> QED BY <1>5
<1> QED BY <1>1, <1>6, <1>7

\* Every byte of the line keeps what is good.
LEMMA HearingGood ==
    ASSUME line \in Seq(Bytes), NEW l, NEW begin, Good(begin, line, 0, l),
           NEW k \in 0 .. Len(line), NEW s, s = Hearing(begin)[k]
    PROVE  Good(s, line, k, l)
<1>1. PICK f : /\ f = [n \in 0 .. Len(line) |->
                          IF n = 0 THEN begin ELSE Heard(f[n - 1], line[n])]
               /\ Hearing(begin) = f
  BY HearingTurns
<1>2. Len(line) \in Nat
  BY LenProperties
<1> DEFINE P == {n \in 0 .. Len(line) : Good(f[n], line, n, l)}
<1>3. 0 \in P
  <2>1. 0 \in 0 .. Len(line) /\ f[0] = begin
    BY <1>1, <1>2
  <2> QED BY <2>1
<1>4. ASSUME NEW n \in 1 .. k, n - 1 \in P PROVE n \in P
  <2>1. n \in 1 .. Len(line) /\ n \in 0 .. Len(line) /\ n # 0
    BY <1>2
  <2>2. f[n] = Heard(f[n - 1], line[n])
    BY <1>1, <2>1
  <2>3. PICK a, b : a = f[n - 1] /\ b = f[n]
    OBVIOUS
  <2>4. Good(a, line, n - 1, l) /\ b = Heard(a, line[n])
    BY <1>4, <2>2, <2>3
  <2>5. Good(b, line, n, l)
    BY <2>1, <2>4, HeardGood
  <2> QED BY <2>1, <2>3, <2>5
<1>5. k \in P
  <2>1. k \in Nat
    BY <1>2
  <2> HIDE DEF P
  <2> QED BY <1>3, <1>4, <2>1, Turns
<1> QED BY <1>1, <1>5

\* What was read and not looked at.
Leftover(S, codes, n, r) ==
    /\ r \in Seq(S) /\ Len(r) = Len(codes) - n
    /\ \A i \in 1 .. Len(codes) - n : r[i] = codes[n + i]

LEMMA RestIsBehind ==
    ASSUME NEW S, NEW codes \in Seq(S), NEW n \in 0 .. Len(codes), NEW r, r = Rest(codes, n)
    PROVE  Leftover(S, codes, n, r)
<1>1. PICK k : k = Len(codes)
  OBVIOUS
<1>2. k \in Nat /\ \A i \in 1 .. k : codes[i] \in S
  BY <1>1, LenProperties
<1>3. \A i \in n + 1 .. k : codes[i] \in S
  BY <1>1, <1>2
<1>4. n + 1 \in Int /\ k \in Int
  BY <1>1, <1>2
<1>5. /\ r \in Seq(S)
      /\ Len(r) = IF n + 1 <= k THEN k - (n + 1) + 1 ELSE 0
      /\ \A i \in 1 .. k - (n + 1) + 1 : r[i] = codes[(n + 1) + i - 1]
  <2>1. r = SubSeq(codes, n + 1, k)
    BY <1>1 DEF Rest
  <2> QED BY <1>3, <1>4, <2>1, SubSeqProperties
<1>6. k - (n + 1) + 1 = k - n /\ (IF n + 1 <= k THEN k - (n + 1) + 1 ELSE 0) = k - n
  BY <1>1, <1>2
<1>7. \A i \in 1 .. k - n : (n + 1) + i - 1 = n + i
  BY <1>1, <1>2
<1> QED BY <1>1, <1>5, <1>6, <1>7 DEF Leftover

\* The line without its first bytes.
LEMMA RestHeals ==
    ASSUME NEW p \in Seq(Bytes), NEW bytes \in Seq(Bytes), NEW n \in 0 .. Len(bytes), NEW l,
           Heals(Stream(p, bytes, n), l), NEW r, r = Rest(bytes, n)
    PROVE  r \in Seq(Bytes) /\ Heals(Stream(p, r, 0), l)
<1>1. PICK k, m, s, t : /\ k = Len(p) /\ m = Len(bytes)
                        /\ s = Stream(p, bytes, n) /\ t = Stream(p, r, 0)
  OBVIOUS
<1>2. k \in Nat /\ m \in Nat /\ n \in 0 .. m
  BY <1>1, LenProperties
<1>3. /\ r \in Seq(Bytes) /\ Len(r) = m - n
      /\ \A i \in 1 .. m - n : r[i] = bytes[n + i]
  <2>1. Leftover(Bytes, bytes, n, r)
    BY RestIsBehind
  <2> QED BY ONLY <1>1, <2>1 DEF Leftover
<1>4. /\ s \in Seq(Bytes) /\ Len(s) = k + (m - n)
      /\ \A j \in 1 .. k : s[j] = p[j]
      /\ \A j \in 1 .. m - n : s[k + j] = bytes[n + j]
  <2>1. IsStream(s, p, bytes, n)
    BY <1>1, StreamIs
  <2> QED BY <1>1, <2>1 DEF IsStream
<1>5. /\ t \in Seq(Bytes) /\ Len(t) = k + ((m - n) - 0)
      /\ \A j \in 1 .. k : t[j] = p[j]
      /\ \A j \in 1 .. (m - n) - 0 : t[k + j] = r[0 + j]
  <2>1. 0 \in 0 .. Len(r)
    BY <1>2, <1>3
  <2>2. IsStream(t, p, r, 0)
    BY <1>1, <1>3, <2>1, StreamIs
  <2>3. Len(r) = m - n
    BY <1>3
  <2> QED BY ONLY <1>1, <2>2, <2>3 DEF IsStream
<1>6. (m - n) - 0 = m - n /\ \A j \in 1 .. m - n : 0 + j = j
  BY <1>2
<1>7. ASSUME NEW j \in 1 .. k + (m - n) PROVE t[j] = s[j]
  <2>1. CASE j <= k
    <3>1. j \in 1 .. k
      BY <1>2, <2>1
    <3> QED BY <1>4, <1>5, <3>1
  <2>2. CASE ~(j <= k)
    <3>1. PICK i : i = j - k
      OBVIOUS
    <3>2. i \in 1 .. m - n /\ k + i = j
      BY <1>2, <2>2, <3>1
    <3>3. t[k + i] = r[0 + i] /\ r[i] = bytes[n + i] /\ s[k + i] = bytes[n + i]
      BY <1>3, <1>4, <1>5, <1>6, <3>2
    <3> QED BY <1>6, <3>2, <3>3
  <2> QED BY <2>1, <2>2
<1>8. Behind(s, 0, t)
  <2>1. Len(t) = k + (m - n) /\ Len(t) = Len(s) - 0
    BY <1>2, <1>4, <1>5
  <2>2. \A j \in 1 .. k + (m - n) : 0 + j = j
    BY <1>2
  <2> QED BY <1>7, <2>1, <2>2 DEF Behind
<1>9. Heals(s, l)
  BY <1>1
<1>10. Heals(t, l)
  BY <1>5, <1>8, <1>9, BehindHeals
<1> QED BY <1>1, <1>3, <1>10

\* What the invariant says of the mouse.
MouseInv ==
    /\ line \in Seq(Bytes) /\ Begun(packet) /\ Heals(Stream(packet, line, 0), lost)
    /\ pad \in Pads /\ amstrad \in BOOLEAN /\ pointer \in Pointers /\ real \in BOOLEAN
    /\ mixed = FALSE /\ turn \in {0, 1} /\ lost \in {0, 1} /\ lost <= MaxLost
    /\ pointer.left => real \/ pad.button \/ pad.event

\* What a poll of the mouse leaves.
LEMMA ReadMouseGood ==
    ASSUME MouseInv, NEW counted \in Int, NEW s, s = ReadMouse(counted)
    PROVE  /\ Good(s, s.line, 0, lost)
           /\ s.line \in Seq(Bytes)
<1>1. PICK m : m = [pad |-> pad, packet |-> packet, pointer |-> pointer, real |-> real,
                    mixed |-> mixed, line |-> line]
  OBVIOUS
<1>2. Good(m, line, 0, lost) /\ m.line = line
  <2>1. m \in Mice
    BY <1>1 DEF MouseInv, Mice, Begun
  <2> QED BY <1>1, <2>1 DEF MouseInv, Good
<1>3. PICK b : b = IF pad.event THEN PadReport(m) ELSE m
  OBVIOUS
<1>4. Good(b, line, 0, lost) /\ b.line = line
  <2>1. CASE pad.event
    <3>1. b = PadReport(m)
      BY <1>3, <2>1
    <3>2. m \in Mice
      BY <1>2 DEF Good
    <3>3. /\ b \in Mice /\ b.packet = m.packet /\ b.mixed = m.mixed
          /\ b.pointer.left => b.real \/ b.pad.button \/ b.pad.event
      BY <3>1, <3>2, ReportLeaves
    <3>4. b.line = m.line
      BY <3>1, <3>2 DEF PadReport, Mice
    <3> QED BY <1>2, <3>3, <3>4 DEF Good
  <2>2. CASE ~pad.event
    BY <1>2, <1>3, <2>2
  <2> QED BY <2>1, <2>2
<1>5. line \in Seq(Bytes) /\ Len(line) \in Nat
  BY LenProperties DEF MouseInv
<1>6. PICK after : after = Hearing(b)
  OBVIOUS
<1> DEFINE Ends(n) == after[n].pointer # after[n - 1].pointer
<1>7. PICK n : n = Taken(Atmost(Len(line), MouseBytes), Ends)
  OBVIOUS
<1>8. n \in 0 .. Len(line)
  <2>1. PICK all : all = Atmost(Len(line), MouseBytes)
    OBVIOUS
  <2>2. all \in 0 .. Len(line)
    BY <1>5, <2>1, InputAssumption DEF Atmost
  <2> HIDE DEF Ends
  <2>3. CASE \E i \in 1 .. all : Ends(i)
    <3> DEFINE E == {i \in 1 .. all : Ends(i)}
    <3>1. E \in SUBSET Nat /\ E # {} /\ IsFiniteSet(E)
      <4>1. E \subseteq 1 .. all /\ IsFiniteSet(1 .. all)
        BY <2>2, FS_Interval
      <4> QED BY <2>2, <2>3, <4>1, FS_Subset
    <3>2. PICK i \in E : \A j \in E : i <= j
      BY <3>1, LeastMember
    <3>3. Ends(i) /\ \A j \in 1 .. i - 1 : ~Ends(j)
      BY <2>2, <3>2
    <3>4. n = CHOOSE x \in 1 .. all : Ends(x) /\ \A j \in 1 .. x - 1 : ~Ends(j)
      BY <1>7, <2>1, <2>3 DEF Taken
    <3>5. n \in 1 .. all
      BY <3>2, <3>3, <3>4
    <3> QED BY <2>2, <3>5
  <2>4. CASE ~\E i \in 1 .. all : Ends(i)
    BY <1>7, <2>1, <2>2, <2>4 DEF Taken
  <2> QED BY <2>3, <2>4
<1>9. s = CASE b.pointer # pointer \/ protocol = "none" -> b
            [] b.pointer = pointer /\ protocol = "amstrad" -> Apply(b, counted, amstrad)
            [] OTHER -> [after[n] EXCEPT !.line = Rest(line, n)]
  BY <1>1, <1>3, <1>6, <1>7 DEF ReadMouse
<1>10. CASE b.pointer # pointer \/ protocol = "none"
  BY <1>4, <1>5, <1>9, <1>10
<1>11. CASE b.pointer = pointer /\ protocol = "amstrad"
  <2>1. s = Apply(b, counted, amstrad)
    BY <1>9, <1>11
  <2>2. b \in Mice /\ amstrad \in BOOLEAN
    BY <1>4 DEF Good, MouseInv
  <2>3. /\ s \in Mice /\ s.packet = b.packet /\ s.mixed = b.mixed
        /\ s.pointer.left => s.real \/ s.pad.button \/ s.pad.event
    BY <2>1, <2>2, ApplyLeaves
  <2>4. s.line = b.line
    BY <2>1, <2>2 DEF Apply, Mice
  <2> QED BY <1>4, <1>5, <2>3, <2>4 DEF Good
<1>12. CASE ~(b.pointer # pointer \/ protocol = "none") /\ ~(b.pointer = pointer /\ protocol = "amstrad")
  <2>1. s = [after[n] EXCEPT !.line = Rest(line, n)]
    BY <1>9, <1>12
  <2>2. PICK a, r : a = after[n] /\ r = Rest(line, n)
    OBVIOUS
  <2>3. Good(a, line, n, lost)
    BY <1>4, <1>5, <1>6, <1>8, <2>2, HearingGood
  <2>4. a \in Mice /\ Begun(a.packet) /\ Heals(Stream(a.packet, line, n), lost)
    BY <2>3 DEF Good
  <2>5. r \in Seq(Bytes) /\ Heals(Stream(a.packet, r, 0), lost)
    <3>1. a.packet \in Seq(Bytes)
      BY <2>4 DEF Begun
    <3> QED BY <1>5, <1>8, <2>2, <2>4, <3>1, RestHeals
  <2>6. s = [a EXCEPT !.line = r]
    BY <2>1, <2>2
  <2>7. /\ s \in Mice /\ s.line = r /\ s.pad = a.pad /\ s.packet = a.packet
        /\ s.pointer = a.pointer /\ s.real = a.real /\ s.mixed = a.mixed
    BY <2>4, <2>5, <2>6 DEF Mice
  <2> QED BY <2>3, <2>5, <2>7 DEF Good
<1> QED BY <1>10, <1>11, <1>12

----------------------------------------------------------------------------
(* The keyboard's decoder *)

Codes == (KeyNames \cup {"ctrl", "e0"}) \X {"down", "up"}

Raws == [e0 : BOOLEAN, mods : SUBSET Modifiers]

Decoders == [raw : Raws, pad : Pads, amstrad : BOOLEAN]

\* The modifiers behind a code: with an Amstrad mouse its button is none.
RawNext(p, r, code) ==
    IF p = "amstrad" /\ code[1] = "button" THEN r ELSE RawScancode(r, code)

\* gem_kbd_raw_scancode
LEMMA RawIsRaw ==
    ASSUME NEW p, NEW r \in Raws, NEW code
    PROVE  RawScancode(r, code) \in Raws /\ RawNext(p, r, code) \in Raws
<1>1. r.e0 \in BOOLEAN /\ r.mods \in SUBSET Modifiers
  BY DEF Raws
<1>2. RawScancode(r, code) \in Raws
  <2>1. CASE code[1] = "e0"
    <3>1. RawScancode(r, code) = [r EXCEPT !.e0 = TRUE]
      <4>1. code[1] \notin Modifiers
        BY <2>1 DEF Modifiers
      <4> QED BY <2>1, <4>1 DEF RawScancode
    <3> QED BY <3>1 DEF Raws
  <2>2. CASE code[1] # "e0" /\ code[1] \in Modifiers /\ ~(r.e0 /\ code[1] \in {"lshift", "rshift"})
    <3>1. PICK m : m = IF code[2] = "down" THEN r.mods \cup {code[1]} ELSE r.mods \ {code[1]}
      OBVIOUS
    <3>2. RawScancode(r, code) = [e0 |-> FALSE, mods |-> m]
      BY <2>2, <3>1 DEF RawScancode
    <3>3. m \in SUBSET Modifiers
      BY <1>1, <2>2, <3>1
    <3> QED BY <3>2, <3>3 DEF Raws
  <2>3. CASE code[1] # "e0" /\ ~(code[1] \in Modifiers /\ ~(r.e0 /\ code[1] \in {"lshift", "rshift"}))
    <3>1. RawScancode(r, code) = [r EXCEPT !.e0 = FALSE]
      BY <2>3 DEF RawScancode
    <3> QED BY <3>1 DEF Raws
  <2> QED BY <2>1, <2>2, <2>3
<1> QED BY <1>2 DEF RawNext

\* The keypad's button is down, or is about to be shown to be up.
Awaited(k) == k.button \/ k.event

\* gem_kbd_mouse_combo: a button let go by it is shown.
LEMMA ComboKeeps ==
    ASSUME NEW k \in Pads, NEW mods, NEW j, j = KbdMouseCombo(k, mods)
    PROVE  j \in Pads /\ (Awaited(k) => Awaited(j))
<1>1. PICK combo, off : combo = ({"ctrl", "rshift"} \subseteq mods) /\ off = (k.on /\ k.button)
  OBVIOUS
<1>2. k.on \in BOOLEAN /\ k.button \in BOOLEAN /\ k.release \in BOOLEAN /\ k.event \in BOOLEAN
  BY DEF Pads
<1>3. CASE combo = k.combo
  <2>1. j = k
    <3>1. ~(combo /\ ~k.combo) /\ ~(~combo /\ k.combo)
      BY <1>3
    <3> QED BY <1>1, <1>3, <3>1 DEF KbdMouseCombo
  <2> QED BY <2>1
<1>4. CASE combo # k.combo /\ combo /\ ~k.combo
  <2>1. j = [k EXCEPT !.combo = TRUE, !.armed = TRUE]
    BY <1>1, <1>4 DEF KbdMouseCombo
  <2>2. j \in Pads /\ j.button = k.button /\ j.event = k.event
    BY <2>1 DEF Pads
  <2> QED BY <2>2 DEF Awaited
<1>5. CASE combo # k.combo /\ ~(combo /\ ~k.combo) /\ ~combo /\ k.combo /\ ~k.armed
  <2>1. j = [k EXCEPT !.combo = FALSE]
    BY <1>1, <1>5 DEF KbdMouseCombo
  <2>2. j \in Pads /\ j.button = k.button /\ j.event = k.event
    BY <2>1 DEF Pads
  <2> QED BY <2>2 DEF Awaited
<1>6. CASE combo # k.combo /\ ~(combo /\ ~k.combo) /\ ~(~combo /\ k.combo /\ ~k.armed)
  <2>1. PICK o, b, r, e : /\ o = ~k.on /\ b = (k.button /\ ~off)
                          /\ r = (k.release /\ ~off) /\ e = (k.event \/ off)
    OBVIOUS
  <2>2. o \in BOOLEAN /\ b \in BOOLEAN /\ r \in BOOLEAN /\ e \in BOOLEAN
    BY <1>1, <1>2, <2>1
  <2>3. PICK d : d = [k EXCEPT !.combo = FALSE, !.armed = FALSE]
    OBVIOUS
  <2>4. d \in Pads
    BY <2>3 DEF Pads
  <2>5. PICK f : f = [d EXCEPT !.on = o, !.button = b]
    OBVIOUS
  <2>6. f \in Pads
    BY <2>2, <2>4, <2>5 DEF Pads
  <2>7. f.button = b
    BY <2>4, <2>5 DEF Pads
  <2>8. j = [k EXCEPT !.combo = FALSE, !.armed = FALSE, !.on = o, !.button = b,
                      !.release = r, !.event = e]
    BY <1>1, <1>6, <2>1 DEF KbdMouseCombo
  <2>9. j = [f EXCEPT !.release = r, !.event = e]
    BY <2>3, <2>5, <2>8
  <2>10. j \in Pads
    BY <2>2, <2>6, <2>9 DEF Pads
  <2>11. j.button = f.button
    BY <2>6, <2>9 DEF Pads
  <2>12. j.event = e
    BY <2>6, <2>9 DEF Pads
  <2> QED BY <1>1, <1>2, <2>1, <2>7, <2>10, <2>11, <2>12 DEF Awaited
<1> QED BY <1>3, <1>4, <1>5, <1>6

\* gem_kbd_mouse_key: what it changes is shown.
LEMMA KeyKeeps ==
    ASSUME NEW k \in Pads, NEW key, NEW mods, NEW j, j = KbdMouseKey(k, key, mods)
    PROVE  j \in Pads /\ Awaited(j)
<1>1. PICK step : step = IF mods \cap {"lshift", "rshift"} # {} THEN 1 ELSE Fast
  OBVIOUS
<1>2. PICK x, b, r : /\ x = CASE key = "left" -> k.dx - step
                              [] key = "right" -> k.dx + step
                              [] OTHER -> k.dx
                     /\ b = (k.button \/ key \in {"home", "end"})
                     /\ r = IF key \in {"home", "end"} THEN key = "home" ELSE k.release
  OBVIOUS
<1>3. x \in Int
  <2>1. step \in Int /\ k.dx \in Int
    BY <1>1, InputAssumption DEF Pads
  <2> QED BY <1>2, <2>1
<1>4. b \in BOOLEAN /\ r \in BOOLEAN
  <2>1. k.release \in BOOLEAN
    BY DEF Pads
  <2> QED BY <1>2, <2>1
<1>5. PICK d : d = [k EXCEPT !.dx = x, !.button = b]
  OBVIOUS
<1>6. d \in Pads
  BY <1>3, <1>4, <1>5 DEF Pads
<1>7. j = [k EXCEPT !.dx = x, !.button = b, !.release = r, !.event = TRUE]
  BY <1>1, <1>2 DEF KbdMouseKey
<1>8. j = [d EXCEPT !.release = r, !.event = TRUE]
  BY <1>5, <1>7
<1>9. j \in Pads
  BY <1>4, <1>6, <1>8 DEF Pads
<1>10. j.event = TRUE
  BY <1>6, <1>8 DEF Pads
<1> QED BY <1>9, <1>10 DEF Awaited

\* One code.
LEMMA DecodedKeeps ==
    ASSUME NEW s \in Decoders, NEW code, NEW a, a = Decoded(s, code)
    PROVE  /\ a \in Decoders /\ a.raw = RawNext(protocol, s.raw, code)
           /\ Awaited(s.pad) => Awaited(a.pad)
<1>1. s.raw \in Raws /\ s.pad \in Pads /\ s.amstrad \in BOOLEAN
  BY DEF Decoders
<1>2. CASE protocol = "amstrad" /\ code[1] = "button"
  <2>1. PICK b : b = (code[2] = "down")
    OBVIOUS
  <2>2. a = [s EXCEPT !.amstrad = b]
    BY <1>2, <2>1 DEF Decoded
  <2>3. a \in Decoders /\ a.raw = s.raw /\ a.pad = s.pad
    BY <2>1, <2>2 DEF Decoders
  <2> QED BY <1>2, <2>3 DEF RawNext
<1>3. CASE ~(protocol = "amstrad" /\ code[1] = "button")
  <2>1. PICK r : r = RawScancode(s.raw, code)
    OBVIOUS
  <2>2. r \in Raws /\ r = RawNext(protocol, s.raw, code)
    BY <1>1, <1>3, <2>1, RawIsRaw DEF RawNext
  <2>3. PICK k : k = KbdMouseCombo(s.pad, r.mods)
    OBVIOUS
  <2>4. k \in Pads /\ (Awaited(s.pad) => Awaited(k))
    BY <1>1, <2>3, ComboKeeps
  <2>5. PICK j : j = IF MovesMouse(k, code) THEN KbdMouseKey(k, code[1], r.mods) ELSE k
    OBVIOUS
  <2>6. j \in Pads /\ (Awaited(s.pad) => Awaited(j))
    BY <2>4, <2>5, KeyKeeps
  <2>7. a = [s EXCEPT !.raw = r, !.pad = j]
    BY <1>3, <2>1, <2>3, <2>5 DEF Decoded
  <2>8. a \in Decoders /\ a.raw = r /\ a.pad = j
    BY <2>2, <2>6, <2>7 DEF Decoders
  <2> QED BY <2>2, <2>6, <2>8
<1> QED BY <1>2, <1>3

----------------------------------------------------------------------------
(* What a key sends *)

\* Two elements behind a sequence.
LEMMA ConcatTwo ==
    ASSUME NEW S, NEW s \in Seq(S), NEW x \in S, NEW y \in S
    PROVE  s \o <<x, y>> = Append(Append(s, x), y) /\ Append(Append(s, x), y) \in Seq(S)
<1>1. Append(s, x) = s \o <<x>> /\ Append(s, x) \in Seq(S)
  BY AppendIsConcat, AppendProperties
<1>2. Append(Append(s, x), y) = Append(s, x) \o <<y>> /\ Append(Append(s, x), y) \in Seq(S)
  BY <1>1, AppendIsConcat, AppendProperties
<1>3. <<x>> \in Seq(S) /\ <<y>> \in Seq(S)
  OBVIOUS
<1>4. (s \o <<x>>) \o <<y>> = s \o (<<x>> \o <<y>>)
  BY <1>3, ConcatAssociative
<1>5. <<x>> \o <<y>> = <<x, y>>
  <2>1. PICK r, q : r = <<x>> \o <<y>> /\ q = <<x, y>>
    OBVIOUS
  <2>2. q \in Seq(S) /\ Len(q) = 2 /\ q[1] = x /\ q[2] = y
    BY <2>1
  <2>3. Len(<<x>>) = 1 /\ Len(<<y>>) = 1 /\ <<x>>[1] = x /\ <<y>>[1] = y
    OBVIOUS
  <2>4. /\ r \in Seq(S) /\ Len(r) = 1 + 1
        /\ \A i \in 1 .. 1 + 1 : r[i] = IF i <= 1 THEN <<x>>[i] ELSE <<y>>[i - 1]
    BY <1>3, <2>1, <2>3, ConcatProperties
  <2>5. Len(r) = 2 /\ r[1] = x /\ r[2] = y
    BY <2>3, <2>4
  <2>6. r = q
    BY <2>2, <2>4, <2>5, SeqEqual
  <2> QED BY <2>1, <2>6
<1> QED BY <1>1, <1>2, <1>4, <1>5

\* And four.
LEMMA ConcatFour ==
    ASSUME NEW S, NEW s \in Seq(S), NEW a \in S, NEW b \in S, NEW c \in S, NEW d \in S
    PROVE  s \o <<a, b, c, d>> = Append(Append(Append(Append(s, a), b), c), d)
<1>1. PICK t : t = Append(Append(s, a), b)
  OBVIOUS
<1>2. t = s \o <<a, b>> /\ t \in Seq(S)
  BY <1>1, ConcatTwo
<1>3. t \o <<c, d>> = Append(Append(t, c), d)
  BY <1>2, ConcatTwo
<1>4. PICK p, q, r, w : /\ p = <<a, b>> /\ q = <<c, d>> /\ r = p \o q
                        /\ w = <<a, b, c, d>>
  OBVIOUS
<1>5. /\ p \in Seq(S) /\ q \in Seq(S) /\ Len(p) = 2 /\ Len(q) = 2
      /\ p[1] = a /\ p[2] = b /\ q[1] = c /\ q[2] = d
  BY <1>4
<1>6. /\ w \in Seq(S) /\ Len(w) = 4 /\ w[1] = a /\ w[2] = b /\ w[3] = c /\ w[4] = d
  BY <1>4
<1>7. (s \o p) \o q = s \o r
  BY <1>4, <1>5, ConcatAssociative
<1>8. r = w
  <2>1. /\ r \in Seq(S) /\ Len(r) = 2 + 2
        /\ \A i \in 1 .. 2 + 2 : r[i] = IF i <= 2 THEN p[i] ELSE q[i - 2]
    BY <1>4, <1>5, ConcatProperties
  <2>2. Len(r) = 4 /\ r[1] = a /\ r[2] = b /\ r[3] = c /\ r[4] = d
    BY <1>5, <2>1
  <2>3. \A i \in 1 .. Len(r) : r[i] = w[i]
    BY <1>6, <2>2
  <2> QED BY <1>6, <2>1, <2>2, <2>3, SeqEqual
<1> QED BY <1>1, <1>2, <1>3, <1>4, <1>7, <1>8

\* The codes of a key behind others, code by code.
Sending(s, key, way, new) ==
    /\ new \in Seq(Codes)
    /\ key = "rctrl" => new = Append(Append(s, <<"e0", "down">>), <<"ctrl", way>>)
    /\ key = "grey left" /\ way = "down" =>
          new = Append(Append(Append(Append(s, <<"e0", "down">>), <<"lshift", "down">>),
                              <<"e0", "down">>), <<"left", "down">>)
    /\ key = "grey left" /\ way = "up" =>
          new = Append(Append(Append(Append(s, <<"e0", "down">>), <<"left", "up">>),
                              <<"e0", "down">>), <<"lshift", "up">>)
    /\ key = "lctrl" => new = Append(s, <<"ctrl", way>>)
    /\ key \notin {"rctrl", "grey left", "lctrl"} => new = Append(s, <<key, way>>)

LEMMA SendsOn ==
    ASSUME NEW s \in Seq(Codes), NEW key \in KeyNames, NEW way \in {"down", "up"},
           NEW new, new = s \o Sends(key, way)
    PROVE  Sending(s, key, way, new)
<1>1. /\ <<"e0", "down">> \in Codes /\ <<"ctrl", way>> \in Codes /\ <<key, way>> \in Codes
      /\ <<"lshift", "down">> \in Codes /\ <<"left", "down">> \in Codes
      /\ <<"lshift", "up">> \in Codes /\ <<"left", "up">> \in Codes
  BY DEF Codes, KeyNames
<1>2. \A c \in Codes : Append(s, c) \in Seq(Codes) /\ s \o <<c>> = Append(s, c)
  BY AppendProperties, AppendIsConcat
<1>3. CASE key = "rctrl"
  <2>1. Sends(key, way) = <<<<"e0", "down">>, <<"ctrl", way>>>>
    BY <1>3 DEF Sends
  <2>2. new = Append(Append(s, <<"e0", "down">>), <<"ctrl", way>>)
    <3>1. PICK a, b : a = <<"e0", "down">> /\ b = <<"ctrl", way>>
      OBVIOUS
    <3>2. a \in Codes /\ b \in Codes
      BY <1>1, <3>1
    <3>3. s \o <<a, b>> = Append(Append(s, a), b)
      BY ONLY s \in Seq(Codes), <3>2, ConcatTwo
    <3> QED BY <2>1, <3>1, <3>3
  <2>3. new \in Seq(Codes)
    BY <1>1, <1>2, <2>2, AppendProperties
  <2> QED BY <1>3, <2>2, <2>3 DEF Sending
<1>4. CASE key = "grey left" /\ way = "down"
  <2>1. Sends(key, way) =
           <<<<"e0", "down">>, <<"lshift", "down">>, <<"e0", "down">>, <<"left", "down">>>>
    BY <1>4 DEF Sends
  <2>2. new = Append(Append(Append(Append(s, <<"e0", "down">>), <<"lshift", "down">>),
                            <<"e0", "down">>), <<"left", "down">>)
    <3>1. PICK a, b, c : a = <<"e0", "down">> /\ b = <<"lshift", "down">> /\ c = <<"left", "down">>
      OBVIOUS
    <3>2. a \in Codes /\ b \in Codes /\ c \in Codes
      BY <1>1, <3>1
    <3>3. s \o <<a, b, a, c>> = Append(Append(Append(Append(s, a), b), a), c)
      BY ONLY s \in Seq(Codes), <3>2, ConcatFour
    <3> QED BY <2>1, <3>1, <3>3
  <2>3. new \in Seq(Codes)
    BY <1>1, <1>2, <2>2, AppendProperties
  <2> QED BY <1>4, <2>2, <2>3 DEF Sending
<1>5. CASE key = "grey left" /\ way = "up"
  <2>1. Sends(key, way) =
           <<<<"e0", "down">>, <<"left", "up">>, <<"e0", "down">>, <<"lshift", "up">>>>
    BY <1>5 DEF Sends
  <2>2. new = Append(Append(Append(Append(s, <<"e0", "down">>), <<"left", "up">>),
                            <<"e0", "down">>), <<"lshift", "up">>)
    <3>1. PICK a, b, c : a = <<"e0", "down">> /\ b = <<"left", "up">> /\ c = <<"lshift", "up">>
      OBVIOUS
    <3>2. a \in Codes /\ b \in Codes /\ c \in Codes
      BY <1>1, <3>1
    <3>3. s \o <<a, b, a, c>> = Append(Append(Append(Append(s, a), b), a), c)
      BY ONLY s \in Seq(Codes), <3>2, ConcatFour
    <3> QED BY <2>1, <3>1, <3>3
  <2>3. new \in Seq(Codes)
    BY <1>1, <1>2, <2>2, AppendProperties
  <2> QED BY <1>5, <2>2, <2>3 DEF Sending
<1>6. CASE key = "lctrl"
  <2>1. Sends(key, way) = <<<<"ctrl", way>>>>
    BY <1>6 DEF Sends
  <2> QED BY <1>1, <1>2, <1>6, <2>1 DEF Sending
<1>7. CASE key \notin {"rctrl", "grey left", "lctrl"}
  <2>1. Sends(key, way) = <<<<key, way>>>>
    BY <1>7 DEF Sends
  <2> QED BY <1>1, <1>2, <1>7, <2>1 DEF Sending
<1> QED BY <1>3, <1>4, <1>5, <1>6, <1>7

\* f is the decoder's modifiers before and behind each of the codes s.
Track(p, f, r, s) ==
    /\ f \in [0 .. Len(s) -> Raws]
    /\ f[0] = r
    /\ \A n \in 1 .. Len(s) : f[n] = RawNext(p, f[n - 1], s[n])

\* The codes s lead from r to x.
Leads(p, r, s, x) == \E f : Track(p, f, r, s) /\ f[Len(s)] = x

\* The modifiers are those of the keys that are down.
Settled(h, x) ==
    /\ x \in Raws /\ ~x.e0
    /\ x.mods \cap {"lshift", "rshift"} = h \cap {"lshift", "rshift"}
    /\ "ctrl" \in x.mods => h \cap {"lctrl", "rctrl"} # {}

\* One code more.
LEMMA LeadsOn ==
    ASSUME NEW p, NEW r, NEW s \in Seq(Codes), NEW c \in Codes, NEW x, Leads(p, r, s, x),
           NEW t, t = Append(s, c), NEW y, y = RawNext(p, x, c)
    PROVE  Leads(p, r, t, y) /\ t \in Seq(Codes)
<1>1. PICK k : k = Len(s)
  OBVIOUS
<1>2. k \in Nat
  BY <1>1, LenProperties
<1>3. PICK f : Track(p, f, r, s) /\ f[k] = x
  BY <1>1 DEF Leads
<1>4. /\ f \in [0 .. k -> Raws] /\ f[0] = r
      /\ \A n \in 1 .. k : f[n] = RawNext(p, f[n - 1], s[n])
  BY <1>1, <1>3 DEF Track
<1>5. /\ t \in Seq(Codes) /\ Len(t) = k + 1 /\ t[k + 1] = c
      /\ \A i \in 1 .. k : t[i] = s[i]
  BY <1>1, AppendProperties
<1>6. y \in Raws
  <2>1. x \in Raws
    BY <1>2, <1>3, <1>4
  <2> QED BY <2>1, RawIsRaw
<1>7. PICK g : g = [i \in 0 .. k + 1 |-> IF i = k + 1 THEN y ELSE f[i]]
  OBVIOUS
<1>8. g \in [0 .. k + 1 -> Raws]
  <2>1. ASSUME NEW i \in 0 .. k + 1 PROVE (IF i = k + 1 THEN y ELSE f[i]) \in Raws
    <3>1. i # k + 1 => i \in 0 .. k
      BY <1>2
    <3> QED BY <1>4, <1>6, <3>1
  <2> QED BY <1>7, <2>1
<1>9. g[0] = r /\ g[k + 1] = y
  BY <1>2, <1>4, <1>7
<1>10. ASSUME NEW n \in 1 .. k + 1 PROVE g[n] = RawNext(p, g[n - 1], t[n])
  <2>1. CASE n = k + 1
    <3>1. n - 1 = k /\ k \in 0 .. k + 1 /\ k # k + 1
      BY <1>2, <2>1
    <3>2. g[n - 1] = x
      BY <1>3, <1>7, <3>1
    <3> QED BY <1>5, <1>9, <2>1, <3>2
  <2>2. CASE n # k + 1
    <3>1. /\ n \in 1 .. k /\ n \in 0 .. k + 1
          /\ n - 1 \in 0 .. k + 1 /\ n - 1 # k + 1
      BY <1>2, <2>2
    <3>2. g[n] = f[n] /\ g[n - 1] = f[n - 1]
      BY <1>7, <2>2, <3>1
    <3> QED BY <1>4, <1>5, <3>1, <3>2
  <2> QED BY <2>1, <2>2
<1>11. Track(p, g, r, t) /\ g[Len(t)] = y
  BY <1>5, <1>8, <1>9, <1>10 DEF Track
<1> QED BY <1>5, <1>11 DEF Leads

\* What each code does to the modifiers x with no prefix before it ...
Plain(p, x, way) ==
    /\ RawNext(p, x, <<"e0", "down">>) = [e0 |-> TRUE, mods |-> x.mods]
    /\ \A key \in {"lshift", "rshift", "alt", "ctrl"} :
          RawNext(p, x, <<key, way>>) =
             [e0 |-> FALSE,
              mods |-> IF way = "down" THEN x.mods \cup {key} ELSE x.mods \ {key}]
    /\ \A key \in KeyNames \ {"lshift", "rshift", "alt"} : RawNext(p, x, <<key, way>>) = x

\* ... and to e, which is x with the prefix: a Shift nobody pressed changes
\* nothing.
Prefixed(p, e, x, way) ==
    /\ RawNext(p, e, <<"lshift", way>>) = x
    /\ RawNext(p, e, <<"left", way>>) = x
    /\ RawNext(p, e, <<"ctrl", way>>) =
          [e0 |-> FALSE,
           mods |-> IF way = "down" THEN x.mods \cup {"ctrl"} ELSE x.mods \ {"ctrl"}]

\* gem_kbd_raw_scancode, with no prefix read.
LEMMA CodeSettles ==
    ASSUME NEW p, NEW h, NEW x, Settled(h, x), NEW way \in {"down", "up"}
    PROVE  Plain(p, x, way)
<1>1. x \in Raws /\ x.e0 = FALSE
  BY DEF Settled, Raws
<1>2. x = [e0 |-> FALSE, mods |-> x.mods]
  BY <1>1 DEF Raws
<1>3. RawNext(p, x, <<"e0", "down">>) = [e0 |-> TRUE, mods |-> x.mods]
  <2>1. RawNext(p, x, <<"e0", "down">>) = [x EXCEPT !.e0 = TRUE]
    BY DEF RawNext, RawScancode, Modifiers
  <2> QED BY <1>1, <2>1 DEF Raws
<1>4. ASSUME NEW key \in {"lshift", "rshift", "alt", "ctrl"}
      PROVE  RawNext(p, x, <<key, way>>) =
                [e0 |-> FALSE,
                 mods |-> IF way = "down" THEN x.mods \cup {key} ELSE x.mods \ {key}]
  <2>1. key \in Modifiers /\ key # "e0" /\ key # "button"
    BY DEF Modifiers
  <2> QED BY <1>1, <2>1 DEF RawNext, RawScancode
<1>5. ASSUME NEW key \in KeyNames \ {"lshift", "rshift", "alt"}
      PROVE  RawNext(p, x, <<key, way>>) = x
  <2>1. key \notin Modifiers /\ key # "e0"
    BY DEF Modifiers, KeyNames
  <2>2. RawScancode(x, <<key, way>>) = [x EXCEPT !.e0 = FALSE]
    BY <2>1 DEF RawScancode
  <2>3. [x EXCEPT !.e0 = FALSE] = x
    BY <1>1 DEF Raws
  <2> QED BY <2>2, <2>3 DEF RawNext
<1> QED BY <1>3, <1>4, <1>5 DEF Plain

\* And behind the prefix.
LEMMA PrefixSettles ==
    ASSUME NEW p, NEW h, NEW x, Settled(h, x), NEW e, e = [e0 |-> TRUE, mods |-> x.mods],
           NEW way \in {"down", "up"}
    PROVE  Prefixed(p, e, x, way)
<1>1. x \in Raws /\ x.e0 = FALSE
  BY DEF Settled, Raws
<1>2. x = [e0 |-> FALSE, mods |-> x.mods]
  BY <1>1 DEF Raws
<1>3. [e EXCEPT !.e0 = FALSE] = x
  BY <1>2
<1>4. RawNext(p, e, <<"lshift", way>>) = x
  <2>1. e.e0 /\ "lshift" # "e0" /\ "lshift" # "button"
    OBVIOUS
  <2>2. RawNext(p, e, <<"lshift", way>>) = [e EXCEPT !.e0 = FALSE]
    BY <2>1 DEF RawNext, RawScancode
  <2> QED BY <1>3, <2>2
<1>5. RawNext(p, e, <<"left", way>>) = x
  <2>1. "left" \notin Modifiers
    BY DEF Modifiers
  <2>2. RawNext(p, e, <<"left", way>>) = [e EXCEPT !.e0 = FALSE]
    BY <2>1 DEF RawNext, RawScancode
  <2> QED BY <1>3, <2>2
<1>6. RawNext(p, e, <<"ctrl", way>>) =
         [e0 |-> FALSE,
          mods |-> IF way = "down" THEN x.mods \cup {"ctrl"} ELSE x.mods \ {"ctrl"}]
  <2>1. "ctrl" \in Modifiers /\ e.mods = x.mods
    BY DEF Modifiers
  <2> QED BY <2>1 DEF RawNext, RawScancode
<1> QED BY <1>4, <1>5, <1>6 DEF Prefixed

\* The codes s lead from r to the modifiers of the keys h.
Settles(p, r, s, h) == \E x : Leads(p, r, s, x) /\ Settled(h, x)

\* The codes of a key leave the modifiers settled.
LEMMA SendsSettle ==
    ASSUME NEW p, NEW r, NEW s \in Seq(Codes), NEW x, Leads(p, r, s, x),
           NEW h, Settled(h, x), NEW key \in KeyNames, NEW way \in {"down", "up"},
           NEW new, Sending(s, key, way, new),
           NEW i, i = IF way = "down" THEN h \cup {key} ELSE h \ {key}
    PROVE  Settles(p, r, new, i)
<1> SUFFICES \E y : Leads(p, r, new, y) /\ Settled(i, y)
  BY DEF Settles
<1>0. x \in Raws /\ x.e0 = FALSE /\ x.mods \subseteq Modifiers
  BY DEF Settled, Raws
<1>1. PICK e, c, d : /\ e = <<"e0", "down">> /\ c = <<"ctrl", way>>
                     /\ d = [e0 |-> TRUE, mods |-> x.mods]
  OBVIOUS
<1>2. e \in Codes /\ c \in Codes
  BY <1>1 DEF Codes
<1>3. Plain(p, x, way)
  BY ONLY Settled(h, x), way \in {"down", "up"}, CodeSettles
<1>4. Prefixed(p, d, x, way)
  BY ONLY Settled(h, x), way \in {"down", "up"}, <1>1, PrefixSettles
<1>5. PICK t : t = Append(s, e)
  OBVIOUS
<1>6. Leads(p, r, t, d) /\ t \in Seq(Codes)
  <2>1. d = RawNext(p, x, e)
    BY <1>1, <1>3 DEF Plain
  <2> QED BY <1>2, <1>5, <2>1, LeadsOn
<1>7. PICK y : y = [e0 |-> FALSE,
                    mods |-> IF way = "down" THEN x.mods \cup {"ctrl"} ELSE x.mods \ {"ctrl"}]
  OBVIOUS
<1>8. key \in {"lctrl", "rctrl"} => Settled(i, y)
  <2>1. y \in Raws /\ ~y.e0
    BY <1>0, <1>7 DEF Raws, Modifiers
  <2>2. key \in {"lctrl", "rctrl"} =>
           y.mods \cap {"lshift", "rshift"} = i \cap {"lshift", "rshift"}
    BY <1>7 DEF Settled
  <2>3. key \in {"lctrl", "rctrl"} /\ "ctrl" \in y.mods => i \cap {"lctrl", "rctrl"} # {}
    BY <1>7
  <2> QED BY <2>1, <2>2, <2>3 DEF Settled
<1>9. CASE key = "rctrl"
  <2>1. new = Append(t, c)
    BY <1>1, <1>5, <1>9 DEF Sending
  <2>2. y = RawNext(p, d, c)
    BY <1>1, <1>7, <1>4 DEF Prefixed
  <2>3. Leads(p, r, new, y)
    BY <1>2, <1>6, <2>1, <2>2, LeadsOn
  <2> QED BY <1>8, <1>9, <2>3
<1>10. CASE key = "lctrl"
  <2>1. new = Append(s, c)
    BY <1>1, <1>10 DEF Sending
  <2>2. y = RawNext(p, x, c)
    BY <1>1, <1>7, <1>3 DEF Plain
  <2>3. Leads(p, r, new, y)
    BY <1>2, <2>1, <2>2, LeadsOn
  <2> QED BY <1>8, <1>10, <2>3
<1>11. CASE key = "grey left"
  <2>1. PICK a, b : /\ a = IF way = "down" THEN <<"lshift", "down">> ELSE <<"left", "up">>
                    /\ b = IF way = "down" THEN <<"left", "down">> ELSE <<"lshift", "up">>
    OBVIOUS
  <2>2. a \in Codes /\ b \in Codes
    BY <2>1 DEF Codes, KeyNames
  <2>3. PICK u, v : u = Append(t, a) /\ v = Append(u, e)
    OBVIOUS
  <2>4. new = Append(v, b)
    <3>1. CASE way = "down"
      BY <1>1, <1>5, <1>11, <2>1, <2>3, <3>1 DEF Sending
    <3>2. CASE way = "up"
      BY <1>1, <1>5, <1>11, <2>1, <2>3, <3>2 DEF Sending
    <3> QED BY <3>1, <3>2
  <2>5. x = RawNext(p, d, a) /\ x = RawNext(p, d, b)
    <3>1. /\ RawNext(p, d, <<"lshift", way>>) = x
          /\ RawNext(p, d, <<"left", way>>) = x
      BY <1>1, <1>4 DEF Prefixed
    <3> QED BY <2>1, <3>1
  <2>6. Leads(p, r, u, x) /\ u \in Seq(Codes)
    BY <1>6, <2>2, <2>3, <2>5, LeadsOn
  <2>7. Leads(p, r, v, d) /\ v \in Seq(Codes)
    <3>1. d = RawNext(p, x, e)
      BY <1>1, <1>3 DEF Plain
    <3> QED BY <1>2, <2>3, <2>6, <3>1, LeadsOn
  <2>8. Leads(p, r, new, x)
    BY <2>2, <2>4, <2>5, <2>7, LeadsOn
  <2>9. Settled(i, x)
    BY <1>11 DEF Settled
  <2> QED BY <2>8, <2>9
<1>12. CASE key \notin {"rctrl", "grey left", "lctrl"}
  <2>1. PICK a : a = <<key, way>>
    OBVIOUS
  <2>2. a \in Codes /\ new = Append(s, a)
    BY <1>12, <2>1 DEF Codes, Sending
  <2>3. CASE key \in {"lshift", "rshift", "alt"}
    <3>1. PICK z : z = [e0 |-> FALSE,
                        mods |-> IF way = "down" THEN x.mods \cup {key} ELSE x.mods \ {key}]
      OBVIOUS
    <3>2. z = RawNext(p, x, a)
      BY <2>1, <2>3, <3>1, <1>3 DEF Plain
    <3>3. Leads(p, r, new, z)
      BY <2>2, <3>2, LeadsOn
    <3>4. z \in Raws /\ ~z.e0
      BY <1>0, <2>3, <3>1 DEF Raws, Modifiers
    <3>5. z.mods \cap {"lshift", "rshift"} = i \cap {"lshift", "rshift"}
      BY <3>1 DEF Settled
    <3>6. "ctrl" \in z.mods => i \cap {"lctrl", "rctrl"} # {}
      BY <2>3, <3>1 DEF Settled
    <3> QED BY <3>3, <3>4, <3>5, <3>6 DEF Settled
  <2>4. CASE key \notin {"lshift", "rshift", "alt"}
    <3>1. x = RawNext(p, x, a)
      BY <2>1, <2>4, <1>3 DEF Plain
    <3>2. Leads(p, r, new, x)
      BY <2>2, <3>1, LeadsOn
    <3>3. Settled(i, x)
      BY <1>12, <2>4 DEF Settled
    <3> QED BY <3>2, <3>3
  <2> QED BY <2>3, <2>4
<1> QED BY <1>9, <1>10, <1>11, <1>12

\* The keys pressed among codes.
Pressings(s) == {i \in 1 .. Len(s) : Pressed(s[i])}

Presses(s) == Cardinality(Pressings(s))

\* There are finitely many of them.
LEMMA PressingsFinite ==
    ASSUME NEW s \in Seq(Codes)
    PROVE  IsFiniteSet(Pressings(s)) /\ Presses(s) \in Nat
<1>1. Len(s) \in Nat
  BY LenProperties
<1>2. IsFiniteSet(1 .. Len(s)) /\ Pressings(s) \subseteq 1 .. Len(s)
  BY <1>1, FS_Interval DEF Pressings
<1>3. IsFiniteSet(Pressings(s))
  BY <1>2, FS_Subset
<1> QED BY <1>3, FS_CardinalityType DEF Presses

\* One code more.
LEMMA CountOn ==
    ASSUME NEW s \in Seq(Codes), NEW c \in Codes, NEW t, t = Append(s, c)
    PROVE  t \in Seq(Codes) /\ Presses(t) = IF Pressed(c) THEN Presses(s) + 1 ELSE Presses(s)
<1>1. PICK k : k = Len(s)
  OBVIOUS
<1>2. /\ k \in Nat /\ t \in Seq(Codes) /\ Len(t) = k + 1 /\ t[k + 1] = c
      /\ \A i \in 1 .. k : t[i] = s[i]
  BY <1>1, LenProperties, AppendProperties
<1>3. Pressings(t) = IF Pressed(c) THEN Pressings(s) \cup {k + 1} ELSE Pressings(s)
  <2>1. ASSUME NEW i
        PROVE  i \in Pressings(t) <=> i \in Pressings(s) \/ (i = k + 1 /\ Pressed(c))
    <3>1. i \in 1 .. k + 1 <=> i \in 1 .. k \/ i = k + 1
      BY <1>2
    <3>2. i \in Pressings(t) <=> i \in 1 .. k + 1 /\ Pressed(t[i])
      BY <1>2 DEF Pressings
    <3>3. i \in Pressings(s) <=> i \in 1 .. k /\ Pressed(s[i])
      BY <1>1 DEF Pressings
    <3>4. i \in 1 .. k => i # k + 1
      BY <1>2
    <3> QED BY <1>2, <3>1, <3>2, <3>3, <3>4
  <2> QED BY <2>1
<1>4. k + 1 \notin Pressings(s)
  BY <1>1, <1>2 DEF Pressings
<1>5. IsFiniteSet(Pressings(s))
  BY PressingsFinite
<1>6. Cardinality(Pressings(s) \cup {k + 1}) = Cardinality(Pressings(s)) + 1
  BY <1>4, <1>5, FS_AddElement
<1> QED BY <1>2, <1>3, <1>6 DEF Presses

\* A key that is pressed counts once, however many codes it sends.
Counts(s, key, way, new) ==
    Presses(new) = IF way = "down" /\ key \in Ordinary \cup {"grey left"}
                 THEN Presses(s) + 1 ELSE Presses(s)

LEMMA SendsCount ==
    ASSUME NEW s \in Seq(Codes), NEW key \in KeyNames, NEW way \in {"down", "up"},
           NEW new, Sending(s, key, way, new)
    PROVE  Counts(s, key, way, new)
<1> SUFFICES Presses(new) = IF way = "down" /\ key \in Ordinary \cup {"grey left"}
                          THEN Presses(s) + 1 ELSE Presses(s)
  BY DEF Counts
<1>1. PICK e, c : e = <<"e0", "down">> /\ c = <<"ctrl", way>>
  OBVIOUS
<1>2. e \in Codes /\ c \in Codes /\ ~Pressed(e) /\ ~Pressed(c)
  BY <1>1 DEF Codes, Pressed, Ordinary, MouseKeys
<1>3. PICK t : t = Append(s, e)
  OBVIOUS
<1>4. t \in Seq(Codes) /\ Presses(t) = Presses(s)
  BY <1>2, <1>3, CountOn
<1>5. CASE key = "rctrl"
  <2>1. new = Append(t, c)
    BY <1>1, <1>3, <1>5 DEF Sending
  <2>2. Presses(new) = Presses(t)
    BY <1>2, <1>4, <2>1, CountOn
  <2>3. key \notin Ordinary \cup {"grey left"}
    BY <1>5 DEF Ordinary, MouseKeys
  <2> QED BY <1>4, <2>2, <2>3
<1>6. CASE key = "lctrl"
  <2>1. new = Append(s, c)
    BY <1>1, <1>6 DEF Sending
  <2>2. Presses(new) = Presses(s)
    BY <1>2, <2>1, CountOn
  <2>3. key \notin Ordinary \cup {"grey left"}
    BY <1>6 DEF Ordinary, MouseKeys
  <2> QED BY <2>2, <2>3
<1>7. CASE key = "grey left"
  <2>1. PICK a, b : /\ a = IF way = "down" THEN <<"lshift", "down">> ELSE <<"left", "up">>
                    /\ b = IF way = "down" THEN <<"left", "down">> ELSE <<"lshift", "up">>
    OBVIOUS
  <2>2. a \in Codes /\ b \in Codes
    BY <2>1 DEF Codes, KeyNames
  <2>3. ~Pressed(a) /\ (Pressed(b) <=> way = "down")
    BY <2>1 DEF Pressed, Ordinary, MouseKeys
  <2>4. PICK u, v : u = Append(t, a) /\ v = Append(u, e)
    OBVIOUS
  <2>5. new = Append(v, b)
    <3>1. CASE way = "down"
      BY <1>1, <1>3, <1>7, <2>1, <2>4, <3>1 DEF Sending
    <3>2. CASE way = "up"
      BY <1>1, <1>3, <1>7, <2>1, <2>4, <3>2 DEF Sending
    <3> QED BY <3>1, <3>2
  <2>6. u \in Seq(Codes) /\ Presses(u) = Presses(t)
    BY <1>4, <2>2, <2>3, <2>4, CountOn
  <2>7. v \in Seq(Codes) /\ Presses(v) = Presses(u)
    BY <1>2, <2>4, <2>6, CountOn
  <2>8. Presses(new) = IF Pressed(b) THEN Presses(v) + 1 ELSE Presses(v)
    BY <2>2, <2>5, <2>7, CountOn
  <2> QED BY <1>4, <1>7, <2>3, <2>6, <2>7, <2>8
<1>8. CASE key \notin {"rctrl", "grey left", "lctrl"}
  <2>1. PICK a : a = <<key, way>>
    OBVIOUS
  <2>2. a \in Codes /\ new = Append(s, a)
    BY <1>8, <2>1 DEF Codes, Sending
  <2>3. Pressed(a) <=> way = "down" /\ key \in Ordinary \cup {"grey left"}
    BY <1>8, <2>1 DEF Pressed
  <2>4. Presses(new) = IF Pressed(a) THEN Presses(s) + 1 ELSE Presses(s)
    BY <2>2, CountOn
  <2> QED BY <2>3, <2>4
<1> QED BY <1>5, <1>6, <1>7, <1>8

----------------------------------------------------------------------------
(* What a poll of the keyboard does *)

\* The decoder before the first code, after the mouse has left the keypad as k.
Start(k) == [raw |-> raw, pad |-> k, amstrad |-> amstrad]

\* The loop over the codes: Decoding satisfies its equation.
LEMMA DecodingTurns ==
    ASSUME keys \in Seq(Codes), NEW k
    PROVE  \E after :
              /\ after = [n \in 0 .. Len(keys) |->
                            IF n = 0 THEN Start(k) ELSE Decoded(after[n - 1], keys[n])]
              /\ Decoding(k) = after
<1>1. PICK m, codes, start : m = Len(keys) /\ codes = keys /\ start = Start(k)
  OBVIOUS
<1> DEFINE Turn(f, n) == IF n = 0 THEN start ELSE Decoded(f[n - 1], codes[n])
           Is(f, t) == f = [n \in 0 .. t |-> Turn(f, n)]
           P == {t \in 0 .. m : \E f : Is(f, t)}
<1>0. m \in Nat
  BY <1>1, LenProperties
<1>2. 0 \in P
  <2>1. Is([n \in 0 .. 0 |-> start], 0)
    OBVIOUS
  <2>2. 0 \in 0 .. m
    BY <1>0
  <2> HIDE DEF Is
  <2> QED BY <2>1, <2>2
<1>3. ASSUME NEW t \in 1 .. m, t - 1 \in P PROVE t \in P
  <2>1. PICK f : Is(f, t - 1)
    BY <1>3
  <2> DEFINE g == [n \in 0 .. t |-> IF n = t THEN Turn(f, t) ELSE f[n]]
  <2>2. Is(g, t)
    BY ONLY <1>0, <2>1, t \in 1 .. m
  <2>3. t \in 0 .. m
    BY <1>0
  <2> HIDE DEF Is, g
  <2> QED BY <2>2, <2>3
<1>4. m \in P
  <2> HIDE DEF P
  <2> QED BY <1>0, <1>2, <1>3, Turns
<1>5. PICK f : Is(f, m)
  BY <1>4
<1>6. Decoding(k) = CHOOSE g : Is(g, m)
  BY <1>1 DEF Decoding, Start
<1>7. Is(CHOOSE g : Is(g, m), m)
  <2> HIDE DEF Is
  <2> QED BY <1>5
<1> QED BY <1>1, <1>6, <1>7

\* Behind n codes the decoder has the modifiers of the track, and a button that
\* was to be shown to be up still is.
Decodes(s, x, k) == s \in Decoders /\ s.raw = x /\ (Awaited(k) => Awaited(s.pad))

LEMMA DecodingAlong ==
    ASSUME keys \in Seq(Codes), NEW f, Track(protocol, f, raw, keys), raw \in Raws,
           amstrad \in BOOLEAN, NEW k \in Pads, NEW m \in 0 .. Len(keys),
           NEW s, s = Decoding(k)[m]
    PROVE  Decodes(s, f[m], k)
<1>1. PICK g : /\ g = [n \in 0 .. Len(keys) |->
                          IF n = 0 THEN Start(k) ELSE Decoded(g[n - 1], keys[n])]
               /\ Decoding(k) = g
  BY DecodingTurns
<1>2. Len(keys) \in Nat
  BY LenProperties
<1> DEFINE P == {n \in 0 .. Len(keys) : Decodes(g[n], f[n], k)}
<1>3. 0 \in P
  <2>1. 0 \in 0 .. Len(keys) /\ g[0] = Start(k) /\ f[0] = raw
    BY <1>1, <1>2 DEF Track
  <2>2. Start(k) \in Decoders /\ Start(k).raw = raw /\ Start(k).pad = k
    BY DEF Start, Decoders
  <2> QED BY <2>1, <2>2 DEF Decodes
<1>4. ASSUME NEW n \in 1 .. m, n - 1 \in P PROVE n \in P
  <2>1. n \in 1 .. Len(keys) /\ n \in 0 .. Len(keys) /\ n # 0
    BY <1>2
  <2>2. g[n] = Decoded(g[n - 1], keys[n])
    BY <1>1, <2>1
  <2>3. f[n] = RawNext(protocol, f[n - 1], keys[n])
    BY <2>1 DEF Track
  <2>4. PICK a, b : a = g[n - 1] /\ b = g[n]
    OBVIOUS
  <2>5. a \in Decoders /\ a.raw = f[n - 1] /\ (Awaited(k) => Awaited(a.pad))
    BY <1>4, <2>4 DEF Decodes
  <2>6. b = Decoded(a, keys[n])
    BY <2>2, <2>4
  <2>7. /\ b \in Decoders /\ b.raw = RawNext(protocol, a.raw, keys[n])
        /\ Awaited(a.pad) => Awaited(b.pad)
    BY <2>5, <2>6, DecodedKeeps
  <2>8. Decodes(b, f[n], k)
    BY <2>3, <2>5, <2>7 DEF Decodes
  <2> QED BY <2>1, <2>4, <2>8
<1>5. m \in P
  <2>1. m \in Nat
    BY <1>2
  <2> HIDE DEF P
  <2> QED BY <1>3, <1>4, <2>1, Turns
<1> QED BY <1>1, <1>5

\* The codes that are left lead to where all of them did.
LEMMA RestLeads ==
    ASSUME NEW p, NEW f, NEW r, NEW s \in Seq(Codes), Track(p, f, r, s),
           NEW n \in 0 .. Len(s), NEW t, t = Rest(s, n)
    PROVE  Leads(p, f[n], t, f[Len(s)])
<1>1. PICK k : k = Len(s)
  OBVIOUS
<1>2. k \in Nat /\ n \in 0 .. k
  BY <1>1, LenProperties
<1>3. /\ t \in Seq(Codes) /\ Len(t) = k - n
      /\ \A i \in 1 .. k - n : t[i] = s[n + i]
  <2>1. Leftover(Codes, s, n, t)
    BY RestIsBehind
  <2> QED BY ONLY <1>1, <2>1 DEF Leftover
<1>4. /\ f \in [0 .. k -> Raws]
      /\ \A i \in 1 .. k : f[i] = RawNext(p, f[i - 1], s[i])
  BY <1>1 DEF Track
<1>5. PICK g : g = [i \in 0 .. k - n |-> f[n + i]]
  OBVIOUS
<1>6. g \in [0 .. k - n -> Raws]
  <2>1. ASSUME NEW i \in 0 .. k - n PROVE f[n + i] \in Raws
    <3>1. n + i \in 0 .. k
      BY <1>2
    <3> QED BY <1>4, <3>1
  <2> QED BY <1>5, <2>1
<1>7. g[0] = f[n] /\ g[k - n] = f[k]
  <2>1. 0 \in 0 .. k - n /\ k - n \in 0 .. k - n /\ n + 0 = n /\ n + (k - n) = k
    BY <1>2
  <2> QED BY <1>5, <2>1
<1>8. ASSUME NEW i \in 1 .. k - n PROVE g[i] = RawNext(p, g[i - 1], t[i])
  <2>1. /\ i \in 0 .. k - n /\ i - 1 \in 0 .. k - n /\ n + i \in 1 .. k
        /\ n + (i - 1) = (n + i) - 1
    BY <1>2
  <2>2. g[i] = f[n + i] /\ g[i - 1] = f[(n + i) - 1]
    BY <1>5, <2>1
  <2> QED BY <1>3, <1>4, <2>1, <2>2
<1>9. Track(p, g, f[n], t) /\ g[Len(t)] = f[k]
  BY <1>3, <1>6, <1>7, <1>8 DEF Track
<1> QED BY <1>1, <1>9 DEF Leads

\* The keys pressed among the first codes and among those that are left.
LEMMA CountRest ==
    ASSUME NEW s \in Seq(Codes), NEW n \in 0 .. Len(s), NEW t, t = Rest(s, n),
           NEW M, M = {i \in 1 .. n : Pressed(s[i])}
    PROVE  Presses(t) = Presses(s) - Cardinality(M)
<1>1. PICK k : k = Len(s)
  OBVIOUS
<1>2. k \in Nat /\ n \in 0 .. k
  BY <1>1, LenProperties
<1>3. /\ t \in Seq(Codes) /\ Len(t) = k - n
      /\ \A i \in 1 .. k - n : t[i] = s[n + i]
  <2>1. Leftover(Codes, s, n, t)
    BY RestIsBehind
  <2> QED BY ONLY <1>1, <2>1 DEF Leftover
<1>4. PICK N : N = {i \in n + 1 .. k : Pressed(s[i])}
  OBVIOUS
<1>5. Pressings(s) = M \cup N /\ M \cap N = {}
  <2>1. \A i : i \in 1 .. k <=> i \in 1 .. n \/ i \in n + 1 .. k
    BY <1>2
  <2>2. \A i \in 1 .. n : i \notin n + 1 .. k
    BY <1>2
  <2>3. Pressings(s) = {i \in 1 .. k : Pressed(s[i])}
    BY <1>1 DEF Pressings
  <2> QED BY <1>4, <2>1, <2>2, <2>3
<1>6. IsFiniteSet(M) /\ IsFiniteSet(N)
  BY <1>5, PressingsFinite, FS_Subset
<1>7. Cardinality(Pressings(s)) = Cardinality(M) + Cardinality(N)
  <2>1. Cardinality(M \cup N) = Cardinality(M) + Cardinality(N) - Cardinality(M \cap N)
    BY <1>6, FS_Union
  <2>2. Cardinality(M \cap N) = 0
    BY <1>5, FS_EmptySet
  <2>3. Cardinality(M) \in Nat /\ Cardinality(N) \in Nat
    BY <1>6, FS_CardinalityType
  <2> QED BY <1>5, <2>1, <2>2, <2>3
<1>8. Cardinality(N) = Cardinality(Pressings(t))
  <2>1. PICK T : T = Pressings(t)
    OBVIOUS
  <2>2. T = {i \in 1 .. k - n : Pressed(s[n + i])}
    <3>1. T = {i \in 1 .. k - n : Pressed(t[i])}
      BY <1>3, <2>1 DEF Pressings
    <3> QED BY <1>3, <3>1
  <2>3. PICK b : b = [i \in T |-> n + i]
    OBVIOUS
  <2>4. \A i \in T : b[i] = n + i /\ b[i] \in N
    <3>1. ASSUME NEW i \in T PROVE n + i \in n + 1 .. k /\ Pressed(s[n + i])
      BY <1>2, <2>2
    <3> QED BY <1>4, <2>3, <3>1
  <2>5. b \in [T -> N] /\ DOMAIN b = T
    BY <2>3, <2>4
  <2>6. \A i, j \in T : b[i] = b[j] => i = j
    <3>1. \A i \in T : i \in Int
      BY <2>2
    <3>2. ASSUME NEW i \in T, NEW j \in T, n + i = n + j PROVE i = j
      BY <1>2, <3>1, <3>2
    <3> QED BY <2>4, <3>2
  <2>7. \A y \in N : \E i \in T : b[i] = y
    <3> SUFFICES ASSUME NEW y \in N PROVE \E i \in T : b[i] = y
      OBVIOUS
    <3>1. PICK i : i = y - n
      OBVIOUS
    <3>2. i \in 1 .. k - n /\ n + i = y /\ Pressed(s[n + i])
      BY <1>2, <1>4, <3>1
    <3>3. i \in T
      BY <2>2, <3>2
    <3> QED BY <2>4, <3>2, <3>3
  <2>8. b \in Bijection(T, N)
    BY <2>5, <2>6, <2>7 DEF Bijection, Injection, IsInjective, Surjection
  <2>9. ExistsBijection(T, N)
    BY <2>8 DEF ExistsBijection
  <2>10. IsFiniteSet(T)
    BY <1>3, <2>1, PressingsFinite
  <2> QED BY <2>1, <2>9, <2>10, FS_Bijection
<1>9. Cardinality(M) \in Nat /\ Cardinality(N) \in Nat
  BY <1>6, FS_CardinalityType
<1> QED BY <1>7, <1>8, <1>9 DEF Presses

\* What the invariant says of the keyboard.
KeysInv ==
    /\ protocol \in {"ms", "amstrad", "none"} /\ held \in SUBSET KeyNames
    /\ keys \in Seq(Codes) /\ raw \in Raws
    /\ \E x : Leads(protocol, raw, keys, x) /\ Settled(held, x)
    /\ owed = Presses(keys)

\* What a poll of the keyboard leaves, the mouse having left the keypad as k.
LEMMA ReadKeyboardGood ==
    ASSUME KeysInv, amstrad \in BOOLEAN, NEW k \in Pads, ReadKeyboard(k)
    PROVE  /\ keys' \in Seq(Codes) /\ raw' \in Raws /\ pad' \in Pads /\ amstrad' \in BOOLEAN
           /\ \E x : Leads(protocol, raw', keys', x) /\ Settled(held, x)
           /\ owed' = Presses(keys')
           /\ Awaited(k) => Awaited(pad')
<1>1. keys \in Seq(Codes) /\ raw \in Raws /\ Len(keys) \in Nat /\ DOMAIN keys = 1 .. Len(keys)
  BY LenProperties DEF KeysInv
<1>2. PICK x, f : Track(protocol, f, raw, keys) /\ f[Len(keys)] = x /\ Settled(held, x)
  BY DEF KeysInv, Leads
<1>3. PICK after : after = Decoding(k)
  OBVIOUS
<1> DEFINE Ends(i) == Reported(after[i - 1].pad, keys[i])
<1>4. PICK n : n = Taken(Atmost(Len(keys), KeyBytes), Ends)
  OBVIOUS
<1>5. PICK moves, reports : /\ moves = {i \in 1 .. n : MovesMouse(after[i - 1].pad, keys[i])}
                            /\ reports = {i \in 1 .. n : i = n /\ Ends(i)}
  OBVIOUS
<1>6. /\ raw' = after[n].raw /\ pad' = after[n].pad /\ amstrad' = after[n].amstrad
      /\ keys' = Rest(keys, n)
      /\ owed' = owed - Cardinality(moves \cup reports)
  BY <1>3, <1>4, <1>5 DEF ReadKeyboard
<1>7. n \in 0 .. Len(keys) /\ \A j \in 1 .. n - 1 : ~Ends(j)
  <2>1. PICK all : all = Atmost(Len(keys), KeyBytes)
    OBVIOUS
  <2>2. all \in 0 .. Len(keys)
    BY <1>1, <2>1, InputAssumption DEF Atmost
  <2> HIDE DEF Ends
  <2>3. CASE \E i \in 1 .. all : Ends(i)
    <3> DEFINE E == {i \in 1 .. all : Ends(i)}
    <3>1. E \in SUBSET Nat /\ E # {} /\ IsFiniteSet(E)
      <4>1. E \subseteq 1 .. all /\ IsFiniteSet(1 .. all)
        BY <2>2, FS_Interval
      <4> QED BY <2>2, <2>3, <4>1, FS_Subset
    <3>2. PICK i \in E : \A j \in E : i <= j
      BY <3>1, LeastMember
    <3>3. Ends(i) /\ \A j \in 1 .. i - 1 : ~Ends(j)
      BY <2>2, <3>2
    <3>4. n = CHOOSE y \in 1 .. all : Ends(y) /\ \A j \in 1 .. y - 1 : ~Ends(j)
      BY <1>4, <2>1, <2>3 DEF Taken
    <3>5. n \in 1 .. all /\ \A j \in 1 .. n - 1 : ~Ends(j)
      BY <3>2, <3>3, <3>4
    <3> QED BY <2>2, <3>5
  <2>4. CASE ~\E i \in 1 .. all : Ends(i)
    <3>1. n = all
      BY <1>4, <2>1, <2>4 DEF Taken
    <3> QED BY <2>2, <2>4, <3>1
  <2> QED BY <2>3, <2>4
<1>8. PICK s : s = after[n]
  OBVIOUS
<1>9. s \in Decoders /\ s.raw = f[n] /\ (Awaited(k) => Awaited(s.pad))
  <2>1. Decodes(s, f[n], k)
    BY <1>1, <1>2, <1>3, <1>7, <1>8, DecodingAlong
  <2> QED BY <2>1 DEF Decodes
<1>10. raw' \in Raws /\ pad' \in Pads /\ amstrad' \in BOOLEAN /\ (Awaited(k) => Awaited(pad'))
  BY <1>6, <1>8, <1>9 DEF Decoders
<1>11. PICK t : t = Rest(keys, n)
  OBVIOUS
<1>12. Leads(protocol, f[n], t, x) /\ t \in Seq(Codes)
  <2>1. Leftover(Codes, keys, n, t)
    BY <1>1, <1>7, <1>11, RestIsBehind
  <2>2. Leads(protocol, f[n], t, f[Len(keys)])
    BY <1>1, <1>2, <1>7, <1>11, RestLeads
  <2> QED BY <1>2, <2>1, <2>2 DEF Leftover
<1>13. PICK M : M = {i \in 1 .. n : Pressed(keys[i])}
  OBVIOUS
<1>14. M = moves \cup reports
  <2>1. ASSUME NEW i \in 1 .. n
        PROVE  Pressed(keys[i]) <=> \/ MovesMouse(after[i - 1].pad, keys[i])
                                    \/ i = n /\ Ends(i)
    <3>1. i # n => i \in 1 .. n - 1
      BY <1>7
    <3>2. i # n => ~Reported(after[i - 1].pad, keys[i])
      BY <1>7, <3>1
    <3> QED BY <3>2 DEF Reported, MovesMouse
  <2> HIDE DEF Ends
  <2> QED BY <1>5, <1>13, <2>1
<1>15. Presses(t) = Presses(keys) - Cardinality(M)
  BY <1>1, <1>7, <1>11, <1>13, CountRest
<1>16. owed' = Presses(keys')
  BY <1>6, <1>11, <1>14, <1>15 DEF KeysInv
<1>17. Leads(protocol, raw', keys', x)
  BY <1>6, <1>8, <1>9, <1>11, <1>12
<1> QED BY <1>2, <1>6, <1>10, <1>11, <1>12, <1>16, <1>17

----------------------------------------------------------------------------
(* The invariant *)

InputInv == KeysInv /\ MouseInv

\* Nothing is under way and no key is down.
LEMMA InputInitInv == InputInit => InputInv
<1> SUFFICES ASSUME InputInit PROVE InputInv
  OBVIOUS
<1>1. /\ protocol \in {"ms", "amstrad", "none"} /\ held = {} /\ keys = <<>>
      /\ raw = [e0 |-> FALSE, mods |-> {}] /\ amstrad = FALSE /\ line = <<>>
      /\ packet = <<>> /\ pointer = [x |-> Xres \div 2, left |-> FALSE] /\ owed = 0
      /\ real = FALSE /\ mixed = FALSE /\ turn = 0 /\ lost = 0
  BY DEF InputInit
<1>2. keys \in Seq(Codes) /\ Len(keys) = 0
  BY <1>1, EmptySeq
<1>3. raw \in Raws
  BY <1>1 DEF Raws
<1>4. \E x : Leads(protocol, raw, keys, x) /\ Settled(held, x)
  <2>1. PICK f : f = [i \in 0 .. 0 |-> raw]
    OBVIOUS
  <2>2. Track(protocol, f, raw, keys) /\ f[Len(keys)] = raw
    BY <1>2, <1>3, <2>1 DEF Track
  <2>3. Settled(held, raw)
    BY <1>1, <1>3 DEF Settled
  <2> QED BY <2>2, <2>3 DEF Leads
<1>5. owed = Presses(keys)
  <2>1. Pressings(keys) = {}
    BY <1>2 DEF Pressings
  <2> QED BY <1>1, <2>1, FS_EmptySet DEF Presses
<1>6. KeysInv
  BY <1>1, <1>2, <1>3, <1>4, <1>5 DEF KeysInv
<1>7. line \in Seq(Bytes) /\ Len(line) = 0 /\ packet \in Seq(Bytes) /\ Len(packet) = 0
  BY <1>1, EmptySeq
<1>8. Begun(packet)
  BY <1>7 DEF Begun
<1>9. Heals(Stream(packet, line, 0), lost)
  <2>1. PICK s : s = Stream(packet, line, 0)
    OBVIOUS
  <2>2. IsStream(s, packet, line, 0)
    <3>1. 0 \in 0 .. Len(line)
      BY <1>7
    <3> QED BY <1>7, <2>1, <3>1, StreamIs
  <2>3. s \in Seq(Bytes) /\ Len(s) = 0
    BY <1>7, <2>2 DEF IsStream
  <2>4. Heals(s, lost)
    BY <2>3 DEF Heals
  <2> QED BY <2>1, <2>4
<1>10. pad \in Pads
  BY DEF InputInit, Pads
<1>11. pointer \in Pointers /\ ~pointer.left
  <2>1. Xres \in Nat \ {0}
    BY InputAssumption
  <2>2. Xres \div 2 \in 0 .. Xres - 1
    BY <2>1
  <2> QED BY <1>1, <2>2 DEF Pointers
<1>12. MouseInv
  <2>1. amstrad \in BOOLEAN /\ real \in BOOLEAN
    BY <1>1
  <2>2. turn \in {0, 1} /\ lost \in {0, 1} /\ lost <= MaxLost
    BY <1>1, InputAssumption
  <2> QED BY <1>1, <1>7, <1>8, <1>9, <1>10, <1>11, <2>1, <2>2 DEF MouseInv
<1> QED BY <1>6, <1>12 DEF InputInv

\* The keys of a mouse are keys.
LEMMA KeysAreKeys ==
    ASSUME KeysInv, NEW key \in Keys[protocol]
    PROVE  key \in KeyNames
BY InputAssumption DEF KeysInv

\* A key goes down or up.
LEMMA KeyMoves ==
    ASSUME InputInv, NEW key \in Keys[protocol], KeyDown(key) \/ KeyUp(key)
    PROVE  InputInv'
<1>1. key \in KeyNames
  BY KeysAreKeys DEF InputInv
<1>2. /\ protocol \in {"ms", "amstrad", "none"} /\ held \in SUBSET KeyNames
      /\ keys \in Seq(Codes) /\ raw \in Raws /\ owed = Presses(keys)
  BY DEF InputInv, KeysInv
<1>3. PICK x : Leads(protocol, raw, keys, x) /\ Settled(held, x)
  BY DEF InputInv, KeysInv
<1>4. PICK way : way = IF key \notin held THEN "down" ELSE "up"
  OBVIOUS
<1>5. /\ way \in {"down", "up"}
      /\ held' = IF way = "down" THEN held \cup {key} ELSE held \ {key}
      /\ keys' = keys \o Sends(key, way)
      /\ owed' = IF way = "down" /\ key \in Ordinary \cup {"grey left"} THEN owed + 1 ELSE owed
  BY <1>4 DEF KeyDown, KeyUp
<1>6. UNCHANGED <<protocol, raw, pad, amstrad, line, packet, pointer, real, mixed, turn, lost>>
  BY DEF KeyDown, KeyUp
<1>7. Sending(keys, key, way, keys')
  <2>1. PICK new : new = keys'
    OBVIOUS
  <2>2. Sending(keys, key, way, new)
    BY <1>1, <1>2, <1>5, <2>1, SendsOn
  <2> QED BY <2>1, <2>2
<1>8. \E y : Leads(protocol, raw, keys', y) /\ Settled(held', y)
  <2>1. PICK p, r, s, new, h, i : /\ p = protocol /\ r = raw /\ s = keys /\ new = keys'
                                  /\ h = held /\ i = held'
    OBVIOUS
  <2>2. /\ s \in Seq(Codes) /\ Leads(p, r, s, x) /\ Settled(h, x)
        /\ Sending(s, key, way, new)
    BY <1>2, <1>3, <1>7, <2>1
  <2>3. i = IF way = "down" THEN h \cup {key} ELSE h \ {key}
    BY <1>5, <2>1
  <2>4. way \in {"down", "up"}
    BY <1>5
  <2>5. Settles(p, r, new, i)
    BY ONLY <1>1, <2>2, <2>3, <2>4, SendsSettle
  <2> QED BY <2>1, <2>5 DEF Settles
<1>9. keys' \in Seq(Codes) /\ owed' = Presses(keys')
  <2>1. PICK s, new : s = keys /\ new = keys'
    OBVIOUS
  <2>2. s \in Seq(Codes) /\ Sending(s, key, way, new)
    BY <1>2, <1>7, <2>1
  <2>3. way \in {"down", "up"}
    BY <1>5
  <2>4. Counts(s, key, way, new)
    BY ONLY <1>1, <2>2, <2>3, SendsCount
  <2>5. new \in Seq(Codes)
    BY <2>2 DEF Sending
  <2> QED BY <1>2, <1>5, <2>1, <2>4, <2>5 DEF Counts
<1>10. held' \in SUBSET KeyNames
  BY <1>1, <1>2, <1>5
<1>11. KeysInv'
  BY <1>2, <1>6, <1>8, <1>9, <1>10 DEF KeysInv
<1>12. MouseInv'
  BY <1>6 DEF InputInv, MouseInv
<1> QED BY <1>11, <1>12 DEF InputInv

\* The mouse sends a packet.
LEMMA MouseMoves ==
    ASSUME InputInv, NEW move \in Moves, NEW left \in BOOLEAN, NEW drop \in 0 .. 3,
           MouseSends(move, left, drop)
    PROVE  InputInv'
<1>1. /\ line \in Seq(Bytes) /\ Begun(packet) /\ Heals(Stream(packet, line, 0), lost)
      /\ turn \in {0, 1} /\ lost \in {0, 1} /\ lost <= MaxLost /\ packet \in Seq(Bytes)
  BY DEF InputInv, MouseInv, Begun
<1>2. PICK t : t = RemoveAt(Packet(move, left, turn), drop)
  OBVIOUS
<1>3. /\ line' = line \o t
      /\ lost' = IF drop > 0 THEN lost + 1 ELSE lost
      /\ turn' = 1 - turn
      /\ drop > 0 => lost < MaxLost
      /\ UNCHANGED <<protocol, held, keys, raw, pad, amstrad, packet, pointer, owed, real, mixed>>
  BY <1>2 DEF MouseSends, Packet
<1>4. Sent(t, drop)
  <2>1. move \in Int
    BY InputAssumption
  <2> QED BY <1>1, <1>2, <2>1, PacketIsSent
<1>5. MaxLost \in {0, 1}
  BY InputAssumption
<1>6. (drop > 0 => lost = 0) /\ lost' \in {0, 1} /\ lost' <= MaxLost
  BY <1>1, <1>3, <1>5
<1>7. line' \in Seq(Bytes) /\ Heals(Stream(packet, line', 0), lost')
  <2>1. PICK new, k : new = line' /\ k = lost'
    OBVIOUS
  <2>2. new \in Seq(Bytes) /\ Heals(Stream(packet, new, 0), k)
    BY <1>1, <1>3, <1>4, <1>6, <2>1, LineHeals
  <2> QED BY <2>1, <2>2
<1>8. turn' \in {0, 1}
  BY <1>1, <1>3
<1>9. MouseInv'
  BY <1>1, <1>3, <1>6, <1>7, <1>8 DEF InputInv, MouseInv
<1>10. KeysInv'
  BY <1>3 DEF InputInv, KeysInv
<1> QED BY <1>9, <1>10 DEF InputInv

\* gem_vdi_resident_poll_input
LEMMA PollMoves ==
    ASSUME InputInv, NEW counted \in Int, PollInput(counted)
    PROVE  InputInv'
<1>1. PICK s : s = ReadMouse(counted)
  OBVIOUS
<1>2. /\ packet' = s.packet /\ pointer' = s.pointer /\ real' = s.real /\ mixed' = s.mixed
      /\ line' = s.line /\ ReadKeyboard(s.pad)
      /\ UNCHANGED <<protocol, held, turn, lost>>
  BY <1>1 DEF PollInput
<1>3. Good(s, s.line, 0, lost) /\ s.line \in Seq(Bytes)
  BY <1>1, ReadMouseGood DEF InputInv
<1>4. /\ s \in Mice /\ ~s.mixed /\ Begun(s.packet)
      /\ s.pointer.left => s.real \/ s.pad.button \/ s.pad.event
      /\ Heals(Stream(s.packet, s.line, 0), lost)
  BY <1>3 DEF Good
<1>5. /\ s.pad \in Pads /\ s.pointer \in Pointers /\ s.real \in BOOLEAN /\ s.mixed = FALSE
  BY <1>4 DEF Mice
<1>6. PICK k : k = s.pad
  OBVIOUS
<1>7. /\ keys' \in Seq(Codes) /\ raw' \in Raws /\ pad' \in Pads /\ amstrad' \in BOOLEAN
      /\ \E x : Leads(protocol, raw', keys', x) /\ Settled(held, x)
      /\ owed' = Presses(keys')
      /\ Awaited(k) => Awaited(pad')
  <2>1. k \in Pads /\ ReadKeyboard(k) /\ KeysInv /\ amstrad \in BOOLEAN
    BY <1>2, <1>5, <1>6 DEF InputInv, MouseInv
  <2> QED BY <2>1, ReadKeyboardGood
<1>8. KeysInv'
  BY <1>2, <1>7 DEF InputInv, KeysInv
<1>9. pointer'.left => real' \/ pad'.button \/ pad'.event
  BY <1>2, <1>4, <1>6, <1>7 DEF Awaited
<1>10. MouseInv'
  BY <1>2, <1>3, <1>4, <1>5, <1>7, <1>9 DEF InputInv, MouseInv
<1> QED BY <1>8, <1>10 DEF InputInv

\* Every step keeps the invariant.
LEMMA InputStep == InputInv /\ [InputNext]_inputVars => InputInv'
<1> SUFFICES ASSUME InputInv, [InputNext]_inputVars PROVE InputInv'
  OBVIOUS
<1>1. CASE \E key \in Keys[protocol] : KeyDown(key) \/ KeyUp(key)
  BY <1>1, KeyMoves
<1>2. CASE \E move \in Moves, left \in BOOLEAN, drop \in 0 .. 3 : MouseSends(move, left, drop)
  BY <1>2, MouseMoves
<1>3. CASE \E counted \in (IF protocol = "amstrad" THEN Moves ELSE {0}) : PollInput(counted)
  <2>1. PICK counted \in (IF protocol = "amstrad" THEN Moves ELSE {0}) : PollInput(counted)
    BY <1>3
  <2>2. counted \in Int
    BY <2>1, InputAssumption
  <2> QED BY <2>1, <2>2, PollMoves
<1>4. CASE UNCHANGED inputVars
  BY <1>4 DEF inputVars, InputInv, KeysInv, MouseInv
<1> QED BY <1>1, <1>2, <1>3, <1>4 DEF InputNext

\* The invariant says what the run checks.
LEMMA InputInvIsSafe == InputInv => InputSafety
<1> SUFFICES ASSUME InputInv PROVE InputSafety
  OBVIOUS
<1>1. PacketsAreWhole /\ NoButtonIsLeftDown
  BY DEF InputInv, MouseInv, PacketsAreWhole, NoButtonIsLeftDown
<1>2. PointerIsOnScreen
  BY DEF InputInv, MouseInv, Pointers, PointerIsOnScreen
<1>3. NoKeyIsLost
  <2>1. DOMAIN keys = 1 .. Len(keys)
    BY LenProperties DEF InputInv, KeysInv
  <2> QED BY <2>1 DEF InputInv, KeysInv, Presses, Pressings, NoKeyIsLost
<1>4. ModifiersFollowKeys
  <2> SUFFICES ASSUME keys = <<>>
               PROVE  /\ ~raw.e0
                      /\ raw.mods \cap {"lshift", "rshift"} = held \cap {"lshift", "rshift"}
                      /\ "ctrl" \in raw.mods => held \cap {"lctrl", "rctrl"} # {}
    BY DEF ModifiersFollowKeys
  <2>1. Len(keys) = 0
    BY EmptySeq DEF InputInv, KeysInv
  <2>2. PICK x, f : Track(protocol, f, raw, keys) /\ f[Len(keys)] = x /\ Settled(held, x)
    BY DEF InputInv, KeysInv, Leads
  <2>3. raw = x
    BY <2>1, <2>2 DEF Track
  <2> QED BY <2>2, <2>3 DEF Settled
<1> QED BY <1>1, <1>2, <1>3, <1>4 DEF InputSafety

\* gem_vdi_resident_poll_input: whatever keys and buttons are used, whatever the
\* size of the buffers and of the screen, and with at most one byte of the mouse
\* lost: no movement is put together from two packets, the modifiers are those of
\* the keys that are down, no button is left down, the pointer is on the screen,
\* and no key is lost.
THEOREM InputIsSafe == InputSpec => []InputSafety
<1>1. InputInit => InputInv
  BY InputInitInv
<1>2. InputInv /\ [InputNext]_inputVars => InputInv'
  BY InputStep
<1>3. InputInv => InputSafety
  BY InputInvIsSafe
<1> QED BY <1>1, <1>2, <1>3, PTL DEF InputSpec
=============================================================================
