--------------------------- MODULE GemScreenProofs ---------------------------
(***************************************************************************)
(* Forms and trackers, for any number of clients, any dialogs, trackers    *)
(* and animations, and a screen of any width; at the end, the update lock  *)
(* they hold.                                                              *)
(*                                                                         *)
(* The handlers of a form are operators on a record S, the form and the    *)
(* tree of one client.  The first half says of each of them that it keeps  *)
(* a good S good and that a form it ends has ended at an exit.  The rest   *)
(* is about who holds what.  The invariant adds to the properties the run  *)
(* checks that an outline is only shown for a tracker that draws; as such  *)
(* a tracker owns the screen, there is never more than one.                *)
(***************************************************************************)
EXTENDS GemScreen, GemUpdateLock, GemFifoProofs, SequenceTheorems, TLAPS

States == {"sel", "hi", "dis"}

\* The objects of a tree that are no radio buttons: no others are a default.
Plain(a) == {o \in ObjectsOf(a) : "radio" \notin Flags[a][o]}

DoForms(a) ==
    [kind : {"free", "do"}, edit : ObjectsOf(a), index : Nat,
     pressed : ObjectsOf(a) \cup {Nil}, before : SUBSET States, down : BOOLEAN,
     saved : Plain(a) \cup {Root}, ended : BOOLEAN, result : ObjectsOf(a)]

Looks(a) == [ObjectsOf(a) -> SUBSET States]
Texts(a) == [ObjectsOf(a) -> 0 .. Limit - 1]

\* At most one radio button of a box is selected.
Single(a, states) ==
    \A o, p \in ObjectsOf(a) :
        /\ "radio" \in Flags[a][o] \cap Flags[a][p] /\ o # p
        /\ Parent[a][o] = Parent[a][p]
        => ~("sel" \in states[o] /\ "sel" \in states[p])

\* A form and a tree as the handlers find them and leave them.
Good(S) ==
    /\ S.a \in Apps
    /\ S \in [a : {S.a}, f : DoForms(S.a), look : Looks(S.a), def : SUBSET Plain(S.a),
              text : Texts(S.a)]
    /\ S.f.index <= S.text[S.f.edit]
    /\ Single(S.a, S.look)

\* The same form of the same client, a step later.
After(S, T) ==
    /\ Good(T) /\ T.a = S.a
    /\ T.f.kind = S.f.kind /\ T.f.saved = S.f.saved

Exits(S) ==
    LET o == S.f.result
    IN  /\ \/ "touch" \in Flags[S.a][o]
           \/ "exit" \in Flags[S.a][o] /\ "sel" \in S.look[o]
        /\ S.f.saved # Root => S.f.saved \in S.def

-----------------------------------------------------------------------------
(* Looking for objects *)

LEMMA ObjectsTyped ==
    ASSUME NEW a \in Apps
    PROVE  \E n \in Nat : ObjectsOf(a) = 0 .. n
<1>1. /\ 0 \in ObjectsOf(a) /\ IsFiniteSet(ObjectsOf(a))
      /\ ObjectsOf(a) = 0 .. Cardinality(ObjectsOf(a)) - 1
  BY FormAssumption DEF ObjectsOf
<1>2. Cardinality(ObjectsOf(a)) \in Nat
  BY <1>1, FS_CardinalityType
<1>3. Cardinality(ObjectsOf(a)) - 1 \in Nat
  BY <1>1, <1>2
<1> QED BY <1>1, <1>3

LEMMA FoundTyped ==
    ASSUME NEW a \in Apps, NEW E \in SUBSET ObjectsOf(a), NEW none
    PROVE  Lowest(E, none) \in E \cup {none} /\ Highest(E, none) \in E \cup {none}
<1>1. PICK n \in Nat : ObjectsOf(a) = 0 .. n
  BY ObjectsTyped
<1>2. CASE E = {}
  BY <1>2 DEF Lowest, Highest
<1>3. CASE E # {}
  <2>1. E \in SUBSET (0 .. n) /\ E \in SUBSET Nat
    BY <1>1
  <2>2. IsFiniteSet(0 .. n)
    BY FS_Interval, 0 \in Int
  <2>3. IsFiniteSet(E)
    BY ONLY <2>1, <2>2, FS_Subset
  <2>4. \E j \in E : \A k \in E : j <= k
    BY ONLY <1>3, <2>1, <2>3, LeastMember
  <2>5. \E j \in E : \A k \in E : k <= j
    BY ONLY <1>3, <2>1, GreatestMember
  <2> QED BY <1>3, <2>4, <2>5 DEF Lowest, Highest
<1> QED BY <1>2, <1>3

\* What the searches of a form find is an object, or where they have begun.
LEMMA SearchTyped ==
    ASSUME NEW S, Good(S), NEW o \in ObjectsOf(S.a), NEW flag
    PROVE  /\ FindForward(S, o, flag) \in ObjectsOf(S.a)
           /\ FindBackward(S, o, flag) \in ObjectsOf(S.a)
           /\ FindDefault(S, o) \in S.def \cup {o}
           /\ FocusForward(S, o) \in ObjectsOf(S.a)
           /\ FocusBackward(S, o) \in ObjectsOf(S.a)
<1>1. S.a \in Apps /\ Objects(S) = ObjectsOf(S.a)
  BY DEF Good, Objects, Looks
<1>2. FindForward(S, o, flag) \in ObjectsOf(S.a)
  <2>1. {j \in Objects(S) : j > o /\ Usable(S, j) /\ Is(S, j, flag)} \in SUBSET ObjectsOf(S.a)
    BY <1>1
  <2> QED BY <1>1, <2>1, FoundTyped DEF FindForward
<1>3. FindBackward(S, o, flag) \in ObjectsOf(S.a)
  <2>1. {j \in Objects(S) : j < o /\ Usable(S, j) /\ Is(S, j, flag)} \in SUBSET ObjectsOf(S.a)
    BY <1>1
  <2> QED BY <1>1, <2>1, FoundTyped DEF FindBackward
<1>4. FindDefault(S, o) \in S.def \cup {o}
  <2>1. {j \in Objects(S) : Usable(S, j) /\ j \in S.def} \in SUBSET ObjectsOf(S.a)
    BY <1>1
  <2>2. FindDefault(S, o) \in {j \in Objects(S) : Usable(S, j) /\ j \in S.def} \cup {o}
    BY <1>1, <2>1, FoundTyped DEF FindDefault
  <2> QED BY <2>2
<1>5. PICK E : E = Focusable(S, o)
  OBVIOUS
<1>6. E \in SUBSET ObjectsOf(S.a)
  BY <1>1, <1>5 DEF Focusable
<1>7. Lowest(E, o) \in ObjectsOf(S.a) /\ Highest(E, o) \in ObjectsOf(S.a)
  BY <1>1, <1>6, FoundTyped
<1>8. FocusForward(S, o) \in ObjectsOf(S.a)
  <2>1. {j \in E : j > o} \in SUBSET ObjectsOf(S.a)
    BY <1>6
  <2>2. Lowest({j \in E : j > o}, Lowest(E, o)) \in {j \in E : j > o} \cup {Lowest(E, o)}
    BY <1>1, <2>1, FoundTyped
  <2> QED BY <1>5, <1>6, <1>7, <2>2 DEF FocusForward
<1>9. FocusBackward(S, o) \in ObjectsOf(S.a)
  <2>1. {j \in E : j < o} \in SUBSET ObjectsOf(S.a)
    BY <1>6
  <2>2. Highest({j \in E : j < o}, Highest(E, o)) \in {j \in E : j < o} \cup {Highest(E, o)}
    BY <1>1, <2>1, FoundTyped
  <2> QED BY <1>5, <1>6, <1>7, <2>2 DEF FocusBackward
<1> QED BY <1>2, <1>3, <1>4, <1>8, <1>9

-----------------------------------------------------------------------------
(* The handlers of a form *)

\* The same objects are selected.
SameChoice(a, lk, mk) == \A j \in ObjectsOf(a) : "sel" \in lk[j] <=> "sel" \in mk[j]

\* gem_form_field_cursor changes the highlight and the default, and nothing
\* of what is selected.
LEMMA CursorAfter ==
    ASSUME NEW S, Good(S), NEW o \in ObjectsOf(S.a), NEW on \in BOOLEAN,
           NEW T, T = Cursor(S, o, on)
    PROVE  /\ After(S, T) /\ T.f = S.f /\ T.text = S.text
           /\ SameChoice(S.a, T.look, S.look)
<1>1. /\ S.a \in Apps /\ S.look \in Looks(S.a) /\ S.def \subseteq Plain(S.a)
      /\ S.f \in DoForms(S.a) /\ S.text \in Texts(S.a)
  BY DEF Good
<1>2. "exit" \in Flags[S.a][o] => o \in Plain(S.a)
  BY <1>1, RadioAssumption DEF Plain, ObjectsOf
<1>3. CASE T = S
  BY <1>3 DEF After, SameChoice
<1>4. CASE T # S
  <2>1. PICK lk : lk = [S.look EXCEPT ![o] = IF on THEN S.look[o] \cup {"hi"} ELSE S.look[o] \ {"hi"}]
    OBVIOUS
  <2>2. PICK d : d = IF "exit" \in Flags[S.a][o]
                     THEN (IF on THEN S.def \cup {o} ELSE S.def \ {o}) ELSE S.def
    OBVIOUS
  <2>3. T = [S EXCEPT !.look = lk, !.def = d]
    BY <1>4, <2>1, <2>2 DEF Cursor, Is, Good
  <2>4. lk \in Looks(S.a) /\ d \in SUBSET Plain(S.a)
    BY <1>1, <1>2, <2>1, <2>2 DEF Looks, States
  <2>5. \A j \in ObjectsOf(S.a) : "sel" \in lk[j] <=> "sel" \in S.look[j]
    BY <1>1, <2>1 DEF Looks
  <2>6. /\ T.a = S.a /\ T.f = S.f /\ T.look = lk /\ T.def = d /\ T.text = S.text
        /\ T \in [a : {S.a}, f : DoForms(S.a), look : Looks(S.a), def : SUBSET Plain(S.a),
                  text : Texts(S.a)]
    BY <2>3, <2>4 DEF Good
  <2>7. Single(S.a, lk)
    BY <2>5 DEF Good, Single
  <2>8. Good(T)
    BY <2>6, <2>7 DEF Good
  <2> QED BY <2>5, <2>6, <2>8 DEF After, SameChoice
<1> QED BY <1>3, <1>4

\* gem_form_edit: a text stays in its buffer, and the cursor in the text.
LEMMA EditedTyped ==
    ASSUME NEW n \in 0 .. Limit - 1, NEW i \in Nat, NEW key,
           NEW e, e = Edited(n, i, key)
    PROVE  e[1] \in 0 .. Limit - 1 /\ e[2] \in 0 .. e[1]
<1>1. Limit \in Nat \ {0}
  BY FormAssumption
<1>2. PICK at : at = IF i > n THEN n ELSE i
  OBVIOUS
<1>3. at \in 0 .. n
  BY <1>2
<1>4. \/ e = <<n, n>>
      \/ at > 0 /\ e = <<n - 1, at - 1>>
      \/ at < n /\ e = <<n - 1, at>>
      \/ at > 0 /\ e = <<n, at - 1>>
      \/ at < n /\ e = <<n, at + 1>>
      \/ n + 1 < Limit /\ e = <<n + 1, at + 1>>
      \/ e = <<n, at>>
  BY <1>2 DEF Edited
<1> QED BY <1>1, <1>3, <1>4

LEMMA EditAfter ==
    ASSUME NEW S, Good(S), NEW key
    PROVE  /\ After(S, Edit(S, key)) /\ Edit(S, key).f.ended = S.f.ended
<1>1. PICK o : o = S.f.edit
  OBVIOUS
<1>2. /\ S.a \in Apps /\ S.f \in DoForms(S.a) /\ S.text \in Texts(S.a)
      /\ o \in ObjectsOf(S.a) /\ S.text[o] \in 0 .. Limit - 1 /\ S.f.index \in Nat
  BY <1>1 DEF Good, DoForms, Texts
<1>3. PICK e : e = Edited(S.text[o], S.f.index, key)
  OBVIOUS
<1>4. e[1] \in 0 .. Limit - 1 /\ e[2] \in 0 .. e[1]
  BY <1>2, <1>3, EditedTyped
<1>5. PICK T : T = Edit(S, key)
  OBVIOUS
<1>6. PICK tx : tx = [S.text EXCEPT ![o] = e[1]]
  OBVIOUS
<1>7. PICK f : f = [S.f EXCEPT !.index = e[2]]
  OBVIOUS
<1>8. T = [S EXCEPT !.text = tx, !.f = f]
  BY <1>1, <1>3, <1>5, <1>6, <1>7 DEF Edit, Good
<1>9. tx \in Texts(S.a) /\ tx[o] = e[1]
  BY <1>2, <1>4, <1>6 DEF Texts
<1>10. e[2] \in Nat /\ e[2] <= e[1]
  BY <1>4
<1>11. /\ f \in DoForms(S.a) /\ f.edit = o /\ f.index = e[2] /\ f.kind = S.f.kind
       /\ f.saved = S.f.saved /\ f.ended = S.f.ended
  BY <1>1, <1>2, <1>7, <1>10 DEF DoForms
<1>12. /\ T.a = S.a /\ T.f = f /\ T.look = S.look /\ T.def = S.def /\ T.text = tx
       /\ T \in [a : {S.a}, f : DoForms(S.a), look : Looks(S.a), def : SUBSET Plain(S.a),
                 text : Texts(S.a)]
  BY <1>8, <1>9, <1>11 DEF Good
<1>13. Good(T)
  BY <1>9, <1>10, <1>11, <1>12 DEF Good
<1> QED BY <1>5, <1>11, <1>12, <1>13 DEF After

\* gem_form_switch_field
LEMMA SwitchFieldAfter ==
    ASSUME NEW S, Good(S), NEW o
    PROVE  /\ After(S, SwitchField(S, o)) /\ SwitchField(S, o).f.ended = S.f.ended
<1>1. /\ S.a \in Apps /\ S.f \in DoForms(S.a) /\ S.text \in Texts(S.a)
      /\ S.f.edit \in ObjectsOf(S.a) /\ Objects(S) = ObjectsOf(S.a)
  BY DEF Good, DoForms, Objects, Looks
<1>2. CASE o <= Root \/ o \notin Objects(S) \/ o = S.f.edit
  BY <1>2 DEF SwitchField, After
<1>3. CASE ~(o <= Root \/ o \notin Objects(S) \/ o = S.f.edit)
  <2>1. PICK off : off = IF S.f.edit > Root THEN Cursor(S, S.f.edit, FALSE) ELSE S
    OBVIOUS
  <2>2. Good(off) /\ off.f = S.f /\ off.text = S.text /\ off.a = S.a
    <3>1. CASE S.f.edit > Root
      BY <1>1, <2>1, <3>1, CursorAfter DEF After
    <3>2. CASE ~(S.f.edit > Root)
      BY <2>1, <3>2
    <3> QED BY <3>1, <3>2
  <2>3. PICK i : i = IF Is(S, o, "edit") THEN S.text[o] ELSE 0
    OBVIOUS
  <2>4. o \in ObjectsOf(S.a) /\ S.text[o] \in Nat /\ i \in Nat /\ i <= S.text[o]
    BY <1>1, <1>3, <2>3 DEF Texts
  <2>5. PICK f : f = [off.f EXCEPT !.edit = o, !.index = i]
    OBVIOUS
  <2>6. /\ f \in DoForms(S.a) /\ f.edit = o /\ f.index = i /\ f.kind = S.f.kind
        /\ f.saved = S.f.saved /\ f.ended = S.f.ended
    BY <1>1, <2>2, <2>4, <2>5 DEF DoForms
  <2>7. PICK moved : moved = [off EXCEPT !.f = f]
    OBVIOUS
  <2>8. /\ moved.a = S.a /\ moved.f = f /\ moved.look = off.look /\ moved.text = S.text
        /\ moved \in [a : {S.a}, f : DoForms(S.a), look : Looks(S.a), def : SUBSET Plain(S.a),
                      text : Texts(S.a)]
    BY <2>2, <2>6, <2>7 DEF Good
  <2>9. Good(moved)
    BY <1>1, <2>2, <2>4, <2>6, <2>8 DEF Good
  <2>10. SwitchField(S, o) = Cursor(moved, o, TRUE)
    <3>1. moved = [off EXCEPT !.f.edit = o, !.f.index = i]
      BY <2>2, <2>5, <2>7 DEF Good
    <3> QED BY <1>3, <2>1, <2>3, <3>1 DEF SwitchField
  <2>11. After(moved, Cursor(moved, o, TRUE)) /\ Cursor(moved, o, TRUE).f = f
    BY <2>4, <2>8, <2>9, CursorAfter
  <2> QED BY <2>6, <2>8, <2>10, <2>11 DEF After
<1> QED BY <1>2, <1>3

\* gem_form_finish: the default the form had at first is marked again.
LEMMA FinishAfter ==
    ASSUME NEW S, Good(S), NEW out \in ObjectsOf(S.a),
           \/ "touch" \in Flags[S.a][out]
           \/ "exit" \in Flags[S.a][out] /\ "sel" \in S.look[out],
           NEW T, T = Finish(S, out)
    PROVE  After(S, T) /\ T.f.ended /\ Exits(T)
<1>1. /\ S.a \in Apps /\ S.f \in DoForms(S.a) /\ S.f.edit \in ObjectsOf(S.a)
  BY DEF Good, DoForms
<1>2. PICK off : off = IF S.f.edit > Root THEN Cursor(S, S.f.edit, FALSE) ELSE S
  OBVIOUS
<1>3. /\ Good(off) /\ off.f = S.f /\ off.text = S.text /\ off.a = S.a
      /\ SameChoice(S.a, off.look, S.look)
  <2>1. CASE S.f.edit > Root
    BY <1>1, <1>2, <2>1, CursorAfter DEF After
  <2>2. CASE ~(S.f.edit > Root)
    BY <1>2, <2>2 DEF SameChoice
  <2> QED BY <2>1, <2>2
<1>4. PICK d : d = IF S.f.saved > Root THEN off.def \cup {S.f.saved} ELSE off.def
  OBVIOUS
<1>5. PICK f : f = [off.f EXCEPT !.ended = TRUE, !.result = out, !.pressed = Nil]
  OBVIOUS
<1>6. T = [off EXCEPT !.def = d, !.f = f]
  BY <1>2, <1>3, <1>4, <1>5 DEF Finish, Good
<1>7. /\ f \in DoForms(S.a) /\ f.kind = S.f.kind /\ f.saved = S.f.saved /\ f.edit = S.f.edit
      /\ f.index = S.f.index /\ f.ended /\ f.result = out
  BY <1>1, <1>3, <1>5 DEF DoForms
<1>8. PICK n \in Nat : ObjectsOf(S.a) = 0 .. n
  BY <1>1, ObjectsTyped
<1>9. S.f.saved \in Plain(S.a) \cup {Root} /\ S.f.saved \in ObjectsOf(S.a)
  BY <1>1, <1>8 DEF DoForms, Plain, Root
<1>10. S.f.saved # Root => S.f.saved > Root
  BY <1>8, <1>9 DEF Root
<1>11. d \in SUBSET Plain(S.a) /\ (S.f.saved # Root => S.f.saved \in d)
  <2>1. off.def \subseteq Plain(S.a)
    BY <1>3 DEF Good
  <2>2. CASE S.f.saved = Root
    <3>1. d = off.def
      BY <1>4, <2>2 DEF Root
    <3> QED BY <2>1, <2>2, <3>1
  <2>3. CASE S.f.saved # Root
    BY <1>4, <1>9, <1>10, <2>1, <2>3
  <2> QED BY <2>2, <2>3
<1>12. /\ T.a = S.a /\ T.f = f /\ T.look = off.look /\ T.def = d /\ T.text = S.text
       /\ T \in [a : {S.a}, f : DoForms(S.a), look : Looks(S.a), def : SUBSET Plain(S.a),
                 text : Texts(S.a)]
  BY <1>3, <1>6, <1>7, <1>11 DEF Good
<1>13. Good(T)
  BY <1>3, <1>7, <1>12 DEF Good
<1>14. Exits(T)
  BY <1>3, <1>7, <1>11, <1>12 DEF Exits, SameChoice
<1> QED BY <1>7, <1>12, <1>13, <1>14 DEF After

\* A tree that looks different, and no radio button too many.
LEMMA LookAfter ==
    ASSUME NEW S, Good(S), NEW lk \in Looks(S.a), Single(S.a, lk),
           NEW T, T = [S EXCEPT !.look = lk]
    PROVE  After(S, T) /\ T.f = S.f /\ T.look = lk
<1>1. /\ T.a = S.a /\ T.f = S.f /\ T.look = lk /\ T.def = S.def /\ T.text = S.text
      /\ T \in [a : {S.a}, f : DoForms(S.a), look : Looks(S.a), def : SUBSET Plain(S.a),
                text : Texts(S.a)]
  BY DEF Good
<1>2. Good(T)
  BY <1>1 DEF Good
<1> QED BY <1>1, <1>2 DEF After

WithLook(S, o, states) == [S EXCEPT !.look[o] = states]

LEMMA PlainLookAfter ==
    ASSUME NEW S, Good(S), NEW o \in Plain(S.a), NEW states \in SUBSET States,
           NEW T, T = WithLook(S, o, states)
    PROVE  After(S, T) /\ T.f = S.f /\ T.look[o] = states
<1>1. PICK lk : lk = [S.look EXCEPT ![o] = states]
  OBVIOUS
<1>2. S.look \in Looks(S.a) /\ Single(S.a, S.look) /\ o \in ObjectsOf(S.a)
  BY DEF Good, Plain
<1>3. lk \in Looks(S.a) /\ lk[o] = states /\ \A j \in ObjectsOf(S.a) \ {o} : lk[j] = S.look[j]
  BY <1>1, <1>2 DEF Looks
<1>4. "radio" \notin Flags[S.a][o]
  BY DEF Plain
<1>5. Single(S.a, lk)
  BY <1>2, <1>3, <1>4 DEF Single
<1>6. T = [S EXCEPT !.look = lk]
  BY <1>1 DEF Good, WithLook
<1>7. After(S, T) /\ T.f = S.f /\ T.look = lk
  BY ONLY Good(S), <1>3, <1>5, <1>6, LookAfter
<1> QED BY <1>3, <1>7

\* Of the radio buttons beside it only the one chosen is selected.
LEMMA RadioAfter ==
    ASSUME NEW S, Good(S), NEW o \in ObjectsOf(S.a), NEW T, T = Radio(S, o)
    PROVE  After(S, T) /\ T.f = S.f
<1>1. /\ S.a \in Apps /\ S.look \in Looks(S.a) /\ Single(S.a, S.look)
      /\ Objects(S) = ObjectsOf(S.a)
  BY DEF Good, Objects, Looks
<1>2. PICK lk : lk = [j \in ObjectsOf(S.a) |->
                        IF Parent[S.a][j] # Parent[S.a][o] \/ ~("radio" \in Flags[S.a][j]) THEN S.look[j]
                        ELSE IF j = o THEN S.look[j] \cup {"sel"} ELSE S.look[j] \ {"sel"}]
  OBVIOUS
<1>3. T = [S EXCEPT !.look = lk]
  BY <1>1, <1>2 DEF Radio, Is
<1>4. lk \in Looks(S.a)
  BY <1>1, <1>2 DEF Looks, States
<1>5. Single(S.a, lk)
  BY <1>1, <1>2 DEF Single
<1> QED BY <1>3, <1>4, <1>5, LookAfter

\* gem_form_button says that a form is over only at a TOUCHEXIT or at an EXIT
\* that is selected.
LEMMA ButtonAfter ==
    ASSUME NEW S, Good(S), NEW o \in ObjectsOf(S.a), NEW previewed \in BOOLEAN,
           NEW r, r = Button(S, o, previewed)
    PROVE  /\ After(S, r.S) /\ r.S.f = S.f /\ r.on \in BOOLEAN
           /\ r.out \in ObjectsOf(S.a)
           /\ ~r.on => \/ "touch" \in Flags[S.a][r.out]
                       \/ "exit" \in Flags[S.a][r.out] /\ "sel" \in r.S.look[r.out]
<1>1. S.a \in Apps /\ S.look \in Looks(S.a) /\ Root \in ObjectsOf(S.a)
  BY FormAssumption DEF Good, Root, ObjectsOf
<1>2. PICK chosen : chosen = IF ~Is(S, o, "sel") \/ "dis" \in S.look[o] THEN S
                             ELSE IF Is(S, o, "radio") THEN Radio(S, o)
                             ELSE IF previewed THEN S
                             ELSE [S EXCEPT !.look[o] = Toggled(S.look[o])]
  OBVIOUS
<1>3. After(S, chosen) /\ chosen.f = S.f
  <2>1. CASE chosen = S
    BY <2>1 DEF After
  <2>2. CASE chosen = Radio(S, o)
    BY <2>2, RadioAfter
  <2>3. CASE ~Is(S, o, "radio") /\ chosen = [S EXCEPT !.look[o] = Toggled(S.look[o])]
    <3>1. o \in Plain(S.a)
      BY <2>3 DEF Is, Plain
    <3>2. Toggled(S.look[o]) \in SUBSET States
      BY <1>1 DEF Toggled, Looks, States
    <3> QED BY <2>3, <3>1, <3>2, PlainLookAfter DEF WithLook
  <2> QED BY <1>2, <2>1, <2>2, <2>3
<1>4. PICK ends \in BOOLEAN : ends = (\/ "touch" \in Flags[S.a][o]
                                      \/ "sel" \in chosen.look[o] /\ "exit" \in Flags[S.a][o])
  OBVIOUS
<1>5. PICK field \in BOOLEAN : field = (Usable(chosen, o) /\ Is(S, o, "edit"))
  BY DEF Usable, Is
<1>6. r = [S |-> chosen, on |-> ~ends, out |-> IF ~ends /\ ~field THEN Root ELSE o]
  BY <1>2, <1>4, <1>5 DEF Button, Is
<1>7. r.S = chosen /\ r.on = ~ends /\ r.out = IF ~ends /\ ~field THEN Root ELSE o
  BY <1>6
<1>8. r.out \in ObjectsOf(S.a)
  BY <1>1, <1>7
<1>9. CASE ends
  <2>1. r.out = o /\ ~r.on
    BY <1>7, <1>9
  <2> QED BY <1>3, <1>4, <1>7, <1>8, <1>9, <2>1
<1>10. CASE ~ends
  BY <1>3, <1>7, <1>8, <1>10
<1> QED BY <1>9, <1>10

-----------------------------------------------------------------------------
(* A sample *)

\* A step of a form that keeps it good, and ends it at an exit if at all.
Goes(S, T) == After(S, T) /\ (T.f.ended => Exits(T))

\* The button and what it was pressed on do not matter to that.
LEMMA FieldsGo ==
    ASSUME NEW S, NEW T, Goes(S, T), NEW f \in DoForms(S.a),
           f.edit = T.f.edit, f.index = T.f.index, f.kind = T.f.kind, f.saved = T.f.saved,
           f.ended = T.f.ended, f.result = T.f.result,
           NEW U, U = [T EXCEPT !.f = f]
    PROVE  Goes(S, U) /\ U.f = f /\ U.look = T.look
<1>1. Good(T) /\ T.a = S.a /\ T.f.kind = S.f.kind /\ T.f.saved = S.f.saved
  BY DEF Goes, After
<1>2. /\ U.a = S.a /\ U.f = f /\ U.look = T.look /\ U.def = T.def /\ U.text = T.text
      /\ U \in [a : {S.a}, f : DoForms(S.a), look : Looks(S.a), def : SUBSET Plain(S.a),
                text : Texts(S.a)]
  BY <1>1 DEF Good
<1>3. Good(U)
  BY <1>1, <1>2 DEF Good
<1>4. U.f.ended => Exits(U)
  BY <1>1, <1>2 DEF Goes, Exits
<1> QED BY <1>1, <1>2, <1>3, <1>4 DEF Goes, After

LEMMA PushedGoes ==
    ASSUME NEW S, Good(S), ~S.f.ended, NEW o \in ObjectsOf(S.a), NEW previewed \in BOOLEAN
    PROVE  Goes(S, Pushed(S, o, previewed))
<1>1. PICK r : r = Button(S, o, previewed)
  OBVIOUS
<1>2. /\ After(S, r.S) /\ r.S.f = S.f /\ r.on \in BOOLEAN /\ r.out \in ObjectsOf(S.a)
      /\ ~r.on => \/ "touch" \in Flags[S.a][r.out]
                  \/ "exit" \in Flags[S.a][r.out] /\ "sel" \in r.S.look[r.out]
  BY <1>1, ButtonAfter
<1>3. Good(r.S) /\ r.S.a = S.a
  BY <1>2 DEF After
<1>4. CASE r.on
  <2>1. Pushed(S, o, previewed) = SwitchField(r.S, r.out)
    BY <1>1, <1>4 DEF Pushed
  <2>2. After(r.S, SwitchField(r.S, r.out)) /\ SwitchField(r.S, r.out).f.ended = r.S.f.ended
    BY <1>3, SwitchFieldAfter
  <2> QED BY <1>2, <1>3, <2>1, <2>2 DEF Goes, After
<1>5. CASE ~r.on
  <2>1. PICK T : T = Finish(r.S, r.out)
    OBVIOUS
  <2>2. Pushed(S, o, previewed) = T
    BY <1>1, <1>5, <2>1 DEF Pushed
  <2>3. After(r.S, T) /\ T.f.ended /\ Exits(T)
    BY <1>2, <1>3, <1>5, <2>1, FinishAfter
  <2> QED BY <1>2, <1>3, <2>2, <2>3 DEF Goes, After
<1> QED BY <1>2, <1>4, <1>5

\* gem_form_normal_key
LEMMA NormalKeyGoes ==
    ASSUME NEW S, Good(S), ~S.f.ended, NEW key
    PROVE  Goes(S, NormalKey(S, key))
<1>1. PICK o \in ObjectsOf(S.a) : o = S.f.edit
  BY DEF Good, DoForms
<1>2. /\ S.a \in Apps /\ Root \in ObjectsOf(S.a) /\ S.def \subseteq ObjectsOf(S.a)
  BY FormAssumption DEF Good, Root, ObjectsOf, Plain
<1>4. PICK esc \in ObjectsOf(S.a) : esc = FindForward(S, Root, "esc")
  BY <1>2, SearchTyped
<1>5. Goes(S, S)
  BY DEF Goes, After
<1>6. PICK K : K = NormalKey(S, key)
  OBVIOUS
<1>7. CASE key = "up" \/ (key = "left" /\ "edit" \notin Flags[S.a][o])
  <2>1. K = SwitchField(S, FocusBackward(S, o))
    BY <1>1, <1>6, <1>7 DEF NormalKey, Is
  <2> QED BY <1>6, <2>1, SwitchFieldAfter DEF Goes
<1>8. CASE key = "down" \/ (key = "right" /\ "edit" \notin Flags[S.a][o])
  <2>1. K = SwitchField(S, FocusForward(S, o))
    BY <1>1, <1>6, <1>8 DEF NormalKey, Is
  <2> QED BY <1>6, <2>1, SwitchFieldAfter DEF Goes
<1>9. CASE key = "return"
  <2>1. PICK b : b = IF Is(S, o, "exit") THEN o ELSE FindDefault(S, o)
    OBVIOUS
  <2>2. b \in ObjectsOf(S.a)
    BY <1>2, <2>1, SearchTyped
  <2>3. K = Pushed(S, b, FALSE)
    BY <1>1, <1>6, <1>9, <2>1 DEF NormalKey
  <2> QED BY <1>6, <2>2, <2>3, PushedGoes
<1>10. CASE key = "escape"
  <2>1. PICK r : r = Button(S, esc, FALSE)
    OBVIOUS
  <2>2. /\ After(S, r.S) /\ r.S.f = S.f /\ r.on \in BOOLEAN /\ r.out \in ObjectsOf(S.a)
        /\ ~r.on => \/ "touch" \in Flags[S.a][r.out]
                    \/ "exit" \in Flags[S.a][r.out] /\ "sel" \in r.S.look[r.out]
    BY <2>1, ButtonAfter
  <2>3. Good(r.S) /\ r.S.a = S.a
    BY <2>2 DEF After
  <2>4. K = IF esc = Root \/ ~Is(S, esc, "esc") THEN S
            ELSE IF r.on THEN r.S ELSE Finish(r.S, r.out)
    BY <1>4, <1>6, <1>10, <2>1 DEF NormalKey
  <2>5. Goes(S, r.S)
    BY <2>2 DEF Goes
  <2>6. ASSUME ~r.on PROVE Goes(S, Finish(r.S, r.out))
    <3>1. PICK T : T = Finish(r.S, r.out)
      OBVIOUS
    <3>2. After(r.S, T) /\ T.f.ended /\ Exits(T)
      BY <2>2, <2>3, <2>6, <3>1, FinishAfter
    <3> QED BY <2>2, <2>3, <3>1, <3>2 DEF Goes, After
  <2> QED BY <1>5, <1>6, <2>2, <2>4, <2>5, <2>6
<1>11. CASE key = "space"
  <2>1. K = Pushed(S, o, FALSE)
    BY <1>1, <1>6, <1>11 DEF NormalKey
  <2> QED BY <1>6, <2>1, PushedGoes
<1>12. CASE ~(\/ key = "up" \/ (key = "left" /\ "edit" \notin Flags[S.a][o]) \/ key = "down"
              \/ (key = "right" /\ "edit" \notin Flags[S.a][o]) \/ key = "return" \/ key = "escape" \/ key = "space")
  <2>1. K = IF "edit" \in Flags[S.a][o] THEN Edit(S, key) ELSE S
    BY <1>1, <1>6, <1>12 DEF NormalKey, Is
  <2>2. Goes(S, Edit(S, key))
    BY EditAfter DEF Goes
  <2> QED BY <1>5, <1>6, <2>1, <2>2
<1> QED BY <1>6, <1>7, <1>8, <1>9, <1>10, <1>11, <1>12

\* gem_form_normal_mouse
LEMMA NormalMouseGoes ==
    ASSUME NEW S, Good(S), ~S.f.ended, NEW o \in ObjectsOf(S.a) \cup {Nil}, NEW down \in BOOLEAN
    PROVE  Goes(S, NormalMouse(S, o, down))
<1>1. PICK p \in ObjectsOf(S.a) \cup {Nil} : p = S.f.pressed
  BY DEF Good, DoForms
<1>2. /\ S.a \in Apps /\ S.look \in Looks(S.a) /\ S.f \in DoForms(S.a)
  BY DEF Good
<1>3. Goes(S, S)
  BY DEF Goes, After
<1>4. PICK before : before = IF o = Nil THEN S.f.before ELSE S.look[o]
  OBVIOUS
<1>5. PICK fp : fp = [S.f EXCEPT !.pressed = o, !.before = before]
  OBVIOUS
<1>6. before \in SUBSET States
  <2>1. CASE o = Nil
    BY <1>2, <1>4, <2>1 DEF DoForms
  <2>2. CASE o # Nil
    BY <1>2, <1>4, <2>2 DEF Looks
  <2> QED BY <2>1, <2>2
<1>7. /\ fp \in DoForms(S.a) /\ fp.edit = S.f.edit /\ fp.index = S.f.index
      /\ fp.kind = S.f.kind /\ fp.saved = S.f.saved /\ fp.ended = S.f.ended
      /\ fp.result = S.f.result
  BY <1>2, <1>5, <1>6 DEF DoForms
<1>8. PICK press : press = [S EXCEPT !.f = fp]
  OBVIOUS
<1>9. Goes(S, press) /\ press.f = fp /\ press.look = S.look
  BY <1>3, <1>7, <1>8, FieldsGo
<1>10. PICK shown : shown = IF o # Nil /\ Previews(S, o) /\ "dis" \notin S.look[o]
                            THEN [press EXCEPT !.look[o] = Toggled(S.look[o])] ELSE press
  OBVIOUS
<1>11. Goes(S, shown)
  <2>1. CASE ~(o # Nil /\ Previews(S, o) /\ "dis" \notin S.look[o])
    BY <1>9, <1>10, <2>1
  <2>2. CASE o # Nil /\ Previews(S, o) /\ "dis" \notin S.look[o]
    <3>1. o \in ObjectsOf(S.a) /\ o \in Plain(S.a)
      BY <2>2 DEF Previews, Is, Plain
    <3>2. Toggled(S.look[o]) \in SUBSET States
      BY <1>2, <3>1 DEF Toggled, Looks, States
    <3>3. shown = [press EXCEPT !.look[o] = Toggled(S.look[o])]
      BY <1>10, <2>2
    <3>4. Good(press) /\ press.a = S.a
      BY <1>9 DEF Goes, After
    <3>5. After(press, shown) /\ shown.f = press.f
      <4>1. o \in Plain(press.a)
        BY <3>1, <3>4
      <4>2. PICK states : states = Toggled(S.look[o])
        OBVIOUS
      <4>3. states \in SUBSET States /\ shown = WithLook(press, o, states)
        BY <3>2, <3>3, <4>2 DEF WithLook
      <4> QED BY ONLY <3>4, <4>1, <4>3, PlainLookAfter
    <3>6. ~shown.f.ended
      BY <1>7, <1>9, <3>5
    <3> QED BY <1>9, <3>5, <3>6 DEF Goes, After
  <2> QED BY <2>1, <2>2
<1>12. PICK released : released =
            IF o = p THEN Pushed(S, p, Previews(S, p))
            ELSE IF Previews(S, p) THEN [S EXCEPT !.look[p] = S.f.before] ELSE S
  OBVIOUS
<1>13. ASSUME p # Nil PROVE Goes(S, released)
  <2>1. CASE o = p
    <3>1. Previews(S, p) \in BOOLEAN
      BY DEF Previews, Is
    <3> QED BY <1>12, <1>13, <2>1, <3>1, PushedGoes
  <2>2. CASE o # p /\ Previews(S, p)
    <3>1. p \in Plain(S.a)
      BY <1>13, <2>2 DEF Previews, Is, Plain
    <3>2. S.f.before \in SUBSET States
      BY <1>2 DEF DoForms
    <3>3. released = [S EXCEPT !.look[p] = S.f.before]
      BY <1>12, <2>2
    <3>4. After(S, released) /\ released.f = S.f
      <4>1. PICK states : states = S.f.before
        OBVIOUS
      <4>2. states \in SUBSET States /\ released = WithLook(S, p, states)
        BY <3>2, <3>3, <4>1 DEF WithLook
      <4> QED BY ONLY Good(S), <3>1, <4>2, PlainLookAfter
    <3> QED BY <3>4 DEF Goes
  <2>3. CASE o # p /\ ~Previews(S, p)
    BY <1>3, <1>12, <2>3
  <2> QED BY <2>1, <2>2, <2>3
<1>14. PICK next : next = IF down /\ ~S.f.down THEN shown
                          ELSE IF ~down /\ S.f.down /\ p # Nil
                          THEN [released EXCEPT !.f.pressed = Nil] ELSE S
  OBVIOUS
<1>15. Goes(S, next)
  <2>1. CASE down /\ ~S.f.down
    BY <1>11, <1>14, <2>1
  <2>2. CASE ~(down /\ ~S.f.down) /\ ~down /\ S.f.down /\ p # Nil
    <3>1. Goes(S, released) /\ released.f \in DoForms(S.a)
      BY <1>13, <2>2 DEF Goes, After, Good
    <3>2. PICK f : f = [released.f EXCEPT !.pressed = Nil]
      OBVIOUS
    <3>3. /\ f \in DoForms(S.a) /\ f.edit = released.f.edit /\ f.index = released.f.index
          /\ f.kind = released.f.kind /\ f.saved = released.f.saved
          /\ f.ended = released.f.ended /\ f.result = released.f.result
      BY <3>1, <3>2 DEF DoForms
    <3>4. next = [released EXCEPT !.f = f]
      BY <1>14, <2>2, <3>1, <3>2 DEF Goes, After, Good
    <3> QED BY <3>1, <3>3, <3>4, FieldsGo
  <2>3. CASE ~(down /\ ~S.f.down) /\ ~(~down /\ S.f.down /\ p # Nil)
    BY <1>3, <1>14, <2>3
  <2> QED BY <2>1, <2>2, <2>3
<1>16. next.f \in DoForms(S.a) /\ Good(next)
  BY <1>15 DEF Goes, After, Good
<1>17. PICK f : f = [next.f EXCEPT !.down = down]
  OBVIOUS
<1>18. /\ f \in DoForms(S.a) /\ f.edit = next.f.edit /\ f.index = next.f.index
       /\ f.kind = next.f.kind /\ f.saved = next.f.saved
       /\ f.ended = next.f.ended /\ f.result = next.f.result
  BY <1>16, <1>17 DEF DoForms
<1>19. PICK N : N = NormalMouse(S, o, down)
  OBVIOUS
<1>20. N = [next EXCEPT !.f.down = down]
  <2>1. press = [S EXCEPT !.f.pressed = o, !.f.before = IF o = Nil THEN S.f.before ELSE S.look[o]]
    BY <1>2, <1>4, <1>5, <1>8 DEF Good
  <2> QED BY <1>1, <1>9, <1>10, <1>12, <1>14, <1>19, <2>1 DEF NormalMouse
<1>21. N = [next EXCEPT !.f = f]
  BY <1>16, <1>17, <1>20 DEF Good
<1>22. Goes(S, N)
  BY <1>15, <1>18, <1>21, FieldsGo
<1> QED BY <1>19, <1>22

\* gem_form_resident_input
LEMMA SampledGoes ==
    ASSUME NEW S, Good(S), ~S.f.ended, NEW o \in ObjectsOf(S.a) \cup {Nil},
           NEW down \in BOOLEAN, NEW key
    PROVE  Goes(S, Sampled(S, o, down, key))
<1>1. PICK K : K = IF key = NoKey THEN S ELSE NormalKey(S, key)
  OBVIOUS
<1>2. Goes(S, K)
  <2>1. CASE key = NoKey
    BY <1>1, <2>1 DEF Goes, After
  <2>2. CASE key # NoKey
    BY <1>1, <2>2, NormalKeyGoes
  <2> QED BY <2>1, <2>2
<1>3. Good(K) /\ K.a = S.a /\ K.f.ended \in BOOLEAN
  BY <1>2 DEF Goes, After, Good, DoForms
<1>4. CASE K.f.ended
  BY <1>1, <1>2, <1>4 DEF Sampled
<1>5. CASE ~K.f.ended
  <2>1. Goes(K, NormalMouse(K, o, down))
    BY <1>3, <1>5, NormalMouseGoes
  <2>2. Sampled(S, o, down, key) = NormalMouse(K, o, down)
    BY <1>1, <1>5 DEF Sampled
  <2> QED BY <1>2, <2>1, <2>2 DEF Goes, After
<1> QED BY <1>3, <1>4, <1>5

-----------------------------------------------------------------------------
(* Trackers *)

Tracks ==
    [op : {"none", "rub", "drag", "slide", "watch"}, rect : Rects, cons : Rects,
     origin : Int, min : Int, shown : BOOLEAN]

Boxed(t) ==
    /\ t.op \in {"rub", "drag", "slide"} => t.rect.x \in 0 .. Width - 1
    /\ t.op \in {"drag", "slide"} =>
         t.rect.x >= t.cons.x /\ t.rect.x + t.rect.w <= t.cons.x + t.cons.w
    /\ t.op = "rub" => t.rect.x + t.rect.w <= Width

BoxOk(t) == t \in Tracks /\ Boxed(t) /\ (t.shown => t.op \in {"rub", "drag", "slide"})

LEMMA OfTwo ==
    ASSUME NEW m \in Int, NEW n \in Int
    PROVE  /\ Min({m, n}) \in Int /\ Min({m, n}) <= m /\ Min({m, n}) <= n
           /\ Min({m, n}) \in {m, n}
           /\ Max({m, n}) \in Int /\ Max({m, n}) >= m /\ Max({m, n}) >= n
<1>1. \E x \in {m, n} : \A y \in {m, n} : x <= y
  OBVIOUS
<1>2. \E x \in {m, n} : \A y \in {m, n} : x >= y
  OBVIOUS
<1>3. Min({m, n}) \in {m, n} /\ \A y \in {m, n} : Min({m, n}) <= y
  BY <1>1 DEF Min
<1>4. Max({m, n}) \in {m, n} /\ \A y \in {m, n} : Max({m, n}) >= y
  BY <1>2 DEF Max
<1> QED BY <1>3, <1>4

\* gem_graf_rubber_rectangle and gem_graf_drag_rectangle: wherever the mouse
\* is, the box is where it may be, if it begins on the screen.
LEMMA FollowedTyped ==
    ASSUME NEW t \in Tracks, NEW x \in Int, t.op \in {"rub", "drag", "slide"},
           t.op \in {"drag", "slide"} => t.rect.w <= t.cons.w,
           NEW r, r = Followed(t, x)
    PROVE  /\ r \in Rects
           /\ t.op = "rub" => r.x + r.w <= Width
           /\ t.op \in {"drag", "slide"} =>
                /\ r.w = t.rect.w
                /\ r.x >= t.cons.x /\ r.x + r.w <= t.cons.x + t.cons.w
<1>1. /\ t.rect \in Rects /\ t.rect.x \in Int /\ t.rect.w \in Int /\ t.cons.x \in Int
      /\ t.cons.w \in Int /\ t.origin \in Int /\ t.min \in Int /\ Width \in Int
  BY GrafAssumption DEF Tracks, Rects
<1>2. CASE t.op = "rub"
  <2>1. PICK m \in Int : m = Max({x - t.origin + 1, t.min})
    <3>1. x - t.origin + 1 \in Int
      BY <1>1
    <3> QED BY <1>1, <3>1, OfTwo
  <2>2. PICK w : w = Min({m, Width - t.origin})
    OBVIOUS
  <2>3. w \in Int /\ w <= Width - t.origin
    <3>1. Width - t.origin \in Int
      BY <1>1
    <3> QED BY <2>2, <3>1, OfTwo
  <2>4. r = [x |-> t.origin, w |-> w]
    BY <1>2, <2>1, <2>2 DEF Followed, Rubber
  <2> QED BY <1>1, <1>2, <2>3, <2>4 DEF Rects
<1>3. CASE t.op \in {"drag", "slide"}
  <2>1. PICK m \in Int : m = Max({x - t.origin, t.cons.x}) /\ m >= t.cons.x
    <3>1. PICK d \in Int : d = x - t.origin
      BY <1>1
    <3>2. Max({d, t.cons.x}) \in Int /\ Max({d, t.cons.x}) >= t.cons.x
      BY <1>1, OfTwo
    <3> QED BY <3>1, <3>2
  <2>2. PICK k \in Int : k = t.cons.x + t.cons.w - t.rect.w
    BY <1>1
  <2>3. PICK y : y = Min({m, k})
    OBVIOUS
  <2>4. y \in Int /\ y <= k /\ y \in {m, k}
    BY <2>3, OfTwo
  <2>5. r = [t.rect EXCEPT !.x = y]
    BY <1>3, <2>1, <2>2, <2>3 DEF Followed, Dragged
  <2>6. r \in Rects /\ r.x = y /\ r.w = t.rect.w
    BY <1>1, <2>4, <2>5 DEF Rects
  <2>7. k >= t.cons.x
    BY <1>1, <1>3, <2>2
  <2>8. y >= t.cons.x
    BY <2>1, <2>4, <2>7
  <2>9. y + t.rect.w <= t.cons.x + t.cons.w
    BY <1>1, <2>2, <2>4
  <2> QED BY <1>3, <2>6, <2>8, <2>9
<1> QED BY <1>2, <1>3

Redrawn(t, r, shown) == [t EXCEPT !.rect = r, !.shown = shown]

\* A tracker that follows the mouse to a place on the screen.
LEMMA MovedOk ==
    ASSUME NEW t, BoxOk(t), NEW x \in Int, t.op \in {"rub", "drag", "slide"},
           NEW r, r = Followed(t, x), Valid(r), NEW shown \in BOOLEAN,
           NEW u, u = Redrawn(t, r, shown)
    PROVE  BoxOk(u) /\ u.op = t.op /\ u.rect = r /\ u.shown = shown
<1>1. t \in Tracks /\ Boxed(t)
  BY DEF BoxOk
<1>2. t.op \in {"drag", "slide"} => t.rect.w <= t.cons.w
  <2>1. /\ t.rect.x \in Int /\ t.rect.w \in Int /\ t.cons.x \in Int /\ t.cons.w \in Int
    BY <1>1 DEF Tracks, Rects
  <2> QED BY <1>1, <2>1 DEF Boxed
<1>3. /\ r \in Rects
      /\ t.op = "rub" => r.x + r.w <= Width
      /\ t.op \in {"drag", "slide"} =>
           /\ r.w = t.rect.w
           /\ r.x >= t.cons.x /\ r.x + r.w <= t.cons.x + t.cons.w
  BY <1>1, <1>2, FollowedTyped
<1>4. r.x \in 0 .. Width - 1
  BY DEF Valid
<1>5. /\ u \in Tracks /\ u.op = t.op /\ u.rect = r /\ u.cons = t.cons /\ u.shown = shown
  BY <1>1, <1>3 DEF Tracks, Redrawn
<1> QED BY <1>3, <1>4, <1>5 DEF BoxOk, Boxed

\* A tracker that is not refused begins where it may be.
LEMMA SetOk ==
    ASSUME NEW t \in Trackers, mouse.x \in Int, NEW s, s = Set(t)
    PROVE  /\ s.t \in Tracks /\ s.t.op = t.op /\ ~s.t.shown /\ s.ok \in BOOLEAN
           /\ s.ok => Boxed(s.t)
<1>1. /\ t.op \in {"rub", "drag", "slide", "watch"} /\ t.rect \in Rects /\ t.cons \in Rects
      /\ t.rect.x \in Int /\ t.rect.w \in Int /\ t.cons.x \in Int /\ t.cons.w \in Int
      /\ t.min \in Int
  BY GrafAssumption DEF Rects
<1>2. NoTrack \in Tracks /\ ~NoTrack.shown
  BY DEF NoTrack, Tracks, Rects
<1>3. PICK base : base = [NoTrack EXCEPT !.op = t.op, !.rect = t.rect, !.cons = t.cons]
  OBVIOUS
<1>4. base \in Tracks /\ base.op = t.op /\ base.rect = t.rect /\ base.cons = t.cons /\ ~base.shown
  BY <1>1, <1>2, <1>3 DEF Tracks
<1>5. PICK fits \in BOOLEAN : fits <=> (Valid(t.rect) /\ Valid(t.cons) /\ t.rect.w <= t.cons.w)
  BY DEF Valid
<1>6. CASE t.op = "watch"
  <2>1. s = [t |-> base, ok |-> Valid(t.rect)]
    BY <1>3, <1>6 DEF Set
  <2> QED BY <1>4, <1>6, <2>1 DEF Boxed, Valid
<1>7. CASE t.op \in {"drag", "slide"}
  <2>1. PICK o \in Int : o = Max({mouse.x - t.rect.x, 0})
    <3>1. mouse.x - t.rect.x \in Int /\ 0 \in Int
      BY <1>1
    <3> QED BY <3>1, OfTwo
  <2>2. PICK grip : grip = [base EXCEPT !.origin = o]
    OBVIOUS
  <2>3. /\ grip \in Tracks /\ grip.op = t.op /\ grip.rect = t.rect /\ grip.cons = t.cons
        /\ ~grip.shown
    BY <1>4, <2>1, <2>2 DEF Tracks
  <2>4. CASE t.op = "slide"
    <3>1. s = [t |-> grip, ok |-> fits]
      BY <1>3, <1>5, <2>1, <2>2, <2>4 DEF Set
    <3>2. s.ok = fits /\ s.t = grip
      BY <3>1
    <3>3. t.rect.x >= t.cons.x /\ t.rect.x + t.rect.w <= t.cons.x + t.cons.w
      BY <2>4, SliderAssumption
    <3>4. fits => Boxed(grip)
      BY <1>5, <2>3, <2>4, <3>3 DEF Valid, Boxed
    <3> QED BY <1>5, <2>3, <3>2, <3>4
  <2>5. CASE t.op = "drag"
    <3>1. PICK r : r = Followed(grip, mouse.x)
      OBVIOUS
    <3>2. r = Dragged(grip, mouse.x)
      BY <2>3, <2>5, <3>1 DEF Followed
    <3>3. s = [t |-> [grip EXCEPT !.rect = r], ok |-> fits /\ Valid(r)]
      BY <1>3, <1>5, <2>1, <2>2, <2>5, <3>1, <3>2 DEF Set
    <3>4. r \in Rects
      <4>1. PICK m \in Int : m = Max({mouse.x - grip.origin, grip.cons.x})
        <5>1. grip.origin \in Int /\ grip.cons.x \in Int
          BY <1>1, <2>3 DEF Tracks
        <5>2. mouse.x - grip.origin \in Int
          BY <5>1
        <5> QED BY <5>1, <5>2, OfTwo
      <4>2. PICK k \in Int : k = grip.cons.x + grip.cons.w - grip.rect.w
        BY <1>1, <2>3
      <4>3. Min({m, k}) \in Int
        BY OfTwo
      <4>4. r = [grip.rect EXCEPT !.x = Min({m, k})]
        BY <3>2, <4>1, <4>2 DEF Dragged
      <4> QED BY <1>1, <2>3, <4>3, <4>4 DEF Rects
    <3>5. PICK u : u = [grip EXCEPT !.rect = r]
      OBVIOUS
    <3>6. u \in Tracks /\ u.op = t.op /\ u.rect = r /\ u.cons = t.cons /\ ~u.shown
      BY <2>3, <3>4, <3>5 DEF Tracks
    <3>7. s.t = u /\ s.ok = (fits /\ Valid(r))
      BY <3>3, <3>5
    <3>8. ASSUME fits, Valid(r) PROVE Boxed(u)
      <4>1. grip.rect.w <= grip.cons.w
        BY <1>5, <2>3, <3>8
      <4>2. r.w = grip.rect.w /\ r.x >= grip.cons.x /\ r.x + r.w <= grip.cons.x + grip.cons.w
        BY <2>3, <2>5, <3>1, <4>1, FollowedTyped
      <4> QED BY <2>3, <2>5, <3>6, <3>8, <4>2 DEF Boxed, Valid
    <3> QED BY <3>6, <3>7, <3>8
  <2> QED BY <1>7, <2>4, <2>5
<1>8. CASE t.op = "rub"
  <2>1. PICK rub : rub = [base EXCEPT !.origin = t.rect.x, !.min = t.min]
    OBVIOUS
  <2>2. rub \in Tracks /\ rub.op = "rub" /\ ~rub.shown
    BY <1>1, <1>4, <1>8, <2>1 DEF Tracks
  <2>3. PICK r : r = Followed(rub, mouse.x)
    OBVIOUS
  <2>4. r \in Rects /\ r.x + r.w <= Width
    BY <2>2, <2>3, FollowedTyped
  <2>5. PICK u : u = [rub EXCEPT !.rect = r]
    OBVIOUS
  <2>6. u \in Tracks /\ u.op = "rub" /\ u.rect = r /\ ~u.shown
    BY <2>2, <2>4, <2>5 DEF Tracks
  <2>7. r = Rubber(rub, mouse.x)
    BY <2>2, <2>3 DEF Followed
  <2>8. s = [t |-> u, ok |-> t.rect.x >= 0 /\ t.min > 0 /\ Valid(r)]
    BY <1>3, <1>8, <2>1, <2>3, <2>5, <2>7 DEF Set
  <2>9. s.ok => Boxed(u)
    <3>1. s.ok => Valid(r)
      <4>1. s.ok = (t.rect.x >= 0 /\ t.min > 0 /\ Valid(r))
        BY <2>8
      <4> QED BY ONLY <4>1
    <3>2. Valid(r) => r.x \in 0 .. Width - 1
      BY DEF Valid
    <3> QED BY <2>4, <2>6, <3>1, <3>2 DEF Boxed
  <2> QED BY <1>8, <2>6, <2>8, <2>9
<1> QED BY <1>1, <1>6, <1>7, <1>8

-----------------------------------------------------------------------------
(* Animations *)

Even(drawn) == \A r \in DOMAIN drawn : drawn[r] \in Int /\ drawn[r] % 2 = 0

LEMMA EvenLeaves ==
    ASSUME NEW set, NEW drawn, Even(drawn)
    PROVE  XorAll(set, drawn) = set
<1>1. {r \in DOMAIN drawn : drawn[r] % 2 = 1} = {}
  BY DEF Even
<1> QED BY <1>1 DEF XorAll

LEMMA BoxesCounted ==
    ASSUME NEW start, NEW count \in Nat, NEW step, NEW grow,
           NEW B, B = Boxes(start, count, step, grow)
    PROVE  \A r \in DOMAIN B : B[r] \in Nat
<1>1. IsFiniteSet(0 .. count)
  BY FS_Interval, 0 \in Int
<1>2. ASSUME NEW r \in DOMAIN B PROVE B[r] \in Nat
  <2>1. PICK W : W = {k \in 0 .. count : Stepped(start, k, step, grow) = r}
    OBVIOUS
  <2>2. W \in SUBSET (0 .. count)
    BY <2>1
  <2>3. B[r] = Cardinality(W)
    BY <1>2, <2>1 DEF Boxes
  <2>4. IsFiniteSet(W)
    BY ONLY <1>1, <2>2, FS_Subset
  <2> QED BY <2>3, <2>4, FS_CardinalityType
<1> QED BY <1>2

LEMMA SumsAreEven ==
    ASSUME NEW B, Even(B), NEW C, Even(C)
    PROVE  Even(B (+) C)
<1>1. ASSUME NEW r \in DOMAIN (B (+) C)
      PROVE  (B (+) C)[r] \in Int /\ (B (+) C)[r] % 2 = 0
  <2>1. PICK m : m = IF r \in DOMAIN B THEN B[r] ELSE 0
    OBVIOUS
  <2>2. PICK n : n = IF r \in DOMAIN C THEN C[r] ELSE 0
    OBVIOUS
  <2>3. m \in Int /\ m % 2 = 0 /\ n \in Int /\ n % 2 = 0
    BY <2>1, <2>2 DEF Even
  <2>4. (B (+) C)[r] = m + n
    BY <1>1, <2>1, <2>2 DEF (+)
  <2> QED BY <2>3, <2>4
<1> QED BY <1>1 DEF Even

\* gem_graf_box_path draws every box twice, so that nothing of it is left.
LEMMA WalkedIsEven ==
    ASSUME NEW start, NEW count \in Nat, NEW step, NEW grow
    PROVE  Even(Walked(start, count, step, grow))
<1>1. PICK B : B = Boxes(start, count, step, grow)
  OBVIOUS
<1>2. \A r \in DOMAIN B : B[r] \in Nat
  BY <1>1, BoxesCounted
<1>3. ASSUME NEW r \in DOMAIN (B (+) B)
      PROVE  (B (+) B)[r] \in Int /\ (B (+) B)[r] % 2 = 0
  <2>1. r \in DOMAIN B /\ (B (+) B)[r] = B[r] + B[r]
    BY <1>3 DEF (+)
  <2> QED BY <1>2, <2>1
<1> QED BY <1>1, <1>3 DEF Even, Walked

LEMMA StepsCounted ==
    ASSUME NEW way
    PROVE  Steps(way).count \in Nat
<1>1. PICK W : W = {k \in 0 .. 15 : 2^k <= way \div 2}
  OBVIOUS
<1>2. IsFiniteSet(0 .. 15) /\ W \in SUBSET (0 .. 15)
  BY <1>1, FS_Interval, 0 \in Int, 15 \in Int
<1>3. IsFiniteSet(W)
  BY ONLY <1>2, FS_Subset
<1>4. Cardinality(W) \in Nat
  BY <1>3, FS_CardinalityType
<1> QED BY <1>1, <1>4 DEF Steps, Halvings

\* GRAF_MOVEBOX, GRAF_GROWBOX and GRAF_SHRINKBOX leave the screen as it was.
LEMMA PathLeavesNothing ==
    ASSUME NEW p \in Paths, NEW set
    PROVE  XorAll(set, Path(p)) = set
<1>1. ASSUME NEW from, NEW to PROVE Even(Moved(from, to))
  BY StepsCounted, WalkedIsEven DEF Moved
<1>2. p.op \in {"move", "grow", "shrink"}
  BY GrafAssumption
<1>3. PICK s : s = GrowSteps(p.from, p.to)
  OBVIOUS
<1>4. s.count \in Nat
  BY <1>3, StepsCounted DEF GrowSteps
<1>5. PICK mid : mid = Middle(p.from, p.to)
  OBVIOUS
<1>6. PICK centred : centred = [p.from EXCEPT !.x = mid]
  OBVIOUS
<1>7. CASE p.op = "move"
  BY <1>1, <1>7, EvenLeaves DEF Path
<1>8. CASE p.op = "grow"
  <2>1. PICK B : B = Moved(p.from, mid)
    OBVIOUS
  <2>2. PICK C : C = Walked(centred, s.count, s.step, 2 * s.step)
    OBVIOUS
  <2>3. Even(B) /\ Even(C)
    BY <1>1, <1>4, <2>1, <2>2, WalkedIsEven
  <2>4. Path(p) = B (+) C
    BY <1>3, <1>5, <1>6, <1>8, <2>1, <2>2 DEF Path
  <2> QED BY <2>3, <2>4, SumsAreEven, EvenLeaves
<1>9. CASE p.op = "shrink"
  <2>1. PICK B : B = Walked(p.to, s.count, - s.step, - 2 * s.step)
    OBVIOUS
  <2>2. PICK C : C = Moved(centred, p.from.x)
    OBVIOUS
  <2>3. Even(B) /\ Even(C)
    BY <1>1, <1>4, <2>1, <2>2, WalkedIsEven
  <2>4. Path(p) = B (+) C
    BY <1>3, <1>5, <1>6, <1>9, <2>1, <2>2 DEF Path
  <2> QED BY <2>3, <2>4, SumsAreEven, EvenLeaves
<1> QED BY <1>2, <1>7, <1>8, <1>9

-----------------------------------------------------------------------------
(* The inductive invariant *)

AlertForms ==
    [kind : {"alert", "error"}, edit : {Root}, index : {0}, pressed : Int,
     before : SUBSET Int, down : BOOLEAN, saved : {Root}, ended : BOOLEAN, result : Int]

IsOn(f) == f = [a \in Apps |-> f[a]]

TypesOn ==
    /\ IsOn(form) /\ IsOn(look) /\ IsOn(defaults) /\ IsOn(text)
    /\ IsOn(track) /\ IsOn(reply)
    /\ live \subseteq Apps
    /\ mouse \in [x : Int, down : BOOLEAN]
    /\ lock \in [owner : Apps \cup {NoApp}, depth : Int]
    /\ alert \in [owner : Apps \cup {NoApp}, n : Nat, def : Int, esc : Int, sel : SUBSET Int]

\* The tree of a client, without the form it runs.
Tree(a) == [a |-> a, f |-> Free, look |-> look[a], def |-> defaults[a], text |-> text[a]]

TreeOk(a) ==
    /\ Good(Tree(a))
    /\ ~form[a].ended
    /\ \/ form[a] = Free
       \/ form[a].kind = "do" /\ Good(State(a))
       \/ form[a] \in AlertForms

HoldOk(a) ==
    /\ reply[a] = Held <=> (InForm(a) \/ Tracking(a))
    /\ ~(InForm(a) /\ Tracking(a))
    /\ (InForm(a) \/ Drawing(a)) => lock.owner = a
    /\ (InForm(a) /\ form[a].kind # "do") <=> alert.owner = a
    /\ a \notin live => reply[a] # Held

Outlines == {track[a].rect : a \in {b \in Apps : track[b].shown}}

IInv ==
    /\ TypesOn
    /\ \A a \in Apps : TreeOk(a) /\ HoldOk(a) /\ BoxOk(track[a])
    /\ lines = Outlines

-----------------------------------------------------------------------------
(* One client at a time *)

\* Nothing of the other clients changes.
Elsewhere(a) ==
    \A b \in Apps \ {a} :
        /\ form'[b] = form[b] /\ track'[b] = track[b] /\ reply'[b] = reply[b]
        /\ look'[b] = look[b] /\ defaults'[b] = defaults[b] /\ text'[b] = text[b]
        /\ b \in live' <=> b \in live

\* The lock, or the alert, is as it was or changes hands between a and nobody.
Passed(old, new, a) == new = old \/ {old, new} \subseteq {NoApp, a}

LEMMA StepKeeps ==
    ASSUME IInv, NEW a \in Apps, TypesOn', Elsewhere(a),
           Passed(lock.owner, lock'.owner, a), Passed(alert.owner, alert'.owner, a),
           TreeOk(a)', HoldOk(a)', BoxOk(track'[a]), lines' = Outlines'
    PROVE  IInv'
<1>1. ASSUME NEW b \in Apps \ {a} PROVE TreeOk(b)' /\ HoldOk(b)' /\ BoxOk(track'[b])
  <2>1. TreeOk(b) /\ HoldOk(b) /\ BoxOk(track[b])
    BY DEF IInv
  <2>2. /\ form'[b] = form[b] /\ track'[b] = track[b] /\ reply'[b] = reply[b]
        /\ look'[b] = look[b] /\ defaults'[b] = defaults[b] /\ text'[b] = text[b]
        /\ b \in live' <=> b \in live
    BY DEF Elsewhere
  <2>3. TreeOk(b)'
    <3>1. Tree(b)' = Tree(b) /\ State(b)' = State(b)
      BY <2>2 DEF Tree, State
    <3> QED BY <2>1, <2>2, <3>1 DEF TreeOk
  <2>4. (lock.owner = b => lock'.owner = b) /\ (alert.owner = b <=> alert'.owner = b)
    BY ModalAssumption DEF Passed
  <2>5. HoldOk(b)'
    BY <2>1, <2>2, <2>4 DEF HoldOk, InForm, Tracking, Drawing
  <2> QED BY <2>1, <2>2, <2>3, <2>5
<1> QED BY <1>1 DEF IInv

Replaced(f, a, x) == [f EXCEPT ![a] = x]

LEMMA Put ==
    ASSUME NEW f, IsOn(f), NEW a \in Apps, NEW x, NEW g, g = Replaced(f, a, x)
    PROVE  IsOn(g) /\ g[a] = x /\ \A b \in Apps \ {a} : g[b] = f[b]
<1>1. PICK h : h = [b \in Apps |-> IF b = a THEN x ELSE f[b]]
  OBVIOUS
<1>2. g = h
  BY <1>1 DEF IsOn, Replaced
<1>3. h = [b \in Apps |-> h[b]]
  BY <1>1
<1> QED BY <1>1, <1>2, <1>3 DEF IsOn

LEMMA LockStep ==
    ASSUME NEW l \in [owner : Apps \cup {NoApp}, depth : Int], NEW a \in Apps
    PROVE  /\ Taken(l, a) \in [owner : Apps \cup {NoApp}, depth : Int]
           /\ Taken(l, a).owner = a
           /\ Given(l, a) \in [owner : Apps \cup {NoApp}, depth : Int]
           /\ Passed(l.owner, Given(l, a).owner, a)
<1>1. NoLock \in [owner : Apps \cup {NoApp}, depth : Int] /\ NoLock.owner = NoApp
  BY DEF NoLock
<1>2. PICK k : k = [l EXCEPT !.depth = l.depth - 1]
  OBVIOUS
<1>3. k \in [owner : Apps \cup {NoApp}, depth : Int] /\ k.owner = l.owner
  BY <1>2
<1>4. Given(l, a) = IF l.owner # a THEN l ELSE IF l.depth = 1 THEN NoLock ELSE k
  BY <1>2 DEF Given
<1>5. Taken(l, a) \in [owner : Apps \cup {NoApp}, depth : Int] /\ Taken(l, a).owner = a
  BY DEF Taken
<1> QED BY <1>1, <1>3, <1>4, <1>5 DEF Passed

\* A tree that a handler leaves behind.
LEMMA Left ==
    ASSUME TypesOn, NEW S, Good(S), Leave(S)
    PROVE  /\ IsOn(look)' /\ IsOn(defaults)' /\ IsOn(text)'
           /\ look'[S.a] = S.look /\ defaults'[S.a] = S.def /\ text'[S.a] = S.text
           /\ \A b \in Apps \ {S.a} :
                look'[b] = look[b] /\ defaults'[b] = defaults[b] /\ text'[b] = text[b]
           /\ Good(Tree(S.a)')
<1>1. S.a \in Apps /\ Root \in ObjectsOf(S.a) /\ Root \in Nat
  BY FormAssumption DEF Good, Root, ObjectsOf
<1>2. IsOn(look') /\ look'[S.a] = S.look /\ \A b \in Apps \ {S.a} : look'[b] = look[b]
  <2>1. look' = Replaced(look, S.a, S.look) /\ IsOn(look)
    BY DEF Leave, Replaced, TypesOn
  <2> QED BY <1>1, <2>1, Put
<1>3. IsOn(defaults') /\ defaults'[S.a] = S.def /\ \A b \in Apps \ {S.a} : defaults'[b] = defaults[b]
  <2>1. defaults' = Replaced(defaults, S.a, S.def) /\ IsOn(defaults)
    BY DEF Leave, Replaced, TypesOn
  <2> QED BY <1>1, <2>1, Put
<1>4. IsOn(text') /\ text'[S.a] = S.text /\ \A b \in Apps \ {S.a} : text'[b] = text[b]
  <2>1. text' = Replaced(text, S.a, S.text) /\ IsOn(text)
    BY DEF Leave, Replaced, TypesOn
  <2> QED BY <1>1, <2>1, Put
<1>5. PICK T : T = Tree(S.a)'
  OBVIOUS
<1>6. T = [a |-> S.a, f |-> Free, look |-> S.look, def |-> S.def, text |-> S.text]
  BY <1>2, <1>3, <1>4, <1>5 DEF Tree
<1>7. /\ Free \in DoForms(S.a) /\ Free.index = 0 /\ Free.edit = Root
  BY <1>1 DEF DoForms, Free, Root, Nil
<1>8. S.look \in Looks(S.a) /\ S.def \in SUBSET Plain(S.a) /\ S.text \in Texts(S.a) /\ Single(S.a, S.look)
  BY DEF Good
<1>9. S.text[Root] \in Nat
  BY <1>1, <1>8 DEF Texts
<1>10. /\ T.a = S.a /\ T.f = Free /\ T.look = S.look /\ T.def = S.def /\ T.text = S.text
       /\ T \in [a : {S.a}, f : DoForms(S.a), look : Looks(S.a), def : SUBSET Plain(S.a),
                 text : Texts(S.a)]
  BY <1>6, <1>7, <1>8
<1>11. Good(T)
  BY <1>1, <1>7, <1>8, <1>9, <1>10 DEF Good
<1> QED BY <1>2, <1>3, <1>4, <1>5, <1>11 DEF IsOn

\* And with the form that goes on in it.
LEMMA LeftForm ==
    ASSUME TypesOn, NEW S, Good(S), Leave(S), form'[S.a] = S.f
    PROVE  Good(State(S.a)')
<1>1. look'[S.a] = S.look /\ defaults'[S.a] = S.def /\ text'[S.a] = S.text
  BY Left
<1>2. PICK T : T = State(S.a)'
  OBVIOUS
<1>3. T = [a |-> S.a, f |-> S.f, look |-> S.look, def |-> S.def, text |-> S.text]
  BY <1>1, <1>2 DEF State
<1>4. S = [a |-> S.a, f |-> S.f, look |-> S.look, def |-> S.def, text |-> S.text]
  BY DEF Good
<1> QED BY <1>2, <1>3, <1>4-----------------------------------------------------------------------------
(* Steps without a form or a tracker *)

Locks == [owner : Apps \cup {NoApp}, depth : Int]

Others(f, g, a) == IsOn(g) /\ \A b \in Apps \ {a} : g[b] = f[b]
OtherLive(a) == live' \subseteq Apps /\ \A b \in Apps \ {a} : b \in live' <=> b \in live

\* The tree of a is as good as before, those of the others are the same.
TreeKept(a) ==
    /\ Others(look, look', a) /\ Others(defaults, defaults', a) /\ Others(text, text', a)
    /\ Good(Tree(a)')

LEMMA TreeStays ==
    ASSUME IInv, NEW a \in Apps, UNCHANGED treeVars
    PROVE  TreeKept(a)
<1>1. look' = look /\ defaults' = defaults /\ text' = text
  BY DEF treeVars
<1>2. Tree(a)' = Tree(a)
  BY <1>1 DEF Tree
<1>3. Good(Tree(a)) /\ IsOn(look) /\ IsOn(defaults) /\ IsOn(text)
  BY DEF IInv, TreeOk, TypesOn
<1> QED BY <1>1, <1>2, <1>3 DEF TreeKept, Others

LEMMA LeaveKeepsTree ==
    ASSUME TypesOn, NEW S, Good(S), Leave(S)
    PROVE  TreeKept(S.a)
<1> QED BY Left DEF TreeKept, Others

\* A client without a held call is in no form and tracks nothing.
LEMMA NotHeld ==
    ASSUME IInv, NEW a \in Apps, reply[a] # Held
    PROVE  /\ form[a] = Free /\ ~InForm(a) /\ ~Tracking(a) /\ ~Drawing(a)
           /\ ~track[a].shown /\ alert.owner # a
<1>1. HoldOk(a) /\ TreeOk(a) /\ BoxOk(track[a])
  BY DEF IInv
<1>2. ~InForm(a) /\ ~Tracking(a) /\ ~Drawing(a) /\ alert.owner # a
  BY <1>1 DEF HoldOk, Drawing
<1>3. form[a] = Free
  BY <1>1, <1>2 DEF TreeOk, InForm, AlertForms
<1>4. ~track[a].shown
  BY <1>1, <1>2 DEF BoxOk, Tracking
<1> QED BY <1>2, <1>3, <1>4

LEMMA QuietKeeps ==
    ASSUME IInv, NEW a \in Apps, UNCHANGED <<form, track, alert, lines>>,
           mouse' \in [x : Int, down : BOOLEAN],
           lock' \in Locks, Passed(lock.owner, lock'.owner, a), OtherLive(a),
           Others(reply, reply', a), reply[a] # Held, reply'[a] # Held, TreeKept(a)
    PROVE  IInv'
<1>1. /\ form[a] = Free /\ ~InForm(a) /\ ~Tracking(a) /\ ~Drawing(a) /\ alert.owner # a
  BY NotHeld
<1>2. form' = form /\ track' = track /\ alert' = alert /\ lines' = lines
  OBVIOUS
<1>3. TypesOn'
  BY <1>2 DEF IInv, TypesOn, OtherLive, Others, TreeKept, Locks
<1>4. Elsewhere(a)
  BY <1>2 DEF Elsewhere, Others, TreeKept, OtherLive
<1>5. TreeOk(a)'
  BY <1>1, <1>2 DEF TreeOk, TreeKept, Free
<1>6. HoldOk(a)'
  BY <1>1, <1>2 DEF HoldOk, InForm, Tracking, Drawing
<1>7. BoxOk(track'[a]) /\ lines' = Outlines'
  BY <1>2 DEF IInv, Outlines
<1>8. Passed(alert.owner, alert'.owner, a)
  BY <1>2 DEF Passed
<1> QED BY <1>3, <1>4, <1>5, <1>6, <1>7, <1>8, StepKeeps

\* Of the calls answered at once: what they leave alone.
LEMMA CallKeeps ==
    ASSUME IInv, NEW a \in Apps, Call(a), UNCHANGED <<form, track, alert, lines, live, mouse>>,
           lock' \in Locks, Passed(lock.owner, lock'.owner, a),
           NEW r, r # Held, Answered(a, r) \/ (r = Idle /\ reply' = reply), TreeKept(a)
    PROVE  IInv'
<1>1. reply[a] = Idle /\ Idle # Held
  BY DEF Call, Idle, Held
<1>2. IsOn(reply) /\ mouse \in [x : Int, down : BOOLEAN] /\ live \subseteq Apps
  BY DEF IInv, TypesOn
<1>3. IsOn(reply') /\ reply'[a] = r /\ \A b \in Apps \ {a} : reply'[b] = reply[b]
  <2>1. CASE Answered(a, r)
    <3>1. reply' = Replaced(reply, a, r)
      BY <2>1 DEF Answered, Replaced
    <3> QED BY <1>2, <3>1, Put
  <2>2. CASE r = Idle /\ reply' = reply
    BY <1>1, <1>2, <2>2
  <2> QED BY <2>1, <2>2
<1>4. Others(reply, reply', a) /\ reply[a] # Held /\ reply'[a] # Held
  BY <1>1, <1>3 DEF Others
<1>5. OtherLive(a) /\ mouse' \in [x : Int, down : BOOLEAN]
  BY <1>2 DEF OtherLive
<1> QED BY <1>4, <1>5, QuietKeeps

LEMMA LockStays ==
    ASSUME IInv, NEW a \in Apps, UNCHANGED lock
    PROVE  lock' \in Locks /\ Passed(lock.owner, lock'.owner, a)
<1> QED BY DEF IInv, TypesOn, Locks, Passed

\* The answers of a call that is over.
LEMMA Answers ==
    /\ \A out : Answer(out) # Held
    /\ Failed # Held /\ Idle # Held
<1> QED BY DEF Answer, Failed, Idle, Held

LEMMA ToldKeeps ==
    ASSUME IInv, NEW a \in Apps, NEW out, Told(a, Answer(out)),
           UNCHANGED <<form, track, alert, lines, mouse>>, TreeKept(a)
    PROVE  IInv'
<1>1. Call(a) /\ Answered(a, Answer(out)) /\ live' = live /\ lock' = lock
  BY DEF Told
<1>2. lock' \in Locks /\ Passed(lock.owner, lock'.owner, a)
  BY <1>1, LockStays
<1>3. Answer(out) # Held
  BY Answers
<1> QED BY <1>1, <1>2, <1>3, CallKeeps-----------------------------------------------------------------------------
(* The calls on a tree *)

LEMMA AtRest ==
    ASSUME IInv, NEW a \in Apps, reply[a] # Held
    PROVE  Good(State(a)) /\ State(a).a = a /\ State(a) = Tree(a)
<1>1. form[a] = Free /\ Good(Tree(a))
  BY NotHeld DEF IInv, TreeOk
<1>2. State(a) = Tree(a)
  BY <1>1 DEF State, Tree
<1> QED BY <1>1, <1>2 DEF State

LEMMA PutSame ==
    ASSUME NEW f, IsOn(f), NEW a \in Apps
    PROVE  Replaced(f, a, f[a]) = f
<1> QED BY DEF IsOn, Replaced

LEMMA TreePut ==
    ASSUME TypesOn, NEW a \in Apps, NEW lk \in Looks(a), Single(a, lk),
           NEW d \in SUBSET Plain(a), NEW tx \in Texts(a),
           look' = Replaced(look, a, lk), defaults' = Replaced(defaults, a, d),
           text' = Replaced(text, a, tx)
    PROVE  TreeKept(a)
<1>1. PICK S : S = [a |-> a, f |-> Free, look |-> lk, def |-> d, text |-> tx]
  OBVIOUS
<1>2. Root \in ObjectsOf(a) /\ Root \in Nat
  BY FormAssumption DEF Root, ObjectsOf
<1>3. /\ Free \in DoForms(a) /\ Free.index = 0 /\ Free.edit = Root
  BY <1>2 DEF DoForms, Free, Root, Nil
<1>4. tx[Root] \in Nat
  BY <1>2 DEF Texts
<1>5. /\ S.a = a /\ S.f = Free /\ S.look = lk /\ S.def = d /\ S.text = tx
      /\ S \in [a : {a}, f : DoForms(a), look : Looks(a), def : SUBSET Plain(a),
                text : Texts(a)]
  BY <1>1, <1>3
<1>6. Good(S)
  BY <1>3, <1>4, <1>5 DEF Good
<1>7. Leave(S)
  BY <1>5 DEF Leave, Replaced
<1>8. TreeKept(S.a)
  BY ONLY TypesOn, <1>6, <1>7, LeaveKeepsTree
<1> QED BY <1>5, <1>8

LEMMA TreeTyped ==
    ASSUME IInv, NEW a \in Apps
    PROVE  /\ look[a] \in Looks(a) /\ Single(a, look[a]) /\ defaults[a] \in SUBSET Plain(a)
           /\ text[a] \in Texts(a) /\ IsOn(look) /\ IsOn(defaults) /\ IsOn(text) /\ TypesOn
<1>1. Good(Tree(a)) /\ TypesOn
  BY DEF IInv, TreeOk
<1>2. PICK T : T = Tree(a)
  OBVIOUS
<1>3. T.a = a /\ T.look = look[a] /\ T.def = defaults[a] /\ T.text = text[a]
  BY <1>2 DEF Tree
<1> QED BY <1>1, <1>2, <1>3 DEF Good, TypesOn

LEMMA FormButtonKeeps ==
    ASSUME IInv, NEW a \in Apps, NEW o \in ObjectsOf(a), FormButton(a, o), UNCHANGED grafVars
    PROVE  IInv'
<1>1. PICK r : r = Button(State(a), o, FALSE)
  OBVIOUS
<1>2. Told(a, Answer(r.out)) /\ Leave(r.S) /\ UNCHANGED <<form, alert>>
  BY <1>1 DEF FormButton
<1>3. reply[a] # Held
  BY <1>2, Answers DEF Told, Call
<1>4. Good(State(a)) /\ State(a).a = a
  BY <1>3, AtRest
<1>5. After(State(a), r.S)
  BY <1>1, <1>4, ButtonAfter
<1>6. Good(r.S) /\ r.S.a = a
  BY <1>4, <1>5 DEF After
<1>7. TreeKept(a)
  <2>1. TypesOn
    BY DEF IInv
  <2>2. TreeKept(r.S.a)
    BY ONLY <2>1, <1>2, <1>6, LeaveKeepsTree
  <2> QED BY <1>6, <2>2
<1> QED BY <1>2, <1>7, ToldKeeps DEF grafVars

LEMMA FormKeybdKeeps ==
    ASSUME IInv, NEW a \in Apps, NEW o \in ObjectsOf(a), NEW key, FormKeybd(a, o, key),
           UNCHANGED grafVars
    PROVE  IInv'
<1>1. PICK S : S = State(a)
  OBVIOUS
<1>2. PICK d : d = FindDefault(S, Root)
  OBVIOUS
<1>3. PICK T : T = IF key = "return" /\ d # Root
                   THEN WithLook(S, d, S.look[d] \cup {"sel"}) ELSE S
  OBVIOUS
<1>4. PICK out : Told(a, Answer(out)) /\ Leave(T) /\ UNCHANGED <<form, alert>>
  BY <1>1, <1>2, <1>3 DEF FormKeybd, WithLook
<1>5. reply[a] # Held
  BY <1>4, Answers DEF Told, Call
<1>6. Good(S) /\ S.a = a /\ Root \in ObjectsOf(a)
  BY <1>1, <1>5, AtRest, FormAssumption DEF Root, ObjectsOf
<1>7. Good(T) /\ T.a = a
  <2>1. CASE key = "return" /\ d # Root
    <3>1. d \in S.def \cup {Root}
      BY <1>2, <1>6, SearchTyped
    <3>2. d \in Plain(S.a) /\ S.look \in Looks(S.a)
      BY <1>6, <2>1, <3>1 DEF Good
    <3>3. PICK states : states = S.look[d] \cup {"sel"}
      OBVIOUS
    <3>4. states \in SUBSET States /\ T = WithLook(S, d, states)
      BY <1>3, <2>1, <3>2, <3>3 DEF Looks, States, Plain
    <3>5. After(S, T)
      BY ONLY <1>6, <3>2, <3>4, PlainLookAfter
    <3> QED BY <1>6, <3>5 DEF After
  <2>2. CASE ~(key = "return" /\ d # Root)
    BY <1>3, <1>6, <2>2
  <2> QED BY <2>1, <2>2
<1>8. TreeKept(a)
  <2>1. TypesOn
    BY DEF IInv
  <2>2. TreeKept(T.a)
    BY ONLY <2>1, <1>4, <1>7, LeaveKeepsTree
  <2> QED BY <1>7, <2>2
<1> QED BY <1>4, <1>8, ToldKeeps DEF grafVars

LEMMA ObjcEditKeeps ==
    ASSUME IInv, NEW a \in Apps, NEW o \in ObjectsOf(a), NEW i \in 0 .. Limit, NEW key,
           ObjcEdit(a, o, i, key), UNCHANGED grafVars
    PROVE  IInv'
<1>1. PICK e : e = Edited(text[a][o], i, key)
  OBVIOUS
<1>2. /\ Told(a, Answer(e[2])) /\ text' = [text EXCEPT ![a][o] = e[1]]
      /\ UNCHANGED <<form, look, defaults, alert>>
  BY <1>1 DEF ObjcEdit
<1>3. /\ look[a] \in Looks(a) /\ Single(a, look[a]) /\ defaults[a] \in SUBSET Plain(a)
      /\ text[a] \in Texts(a) /\ IsOn(look) /\ IsOn(defaults) /\ IsOn(text) /\ TypesOn
  BY TreeTyped
<1>4. text[a][o] \in 0 .. Limit - 1 /\ i \in Nat
  BY <1>3, FormAssumption DEF Texts
<1>5. e[1] \in 0 .. Limit - 1
  BY <1>1, <1>4, EditedTyped
<1>6. PICK tx : tx = [text[a] EXCEPT ![o] = e[1]]
  OBVIOUS
<1>7. tx \in Texts(a) /\ text' = Replaced(text, a, tx)
  BY <1>2, <1>3, <1>5, <1>6 DEF Texts, Replaced
<1>8. look' = Replaced(look, a, look[a]) /\ defaults' = Replaced(defaults, a, defaults[a])
  BY <1>2, <1>3, PutSame
<1>9. TreeKept(a)
  BY <1>3, <1>7, <1>8, TreePut
<1> QED BY <1>2, <1>9, ToldKeeps DEF grafVars

\* The client clears the selected exits of its form.
LEMMA ReadKeeps ==
    ASSUME IInv, NEW a \in Apps, Read(a)
    PROVE  IInv'
<1>1. /\ reply[a] # Held /\ reply' = Replaced(reply, a, Idle)
      /\ UNCHANGED <<live, lock, form, alert>> /\ UNCHANGED grafVars
  BY DEF Read, TakeReply, Answered, Replaced, Held, FormReset, formVars
<1>2. /\ look[a] \in Looks(a) /\ Single(a, look[a]) /\ defaults[a] \in SUBSET Plain(a)
      /\ text[a] \in Texts(a) /\ IsOn(look) /\ IsOn(defaults) /\ IsOn(text) /\ TypesOn
  BY TreeTyped
<1>3. TreeKept(a)
  <2>1. CASE FormReset(a)
    <3>1. PICK lk : lk = [o \in ObjectsOf(a) |->
                  IF "exit" \in Flags[a][o] THEN look[a][o] \ {"sel"} ELSE look[a][o]]
      OBVIOUS
    <3>2. look' = Replaced(look, a, lk) /\ UNCHANGED <<defaults, text>>
      BY <1>2, <2>1, <3>1 DEF FormReset, Replaced, IsOn
    <3>3. lk \in Looks(a)
      BY <1>2, <3>1 DEF Looks
    <3>4. Single(a, lk)
      BY <1>2, <3>1 DEF Single
    <3>5. defaults' = Replaced(defaults, a, defaults[a]) /\ text' = Replaced(text, a, text[a])
      BY <1>2, <3>2, PutSame
    <3> QED BY <1>2, <3>2, <3>3, <3>4, <3>5, TreePut
  <2>2. CASE UNCHANGED formVars
    BY <2>2, TreeStays DEF formVars, treeVars
  <2> QED BY <2>1, <2>2 DEF Read
<1>4. lock' \in Locks /\ Passed(lock.owner, lock'.owner, a)
  BY <1>1, LockStays
<1>5. OtherLive(a) /\ mouse' \in [x : Int, down : BOOLEAN] /\ IsOn(reply)
  BY <1>1 DEF OtherLive, IInv, TypesOn, grafVars
<1>6. Others(reply, reply', a) /\ reply'[a] # Held
  BY <1>1, <1>5, Put, Answers DEF Others
<1>7. UNCHANGED <<form, track, alert, lines>>
  BY <1>1 DEF grafVars
<1> QED BY ONLY IInv, <1>1, <1>3, <1>4, <1>5, <1>6, <1>7, QuietKeeps

\* Another program begins with a fresh tree, whose defaults are no radio
\* buttons.
LEMMA FreshTree ==
    ASSUME NEW a \in Apps
    PROVE  /\ [o \in ObjectsOf(a) |-> {}] \in Looks(a)
           /\ Single(a, [o \in ObjectsOf(a) |-> {}])
           /\ Initial[a] \in SUBSET Plain(a)
           /\ [o \in ObjectsOf(a) |-> 0] \in Texts(a)
<1>1. Initial[a] \in SUBSET Plain(a)
  BY FormAssumption, RadioAssumption DEF Plain, ObjectsOf
<1>2. 0 \in 0 .. Limit - 1
  BY FormAssumption
<1>3. [o \in ObjectsOf(a) |-> 0] \in Texts(a)
  BY <1>2 DEF Texts
<1> QED BY <1>1, <1>3 DEF Looks, Single

LEMMA AttachKeeps ==
    ASSUME IInv, NEW a \in Apps, Attach(a)
    PROVE  IInv'
<1>1. /\ a \notin live /\ live' = live \cup {a}
      /\ UNCHANGED <<lock, reply, form, alert>> /\ UNCHANGED grafVars
      /\ look' = Replaced(look, a, [o \in ObjectsOf(a) |-> {}])
      /\ defaults' = Replaced(defaults, a, Initial[a])
      /\ text' = Replaced(text, a, [o \in ObjectsOf(a) |-> 0])
  BY DEF Attach, ModalAttach, FormAttach, Replaced
<1>2. TreeKept(a)
  <2>1. TypesOn
    BY DEF IInv
  <2>2. PICK lk : lk = [o \in ObjectsOf(a) |-> {}]
    OBVIOUS
  <2>3. PICK tx : tx = [o \in ObjectsOf(a) |-> 0]
    OBVIOUS
  <2>4. lk \in Looks(a) /\ Single(a, lk) /\ Initial[a] \in SUBSET Plain(a) /\ tx \in Texts(a)
    BY <2>2, <2>3, FreshTree
  <2> QED BY <1>1, <2>1, <2>2, <2>3, <2>4, TreePut
<1>3. lock' \in Locks /\ Passed(lock.owner, lock'.owner, a)
  BY <1>1, LockStays
<1>4. OtherLive(a) /\ mouse' \in [x : Int, down : BOOLEAN] /\ IsOn(reply)
  BY <1>1 DEF OtherLive, IInv, TypesOn, grafVars
<1>5. reply[a] # Held
  BY <1>1 DEF IInv, HoldOk
<1>6. Others(reply, reply', a) /\ reply'[a] # Held
  BY <1>1, <1>4, <1>5 DEF Others
<1>7. UNCHANGED <<form, track, alert, lines>>
  BY <1>1 DEF grafVars
<1> QED BY ONLY IInv, <1>2, <1>3, <1>4, <1>5, <1>6, <1>7, QuietKeeps

-----------------------------------------------------------------------------
(* The lock, the windows and the animations *)

LEMMA LockTakeKeeps ==
    ASSUME IInv, NEW a \in Apps, LockTake(a), UNCHANGED <<formVars, grafVars>>
    PROVE  IInv'
<1>1. Call(a) /\ MayTake(a) /\ lock' = Taken(lock, a) /\ UNCHANGED <<live, reply>>
  BY DEF LockTake
<1>2. lock \in Locks
  BY DEF IInv, TypesOn, Locks
<1>3. lock' \in Locks /\ lock'.owner = a
  BY <1>1, <1>2, LockStep DEF Locks
<1>4. Passed(lock.owner, lock'.owner, a)
  BY <1>1, <1>3 DEF MayTake, Passed
<1>5. TreeKept(a)
  BY TreeStays DEF formVars, treeVars
<1> QED BY <1>1, <1>3, <1>4, <1>5, CallKeeps, Answers DEF formVars, grafVars

LEMMA LockGiveKeeps ==
    ASSUME IInv, NEW a \in Apps, LockGive(a), UNCHANGED <<formVars, grafVars>>
    PROVE  IInv'
<1>1. reply[a] = Idle /\ lock' = Given(lock, a) /\ UNCHANGED <<live, reply>>
  BY DEF LockGive
<1>2. lock \in Locks
  BY DEF IInv, TypesOn, Locks
<1>3. lock' \in Locks /\ Passed(lock.owner, lock'.owner, a)
  BY <1>1, <1>2, LockStep DEF Locks
<1>4. TreeKept(a)
  BY TreeStays DEF formVars, treeVars
<1>5. OtherLive(a) /\ mouse' \in [x : Int, down : BOOLEAN] /\ Others(reply, reply', a)
  BY <1>1 DEF OtherLive, Others, IInv, TypesOn, grafVars
<1> QED BY <1>1, <1>3, <1>4, <1>5, QuietKeeps, Answers DEF formVars, grafVars

LEMMA WindowTopKeeps ==
    ASSUME IInv, NEW a \in Apps, NEW new, WindowTop(a, new)
    PROVE  IInv'
<1>1. Call(a) /\ UNCHANGED <<live, lock, reply>> /\ UNCHANGED <<formVars, grafVars>>
  BY DEF WindowTop
<1>2. lock' \in Locks /\ Passed(lock.owner, lock'.owner, a)
  BY <1>1, LockStays
<1>3. TreeKept(a)
  BY <1>1, TreeStays DEF formVars, treeVars
<1> QED BY <1>1, <1>2, <1>3, CallKeeps, Answers DEF formVars, grafVars

LEMMA MkStateKeeps ==
    ASSUME IInv, NEW a \in Apps, MkState(a), UNCHANGED formVars
    PROVE  IInv'
<1>1. TreeKept(a)
  BY TreeStays DEF formVars, treeVars
<1> QED BY <1>1, ToldKeeps DEF MkState, formVars, grafVars

LEMMA AnimateKeeps ==
    ASSUME IInv, NEW a \in Apps, NEW p \in Paths, Animate(a, p), UNCHANGED formVars
    PROVE  IInv'
<1>1. TreeKept(a)
  BY TreeStays DEF formVars, treeVars
<1>2. lines' = lines
  <2>1. XorAll(lines, Path(p)) = lines
    BY PathLeavesNothing
  <2> QED BY <2>1 DEF Animate
<1>3. PICK out : Told(a, Answer(out)) /\ UNCHANGED <<mouse, track>>
  BY DEF Animate
<1> QED BY <1>1, <1>2, <1>3, ToldKeeps DEF formVars-----------------------------------------------------------------------------
(* Forms begin *)

\* What a form that has begun holds: the call, the lock and, if it is an
\* alert, the tree of the alerts.
LEMMA FormBegins ==
    ASSUME IInv, NEW a \in Apps, reply[a] # Held, MayTake(a),
           lock' = Taken(lock, a), Answered(a, Held), a \in live, UNCHANGED <<live, grafVars>>,
           NEW f, form' = Replaced(form, a, f), f.kind # "free", ~f.ended,
           f.kind = "do" => Good(State(a)'), f.kind # "do" => f \in AlertForms,
           alert' \in [owner : Apps \cup {NoApp}, n : Nat, def : Int, esc : Int, sel : SUBSET Int],
           Passed(alert.owner, alert'.owner, a), alert'.owner = a <=> f.kind # "do",
           TreeKept(a)
    PROVE  IInv'
<1>1. /\ ~Tracking(a) /\ ~Drawing(a)
  BY NotHeld
<1>2. track' = track /\ lines' = lines /\ mouse' = mouse /\ live' = live
  BY DEF grafVars
<1>3. TypesOn
  BY DEF IInv
<1>4. IsOn(form') /\ form'[a] = f /\ \A b \in Apps \ {a} : form'[b] = form[b]
  BY <1>3, Put DEF TypesOn
<1>5. IsOn(reply') /\ reply'[a] = Held /\ \A b \in Apps \ {a} : reply'[b] = reply[b]
  <2>1. reply' = Replaced(reply, a, Held) /\ IsOn(reply)
    BY <1>3 DEF Answered, Replaced, TypesOn
  <2> QED BY <2>1, Put
<1>6. lock' \in Locks /\ lock'.owner = a
  BY <1>3, LockStep DEF TypesOn, Locks
<1>7. TypesOn'
  BY <1>2, <1>3, <1>4, <1>5, <1>6 DEF TypesOn, Locks, TreeKept, Others
<1>8. Elsewhere(a)
  BY <1>2, <1>4, <1>5 DEF Elsewhere, TreeKept, Others
<1>9. TreeOk(a)'
  <2>1. CASE f.kind = "do"
    BY <1>4, <2>1 DEF TreeOk, TreeKept
  <2>2. CASE f.kind # "do"
    BY <1>4, <2>2 DEF TreeOk, TreeKept
  <2> QED BY <2>1, <2>2
<1>10. HoldOk(a)'
  BY <1>1, <1>2, <1>4, <1>5, <1>6 DEF HoldOk, InForm, Tracking, Drawing
<1>11. BoxOk(track'[a]) /\ lines' = Outlines'
  BY <1>2 DEF IInv, Outlines
<1>12. Passed(lock.owner, lock'.owner, a)
  BY <1>6 DEF Passed, MayTake
<1> QED BY <1>7, <1>8, <1>9, <1>10, <1>11, <1>12, StepKeeps

\* The default a form begins with is no radio button.
LEMMA FirstTyped ==
    ASSUME NEW S, Good(S), NEW first, first = FindForward(S, Root, "def")
    PROVE  first \in S.def \cup {Root}
<1>1. S.a \in Apps /\ Objects(S) = ObjectsOf(S.a)
  BY DEF Good, Objects, Looks
<1>2. PICK E : E = {j \in Objects(S) : j > Root /\ Usable(S, j) /\ Is(S, j, "def")}
  OBVIOUS
<1>3. E \in SUBSET ObjectsOf(S.a) /\ E \subseteq S.def
  BY <1>1, <1>2 DEF Is
<1>4. first \in E \cup {Root}
  BY <1>1, <1>2, <1>3, FoundTyped DEF FindForward
<1> QED BY <1>3, <1>4

LEMMA FormDoKeeps ==
    ASSUME IInv, NEW a \in Apps, NEW start, FormDo(a, start), UNCHANGED grafVars
    PROVE  IInv'
<1>1. PICK f0 : f0 = [Free EXCEPT !.kind = "do"]
  OBVIOUS
<1>2. PICK S0 : S0 = [State(a) EXCEPT !.f = f0]
  OBVIOUS
<1>3. PICK first : first = FindForward(S0, Root, "def")
  OBVIOUS
<1>4. PICK S1 : S1 = [S0 EXCEPT !.f.saved = first]
  OBVIOUS
<1>5. PICK S : S = SwitchField(S1, IF start = Root THEN first ELSE start)
  OBVIOUS
<1>6. /\ Call(a) /\ Leave(S) /\ UNCHANGED <<live, alert>>
      /\ IF MayTake(a)
         THEN form' = Replaced(form, a, S.f) /\ lock' = Taken(lock, a) /\ Answered(a, Held)
         ELSE Answered(a, Failed) /\ UNCHANGED <<form, lock>>
  BY <1>1, <1>2, <1>3, <1>4, <1>5 DEF FormDo, Replaced
<1>7. reply[a] # Held /\ a \in live
  BY <1>6, Answers DEF Call
<1>8. Root \in ObjectsOf(a) /\ Root \in Nat
  BY FormAssumption DEF Root, ObjectsOf
<1>9. /\ f0 \in DoForms(a) /\ f0.kind = "do" /\ f0.index = 0 /\ f0.edit = Root /\ ~f0.ended
      /\ f0.saved = Root
  BY <1>1, <1>8 DEF Free, DoForms, Root, Nil
<1>10. /\ look[a] \in Looks(a) /\ Single(a, look[a]) /\ defaults[a] \in SUBSET Plain(a)
       /\ text[a] \in Texts(a) /\ TypesOn
  BY TreeTyped
<1>11. S0 = [a |-> a, f |-> f0, look |-> look[a], def |-> defaults[a], text |-> text[a]]
  BY <1>2 DEF State
<1>12. text[a][Root] \in Nat
  BY <1>8, <1>10 DEF Texts
<1>13. Good(S0) /\ S0.a = a /\ S0.f = f0 /\ S0.def = defaults[a]
  <2>1. /\ S0.a = a /\ S0.f = f0 /\ S0.look = look[a] /\ S0.def = defaults[a]
        /\ S0.text = text[a]
        /\ S0 \in [a : {a}, f : DoForms(a), look : Looks(a), def : SUBSET Plain(a),
                   text : Texts(a)]
    BY <1>9, <1>10, <1>11
  <2> QED BY <1>9, <1>10, <1>12, <2>1 DEF Good
<1>14. first \in Plain(a) \cup {Root}
  BY <1>3, <1>10, <1>13, FirstTyped
<1>15. PICK f1 : f1 = [f0 EXCEPT !.saved = first]
  OBVIOUS
<1>16. /\ f1 \in DoForms(a) /\ f1.kind = "do" /\ f1.index = 0 /\ f1.edit = Root /\ ~f1.ended
  BY <1>9, <1>14, <1>15 DEF DoForms
<1>17. Good(S1) /\ S1.a = a /\ S1.f = f1
  <2>1. S1 = [a |-> a, f |-> f1, look |-> look[a], def |-> defaults[a], text |-> text[a]]
    BY <1>4, <1>11, <1>15
  <2>2. /\ S1.a = a /\ S1.f = f1 /\ S1.look = look[a] /\ S1.def = defaults[a]
        /\ S1.text = text[a]
        /\ S1 \in [a : {a}, f : DoForms(a), look : Looks(a), def : SUBSET Plain(a),
                   text : Texts(a)]
    BY <1>10, <1>16, <2>1
  <2> QED BY <1>10, <1>12, <1>16, <2>2 DEF Good
<1>18. After(S1, S) /\ S.f.ended = S1.f.ended
  BY <1>5, <1>17, SwitchFieldAfter
<1>19. Good(S) /\ S.a = a /\ S.f.kind = "do" /\ ~S.f.ended
  BY <1>16, <1>17, <1>18 DEF After
<1>20. TreeKept(a)
  <2>1. TreeKept(S.a)
    BY ONLY <1>6, <1>10, <1>19, LeaveKeepsTree
  <2> QED BY <1>19, <2>1
<1>21. CASE MayTake(a)
  <2>1. form' = Replaced(form, a, S.f) /\ lock' = Taken(lock, a) /\ Answered(a, Held)
    BY <1>6, <1>21
  <2>2. form'[a] = S.f
    BY <1>10, <2>1, Put DEF TypesOn
  <2>3. Good(State(a)')
    <3>1. form'[S.a] = S.f
      BY <1>19, <2>2
    <3>2. Good(State(S.a)')
      BY ONLY <1>6, <1>10, <1>19, <3>1, LeftForm
    <3> QED BY <1>19, <3>2
  <2>4. alert' = alert /\ alert.owner # a
    BY <1>6, <1>7, NotHeld
  <2>5. alert' \in [owner : Apps \cup {NoApp}, n : Nat, def : Int, esc : Int, sel : SUBSET Int]
    BY <1>10, <2>4 DEF TypesOn
  <2>6. Passed(alert.owner, alert'.owner, a)
    BY <2>4 DEF Passed
  <2>7. S.f.kind # "free" /\ (S.f.kind = "do" => Good(State(a)'))
        /\ (S.f.kind # "do" => S.f \in AlertForms) /\ (alert'.owner = a <=> S.f.kind # "do")
    BY <1>19, <2>3, <2>4
  <2>8. UNCHANGED <<live, grafVars>>
    BY <1>6
  <2> QED BY ONLY IInv, a \in Apps, <1>7, <1>19, <1>20, <1>21, <2>1, <2>5, <2>6, <2>7, <2>8, FormBegins
<1>22. CASE ~MayTake(a)
  <2>1. Answered(a, Failed) /\ UNCHANGED <<form, lock, live, alert>>
    BY <1>6, <1>22
  <2>2. lock' \in Locks /\ Passed(lock.owner, lock'.owner, a)
    BY <2>1, LockStays
  <2> QED BY <1>6, <1>20, <2>1, <2>2, CallKeeps, Answers DEF grafVars
<1> QED BY <1>21, <1>22

LEMMA FormAlertKeeps ==
    ASSUME IInv, NEW a \in Apps, NEW al \in Alerts, FormAlert(a, al), UNCHANGED grafVars
    PROVE  IInv'
<1>1. Call(a) /\ UNCHANGED <<live, look, defaults, text>>
  BY DEF FormAlert
<1>2. reply[a] # Held /\ a \in live
  BY <1>1, Answers DEF Call
<1>3. TreeKept(a)
  BY <1>1, TreeStays DEF treeVars
<1>4. CASE alert.owner = NoApp /\ MayTake(a)
  <2>1. PICK f : f = [Free EXCEPT !.kind = al.kind]
    OBVIOUS
  <2>2. /\ form' = Replaced(form, a, f) /\ alert' = AlertTree(a, al)
        /\ lock' = Taken(lock, a) /\ Answered(a, Held)
    BY <1>4, <2>1 DEF FormAlert, Replaced
  <2>3. al \in [kind : {"alert", "error"}, n : Nat, def : Int, esc : Int]
    BY FormAssumption
  <2>4. f \in AlertForms /\ f.kind # "free" /\ f.kind # "do" /\ ~f.ended
    <3>1. PICK k \in {"alert", "error"} : k = al.kind
      BY <2>3
    <3>2. f = [kind |-> k, edit |-> Root, index |-> 0, pressed |-> Nil, before |-> {},
               down |-> FALSE, saved |-> Root, ended |-> FALSE, result |-> Root]
      BY <2>1, <3>1 DEF Free
    <3>3. Root \in Int /\ Nil \in Int /\ {} \in SUBSET Int
      BY DEF Root, Nil
    <3> QED BY <3>2, <3>3 DEF AlertForms
  <2>5. /\ alert' \in [owner : Apps \cup {NoApp}, n : Nat, def : Int, esc : Int, sel : SUBSET Int]
        /\ alert'.owner = a
    BY <2>2, <2>3 DEF AlertTree
  <2>6. Passed(alert.owner, alert'.owner, a)
    BY <1>4, <2>5 DEF Passed
  <2>7. (f.kind = "do" => Good(State(a)')) /\ (f.kind # "do" => f \in AlertForms)
        /\ (alert'.owner = a <=> f.kind # "do")
    BY <2>4, <2>5
  <2>8. UNCHANGED <<live, grafVars>>
    BY <1>1
  <2> QED BY ONLY IInv, a \in Apps, <1>2, <1>3, <1>4, <2>2, <2>4, <2>5, <2>6, <2>7, <2>8, FormBegins
<1>5. CASE ~(alert.owner = NoApp /\ MayTake(a))
  <2>1. Answered(a, Failed) /\ UNCHANGED <<form, alert, lock>>
    BY <1>5 DEF FormAlert
  <2>2. lock' \in Locks /\ Passed(lock.owner, lock'.owner, a)
    BY <2>1, LockStays
  <2> QED BY <1>1, <1>3, <2>1, <2>2, CallKeeps, Answers DEF grafVars
<1> QED BY <1>4, <1>5-----------------------------------------------------------------------------
(* Trackers begin, go on and end *)

ShownOf(tr) == {tr[a].rect : a \in {b \in Apps : tr[b].shown}}

\* What draws an outline owns the lock, so that there is one outline at most.
LEMMA OneOutline ==
    ASSUME IInv, NEW a \in Apps, lock.owner \in {NoApp, a}
    PROVE  \A b \in Apps \ {a} : ~track[b].shown
<1>1. ASSUME NEW b \in Apps \ {a}, track[b].shown PROVE FALSE
  <2>1. HoldOk(b) /\ BoxOk(track[b])
    BY DEF IInv
  <2>2. Drawing(b)
    BY <1>1, <2>1 DEF BoxOk, Drawing, Tracking
  <2>3. lock.owner = b
    BY <2>1, <2>2 DEF HoldOk
  <2> QED BY <2>3, ModalAssumption
<1> QED BY <1>1

LEMMA OutlineOf ==
    ASSUME NEW tr, NEW a \in Apps, \A b \in Apps \ {a} : ~tr[b].shown
    PROVE  ShownOf(tr) = IF tr[a].shown THEN {tr[a].rect} ELSE {}
<1>1. CASE tr[a].shown
  <2>1. {b \in Apps : tr[b].shown} = {a}
    BY <1>1
  <2> QED BY <1>1, <2>1 DEF ShownOf
<1>2. CASE ~tr[a].shown
  <2>1. {b \in Apps : tr[b].shown} = {}
    BY <1>2
  <2> QED BY <1>2, <2>1 DEF ShownOf
<1> QED BY <1>1, <1>2

\* A tracker that shows nothing, before and after, changes no outline.
LEMMA NothingShown ==
    ASSUME NEW f, NEW g, NEW a \in Apps, Others(f, g, a), ~f[a].shown, ~g[a].shown
    PROVE  ShownOf(g) = ShownOf(f)
<1>1. {b \in Apps : g[b].shown} = {b \in Apps : f[b].shown}
  BY DEF Others
<1>2. \A b \in {c \in Apps : f[c].shown} : g[b] = f[b]
  BY DEF Others
<1> QED BY <1>1, <1>2 DEF ShownOf

LEMMA TrackKeeps ==
    ASSUME IInv, NEW a \in Apps, a \in live, UNCHANGED <<formVars, live>>, ~InForm(a),
           mouse' \in [x : Int, down : BOOLEAN],
           lock' \in Locks, Passed(lock.owner, lock'.owner, a),
           Others(track, track', a), Others(reply, reply', a),
           BoxOk(track'[a]), reply'[a] = Held <=> Tracking(a)',
           Drawing(a)' => lock'.owner = a, lines' = ShownOf(track')
    PROVE  IInv'
<1>1. /\ form' = form /\ alert' = alert /\ live' = live /\ UNCHANGED treeVars
      /\ look' = look /\ defaults' = defaults /\ text' = text
  BY DEF formVars, treeVars
<1>2. TreeKept(a)
  BY <1>1, TreeStays
<1>3. TypesOn'
  BY <1>1, <1>2 DEF IInv, TypesOn, Others, TreeKept, Locks
<1>4. Elsewhere(a)
  BY <1>1 DEF Elsewhere, Others
<1>5. HoldOk(a) /\ TreeOk(a)
  BY DEF IInv
<1>6. form[a] = Free
  BY <1>5 DEF TreeOk, InForm, AlertForms
<1>7. TreeOk(a)'
  BY <1>1, <1>2, <1>6 DEF TreeOk, TreeKept, Free
<1>8. ~InForm(a)' /\ ~(alert.owner = a)
  BY <1>1, <1>5 DEF InForm, HoldOk
<1>9. HoldOk(a)'
  BY <1>1, <1>8 DEF HoldOk
<1>10. lines' = Outlines'
  BY DEF Outlines, ShownOf
<1>11. Passed(alert.owner, alert'.owner, a)
  BY <1>1 DEF Passed
<1> QED BY <1>3, <1>4, <1>7, <1>9, <1>10, <1>11, StepKeeps

LEMMA BoxTyped ==
    ASSUME IInv, NEW a \in Apps
    PROVE  /\ BoxOk(track[a]) /\ track[a].shown \in BOOLEAN /\ IsOn(track) /\ IsOn(reply)
           /\ lines = ShownOf(track) /\ mouse \in [x : Int, down : BOOLEAN] /\ lock \in Locks
<1>1. BoxOk(track[a]) /\ TypesOn /\ lines = ShownOf(track)
  BY DEF IInv, Outlines, ShownOf
<1> QED BY <1>1 DEF TypesOn, BoxOk, Tracks, Locks

LEMMA WatchBoxKeeps ==
    ASSUME IInv, NEW a \in Apps, NEW t \in Trackers, WatchBox(a, t), UNCHANGED formVars
    PROVE  IInv'
<1>1. PICK s : s = Set(t)
  OBVIOUS
<1>2. Call(a) /\ t.op = "watch" /\ UNCHANGED <<live, lock, mouse, lines>>
  BY DEF WatchBox
<1>3. reply[a] # Held /\ a \in live
  BY <1>2, Answers DEF Call
<1>4. mouse \in [x : Int, down : BOOLEAN] /\ IsOn(track) /\ IsOn(reply) /\ lines = ShownOf(track)
  BY BoxTyped
<1>5. s.t \in Tracks /\ s.t.op = "watch" /\ ~s.t.shown
  BY <1>1, <1>2, <1>4, SetOk
<1>6. lock' \in Locks /\ Passed(lock.owner, lock'.owner, a)
  BY <1>2, LockStays
<1>7. CASE s.ok /\ mouse.down
  <2>1. track' = Replaced(track, a, s.t) /\ reply' = Replaced(reply, a, Held)
    BY <1>1, <1>7 DEF WatchBox, Answered, Replaced
  <2>2. Others(track, track', a) /\ track'[a] = s.t
    BY <1>4, <2>1, Put DEF Others
  <2>3. Others(reply, reply', a) /\ reply'[a] = Held
    BY <1>4, <2>1, Put DEF Others
  <2>4. BoxOk(track'[a]) /\ Tracking(a)' /\ ~Drawing(a)'
    BY <1>5, <2>2 DEF BoxOk, Boxed, Tracking, Drawing
  <2>5. lines' = ShownOf(track')
    <3>1. ~track[a].shown /\ ~track'[a].shown
      BY <1>3, <1>5, <2>2, NotHeld
    <3>2. ShownOf(track') = ShownOf(track)
      BY <2>2, <3>1, NothingShown
    <3> QED BY <1>2, <1>4, <3>2
  <2> QED BY <1>2, <1>3, <1>4, <1>6, <2>2, <2>3, <2>4, <2>5, NotHeld, TrackKeeps
<1>8. CASE ~(s.ok /\ mouse.down)
  <2>1. PICK out : Answered(a, Answer(out)) /\ UNCHANGED track
    BY <1>1, <1>8 DEF WatchBox
  <2>2. TreeKept(a)
    BY TreeStays DEF formVars, treeVars
  <2>3. Told(a, Answer(out))
    BY <1>2, <2>1 DEF Told
  <2> QED BY <1>2, <2>1, <2>2, <2>3, ToldKeeps DEF formVars
<1> QED BY <1>7, <1>8

LEMMA XorTwice ==
    ASSUME NEW set, NEW r
    PROVE  Xor(Xor(set, r), r) = set
<1> QED BY DEF Xor

LEMMA TrackBoxKeeps ==
    ASSUME IInv, NEW a \in Apps, NEW t \in Trackers, TrackBox(a, t), UNCHANGED formVars
    PROVE  IInv'
<1>1. PICK s : s = Set(t)
  OBVIOUS
<1>2. Call(a) /\ t.op # "watch" /\ UNCHANGED <<live, mouse>>
  BY DEF TrackBox
<1>3. reply[a] # Held /\ a \in live
  BY <1>2, Answers DEF Call
<1>4. /\ mouse \in [x : Int, down : BOOLEAN] /\ IsOn(track) /\ IsOn(reply)
      /\ lines = ShownOf(track) /\ lock \in Locks
  BY BoxTyped
<1>5. /\ s.t \in Tracks /\ s.t.op \in {"rub", "drag", "slide"} /\ ~s.t.shown
      /\ s.ok => Boxed(s.t)
  BY <1>1, <1>2, <1>4, SetOk, GrafAssumption
<1>6. CASE s.ok /\ mouse.down /\ MayTake(a)
  <2>1. PICK u : u = [s.t EXCEPT !.shown = TRUE]
    OBVIOUS
  <2>2. /\ lines' = Xor(lines, s.t.rect) /\ track' = Replaced(track, a, u)
        /\ lock' = Taken(lock, a) /\ reply' = Replaced(reply, a, Held)
    BY <1>1, <1>6, <2>1 DEF TrackBox, Answered, Replaced
  <2>3. /\ u \in Tracks /\ u.op = s.t.op /\ u.rect = s.t.rect /\ u.cons = s.t.cons /\ u.shown
    BY <1>5, <2>1 DEF Tracks
  <2>4. Others(track, track', a) /\ track'[a] = u
    BY <1>4, <2>2, Put DEF Others
  <2>5. Others(reply, reply', a) /\ reply'[a] = Held
    BY <1>4, <2>2, Put DEF Others
  <2>6. BoxOk(track'[a]) /\ Tracking(a)'
    BY <1>5, <1>6, <2>3, <2>4 DEF BoxOk, Boxed, Tracking
  <2>7. lock' \in Locks /\ lock'.owner = a /\ Passed(lock.owner, lock'.owner, a)
    <3>1. lock' \in Locks /\ lock'.owner = a
      BY <1>4, <2>2, LockStep DEF Locks
    <3> QED BY <1>6, <3>1 DEF Passed, MayTake
  <2>8. lines' = ShownOf(track')
    <3>1. \A b \in Apps \ {a} : ~track[b].shown
      BY <1>6, OneOutline DEF MayTake
    <3>2. ~track[a].shown
      BY <1>3, NotHeld
    <3>3. lines = {}
      BY <1>4, <3>1, <3>2, OutlineOf
    <3>4. \A b \in Apps \ {a} : ~track'[b].shown
      BY <2>4, <3>1 DEF Others
    <3>5. ShownOf(track') = {s.t.rect}
      BY <2>3, <2>4, <3>4, OutlineOf
    <3> QED BY <2>2, <3>3, <3>5 DEF Xor
  <2> QED BY <1>2, <1>3, <1>4, <2>4, <2>5, <2>6, <2>7, <2>8, NotHeld, TrackKeeps
<1>7. CASE ~(s.ok /\ mouse.down /\ MayTake(a))
  <2>1. PICK r : r # Held /\ Answered(a, r) /\ UNCHANGED <<track, lock>> /\ lines' = lines
    <3>1. Xor(Xor(lines, s.t.rect), s.t.rect) = lines
      BY XorTwice
    <3>2. CASE ~s.ok
      BY <1>1, <3>2, Answers DEF TrackBox
    <3>3. CASE s.ok /\ ~mouse.down
      BY <1>1, <3>1, <3>3, Answers DEF TrackBox
    <3>4. CASE s.ok /\ mouse.down
      BY <1>1, <1>7, <3>1, <3>4, Answers DEF TrackBox
    <3> QED BY <3>2, <3>3, <3>4
  <2>2. TreeKept(a)
    BY TreeStays DEF formVars, treeVars
  <2>3. lock' \in Locks /\ Passed(lock.owner, lock'.owner, a)
    BY <2>1, LockStays
  <2> QED BY <1>2, <2>1, <2>2, <2>3, CallKeeps DEF formVars
<1> QED BY <1>6, <1>7

LEMMA EndedKeeps ==
    ASSUME IInv, NEW a \in Apps, a \in live, Tracking(a), NEW out, Ended(a, out),
           mouse' \in [x : Int, down : BOOLEAN], UNCHANGED <<formVars, live>>
    PROVE  IInv'
<1>1. /\ lock' = IF track[a].op = "watch" THEN lock ELSE Given(lock, a)
      /\ track' = Replaced(track, a, NoTrack) /\ reply' = Replaced(reply, a, Answer(out))
      /\ lines' = IF track[a].shown THEN Xor(lines, track[a].rect) ELSE lines
  BY DEF Ended, Answered, Replaced, Erased
<1>2. /\ BoxOk(track[a]) /\ track[a].shown \in BOOLEAN /\ IsOn(track) /\ IsOn(reply)
      /\ lines = ShownOf(track) /\ lock \in Locks
  BY BoxTyped
<1>3. HoldOk(a)
  BY DEF IInv
<1>4. Others(track, track', a) /\ track'[a] = NoTrack
  BY <1>1, <1>2, Put DEF Others
<1>5. Others(reply, reply', a) /\ reply'[a] # Held
  BY <1>1, <1>2, Put, Answers DEF Others
<1>6. /\ NoTrack \in Tracks /\ NoTrack.op = "none" /\ ~NoTrack.shown
  BY DEF NoTrack, Tracks, Rects
<1>7. BoxOk(track'[a]) /\ ~Tracking(a)' /\ ~Drawing(a)'
  BY <1>4, <1>6 DEF BoxOk, Boxed, Tracking, Drawing
<1>8. lock' \in Locks /\ Passed(lock.owner, lock'.owner, a)
  <2>1. CASE track[a].op = "watch"
    <3>1. UNCHANGED lock
      BY <1>1, <2>1
    <3> QED BY <3>1, LockStays
  <2>2. CASE track[a].op # "watch"
    BY <1>1, <1>2, <2>2, LockStep DEF Locks
  <2> QED BY <2>1, <2>2
<1>9. lines' = ShownOf(track')
  <2>1. CASE ~track[a].shown
    <3>1. ShownOf(track') = ShownOf(track)
      BY <1>4, <1>6, <2>1, NothingShown
    <3> QED BY <1>1, <1>2, <2>1, <3>1
  <2>2. CASE track[a].shown
    <3>1. Drawing(a)
      BY <1>2, <2>2 DEF BoxOk, Drawing, Tracking
    <3>2. \A b \in Apps \ {a} : ~track[b].shown
      BY <1>3, <3>1, OneOutline DEF HoldOk
    <3>3. lines = {track[a].rect}
      BY <1>2, <2>2, <3>2, OutlineOf
    <3>4. \A b \in Apps \ {a} : ~track'[b].shown
      BY <1>4, <3>2 DEF Others
    <3>5. ShownOf(track') = {}
      BY <1>4, <1>6, <3>4, OutlineOf
    <3> QED BY <1>1, <2>2, <3>3, <3>5 DEF Xor
  <2> QED BY <1>2, <2>1, <2>2
<1>10. ~InForm(a)
  BY <1>3 DEF HoldOk
<1> QED BY <1>4, <1>5, <1>7, <1>8, <1>9, <1>10, TrackKeeps

LEMMA OutlinedKeeps ==
    ASSUME IInv, NEW a \in Apps, a \in live, Tracking(a), track[a].op # "watch",
           NEW x \in Int, Outlined(a, x),
           mouse' \in [x : Int, down : BOOLEAN], UNCHANGED <<formVars, live>>
    PROVE  IInv'
<1>1. PICK t : t = track[a]
  OBVIOUS
<1>2. PICK next : next = Followed(t, x)
  OBVIOUS
<1>3. /\ BoxOk(t) /\ t.shown \in BOOLEAN /\ IsOn(track) /\ IsOn(reply)
      /\ lines = ShownOf(track) /\ lock \in Locks
  BY <1>1, BoxTyped
<1>4. HoldOk(a) /\ Drawing(a)
  BY DEF IInv, Drawing
<1>5. lock.owner = a /\ ~InForm(a) /\ reply[a] = Held
  BY <1>4 DEF HoldOk
<1>6. CASE ~Valid(next)
  <2>1. Ended(a, 0)
    BY <1>1, <1>2, <1>6 DEF Outlined
  <2> QED BY <2>1, EndedKeeps
<1>7. CASE Valid(next)
  <2>1. PICK shown \in BOOLEAN : shown <=> (t.shown \/ next # t.rect)
    OBVIOUS
  <2>2. PICK u : u = [t EXCEPT !.rect = next, !.shown = shown]
    OBVIOUS
  <2>3. t.op \in {"rub", "drag", "slide"}
    BY <1>1, <1>3 DEF BoxOk, Tracks, Tracking
  <2>4. BoxOk(u) /\ u.op = t.op /\ u.rect = next /\ u.shown = shown
    <3>1. BoxOk(t) /\ x \in Int /\ shown \in BOOLEAN
      BY <1>3
    <3>2. Valid(next) /\ u = Redrawn(t, next, shown)
      BY <1>7, <2>2 DEF Redrawn
    <3> QED BY ONLY <1>2, <2>3, <3>1, <3>2, MovedOk
  <2>5. shown = (t.shown \/ next # t.rect)
    BY <1>3, <2>1
  <2>6. track' = Replaced(track, a, u)
    <3>1. track' = [track EXCEPT ![a].rect = next, ![a].shown = t.shown \/ next # t.rect]
      BY <1>1, <1>2, <1>7 DEF Outlined
    <3> QED BY <1>1, <1>3, <2>2, <2>5, <3>1 DEF Replaced, IsOn
  <2>7. /\ UNCHANGED <<lock, reply>>
        /\ lines' = IF next = t.rect THEN lines
                    ELSE Xor(IF t.shown THEN Xor(lines, t.rect) ELSE lines, next)
    BY <1>1, <1>2, <1>7 DEF Outlined, Erased
  <2>8. Others(track, track', a) /\ track'[a] = u
    BY <1>3, <2>6, Put DEF Others
  <2>9. Others(reply, reply', a) /\ reply'[a] = Held
    BY <1>3, <1>5, <2>7 DEF Others
  <2>10. Tracking(a)'
    BY <2>3, <2>4, <2>8 DEF Tracking
  <2>11. lines' = ShownOf(track')
    <3>1. \A b \in Apps \ {a} : ~track[b].shown
      BY <1>5, OneOutline
    <3>2. lines = IF t.shown THEN {t.rect} ELSE {}
      BY <1>1, <1>3, <3>1, OutlineOf
    <3>3. \A b \in Apps \ {a} : ~track'[b].shown
      BY <2>8, <3>1 DEF Others
    <3>4. ShownOf(track') = IF shown THEN {next} ELSE {}
      BY <2>4, <2>8, <3>3, OutlineOf
    <3> QED BY <2>1, <2>7, <3>2, <3>4 DEF Xor
  <2>12. lock' \in Locks /\ Passed(lock.owner, lock'.owner, a) /\ lock'.owner = a
    BY <1>5, <2>7, LockStays
  <2>13. BoxOk(track'[a]) /\ (reply'[a] = Held <=> Tracking(a)')
    BY <2>4, <2>8, <2>9, <2>10
  <2> QED BY <1>5, <2>8, <2>9, <2>11, <2>12, <2>13, TrackKeeps
<1> QED BY <1>6, <1>7

LEMMA GrafSampleKeeps ==
    ASSUME IInv, NEW a \in Apps, a \in live, form[a].kind = "free",
           NEW x \in Int, NEW down \in BOOLEAN, GrafSample(a, x, down), UNCHANGED formVars
    PROVE  IInv'
<1>1. mouse' \in [x : Int, down : BOOLEAN] /\ UNCHANGED live
  BY DEF GrafSample
<1>2. /\ IsOn(track) /\ IsOn(reply) /\ lines = ShownOf(track) /\ BoxOk(track[a])
  BY BoxTyped
<1>3. HoldOk(a) /\ ~InForm(a)
  BY DEF IInv, InForm
<1>4. CASE ~Tracking(a)
  <2>1. UNCHANGED <<track, lines, watch, lock, reply>>
    BY <1>4 DEF GrafSample
  <2>2. reply[a] # Held /\ Others(reply, reply', a) /\ reply'[a] # Held
    BY <1>2, <1>3, <1>4, <2>1 DEF HoldOk, Others
  <2>3. TreeKept(a)
    BY TreeStays DEF formVars, treeVars
  <2>4. lock' \in Locks /\ Passed(lock.owner, lock'.owner, a)
    BY <2>1, LockStays
  <2>5. OtherLive(a) /\ UNCHANGED <<form, track, alert, lines>>
    BY <1>1, <2>1 DEF OtherLive, formVars, IInv, TypesOn
  <2> QED BY <1>1, <2>2, <2>3, <2>4, <2>5, QuietKeeps
<1>5. CASE Tracking(a) /\ ~down
  <2>1. PICK out : Ended(a, out)
    BY <1>5 DEF GrafSample, Released
  <2> QED BY <1>1, <1>5, <2>1, EndedKeeps
<1>6. CASE Tracking(a) /\ down /\ track[a].op # "watch"
  <2>1. Outlined(a, x)
    BY <1>6 DEF GrafSample
  <2> QED BY <1>1, <1>6, <2>1, OutlinedKeeps
<1>7. CASE Tracking(a) /\ down /\ track[a].op = "watch"
  <2>1. UNCHANGED <<track, lines, lock, reply>>
    BY <1>7 DEF GrafSample, Watched
  <2>2. lock' \in Locks /\ Passed(lock.owner, lock'.owner, a)
    BY <2>1, LockStays
  <2>3. Others(track, track', a) /\ Others(reply, reply', a) /\ BoxOk(track'[a])
    BY <1>2, <2>1 DEF Others
  <2>4. (reply'[a] = Held <=> Tracking(a)') /\ ~Drawing(a)'
    BY <1>3, <1>7, <2>1 DEF HoldOk, Tracking, Drawing
  <2>5. lines' = ShownOf(track')
    BY <1>2, <2>1
  <2> QED BY <1>1, <1>3, <2>2, <2>3, <2>4, <2>5, TrackKeeps
<1> QED BY <1>4, <1>5, <1>6, <1>7

\* gem_aes_resident_exit: what a client holds goes with it.
LEMMA DetachKeeps ==
    ASSUME IInv, NEW a \in Apps, Detach(a)
    PROVE  IInv'
<1>1. /\ a \in live /\ live' = live \ {a} /\ UNCHANGED treeVars /\ UNCHANGED mouse
      /\ lock' = IF lock.owner = a THEN NoLock ELSE lock
      /\ reply' = Replaced(reply, a, Idle) /\ form' = Replaced(form, a, Free)
      /\ track' = Replaced(track, a, NoTrack)
      /\ alert' = IF alert.owner = a THEN NoAlert ELSE alert
      /\ lines' = IF track[a].shown THEN Xor(lines, track[a].rect) ELSE lines
  BY DEF Detach, ModalDetach, FormDetach, GrafDetach, Answered, Erased, Replaced
<1>2. /\ BoxOk(track[a]) /\ track[a].shown \in BOOLEAN /\ IsOn(track) /\ IsOn(reply)
      /\ lines = ShownOf(track) /\ lock \in Locks
  BY BoxTyped
<1>3. HoldOk(a) /\ TypesOn
  BY DEF IInv
<1>4. TreeKept(a)
  BY <1>1, TreeStays
<1>5. Others(track, track', a) /\ track'[a] = NoTrack
  BY <1>1, <1>2, Put DEF Others
<1>6. Others(reply, reply', a) /\ reply'[a] # Held
  BY <1>1, <1>2, Put, Answers DEF Others
<1>7. Others(form, form', a) /\ form'[a] = Free
  BY <1>1, <1>3, Put DEF Others, TypesOn
<1>8. /\ NoTrack \in Tracks /\ NoTrack.op = "none" /\ ~NoTrack.shown
  BY DEF NoTrack, Tracks, Rects
<1>9. NoLock \in Locks /\ NoLock.owner = NoApp
  BY DEF NoLock, Locks
<1>10. /\ NoAlert \in [owner : Apps \cup {NoApp}, n : Nat, def : Int, esc : Int, sel : SUBSET Int]
       /\ NoAlert.owner = NoApp
  BY DEF NoAlert
<1>11. TypesOn'
  BY <1>1, <1>2, <1>3, <1>4, <1>5, <1>6, <1>7, <1>9, <1>10
     DEF TypesOn, Others, TreeKept, Locks
<1>12. Elsewhere(a)
  BY <1>1, <1>4, <1>5, <1>6, <1>7 DEF Elsewhere, Others, TreeKept
<1>13. Passed(lock.owner, lock'.owner, a) /\ Passed(alert.owner, alert'.owner, a)
  BY <1>1, <1>9, <1>10 DEF Passed
<1>14. TreeOk(a)'
  BY <1>4, <1>7 DEF TreeOk, TreeKept, Free
<1>15. alert'.owner # a
  BY <1>1, <1>10, ModalAssumption
<1>16. HoldOk(a)'
  BY <1>5, <1>6, <1>7, <1>8, <1>15 DEF HoldOk, InForm, Tracking, Drawing, Free
<1>17. BoxOk(track'[a])
  BY <1>5, <1>8 DEF BoxOk, Boxed
<1>18. lines' = ShownOf(track')
  <2>1. CASE ~track[a].shown
    <3>1. ShownOf(track') = ShownOf(track)
      BY <1>5, <1>8, <2>1, NothingShown
    <3> QED BY <1>1, <1>2, <2>1, <3>1
  <2>2. CASE track[a].shown
    <3>1. Drawing(a)
      BY <1>2, <2>2 DEF BoxOk, Drawing, Tracking
    <3>2. \A b \in Apps \ {a} : ~track[b].shown
      BY <1>3, <3>1, OneOutline DEF HoldOk
    <3>3. lines = {track[a].rect}
      BY <1>2, <2>2, <3>2, OutlineOf
    <3>4. \A b \in Apps \ {a} : ~track'[b].shown
      BY <1>5, <3>2 DEF Others
    <3>5. ShownOf(track') = {}
      BY <1>5, <1>8, <3>4, OutlineOf
    <3> QED BY <1>1, <2>2, <3>3, <3>5 DEF Xor
  <2> QED BY <1>2, <2>1, <2>2
<1>19. lines' = Outlines'
  BY <1>18 DEF Outlines, ShownOf
<1> QED BY <1>11, <1>12, <1>13, <1>14, <1>16, <1>17, <1>19, StepKeeps-----------------------------------------------------------------------------
(* Forms go on and end *)

AlertTrees ==
    [owner : Apps \cup {NoApp}, n : Nat, def : Int, esc : Int, sel : SUBSET Int]

LEMMA FormGoesOn ==
    ASSUME IInv, NEW a \in Apps, InForm(a), NEW f, f.kind = form[a].kind, f.ended \in BOOLEAN,
           NEW repainted, Serviced(a, f, repainted), UNCHANGED grafVars, TreeKept(a),
           ~f.ended => /\ f.kind = "do" => Good(State(a)')
                       /\ f.kind # "do" => f \in AlertForms,
           alert' \in AlertTrees, Passed(alert.owner, alert'.owner, a),
           alert'.owner = a <=> (~f.ended /\ f.kind # "do")
    PROVE  IInv'
<1>1. HoldOk(a) /\ TypesOn
  BY DEF IInv
<1>2. /\ lock.owner = a /\ ~Tracking(a) /\ ~Drawing(a) /\ reply[a] = Held /\ a \in live
  BY <1>1 DEF HoldOk, Drawing
<1>3. track' = track /\ lines' = lines /\ mouse' = mouse /\ live' = live
  BY DEF grafVars, Serviced
<1>4. ~Tracking(a)' /\ ~Drawing(a)'
  BY <1>2, <1>3 DEF Tracking, Drawing
<1>5. BoxOk(track'[a]) /\ lines' = Outlines'
  BY <1>3 DEF IInv, Outlines
<1>6. IsOn(form) /\ IsOn(reply) /\ lock \in Locks
  BY <1>1 DEF TypesOn, Locks
<1>7. CASE f.ended
  <2>1. /\ form' = Replaced(form, a, Free) /\ lock' = Given(lock, a)
        /\ reply' = Replaced(reply, a, IF repainted THEN Answer(f.result) ELSE Failed)
    BY <1>7 DEF Serviced, Answered, Replaced
  <2>2. Others(form, form', a) /\ form'[a] = Free
    BY <1>6, <2>1, Put DEF Others
  <2>3. Others(reply, reply', a) /\ reply'[a] # Held
    BY <1>6, <2>1, Put, Answers DEF Others
  <2>4. lock' \in Locks /\ Passed(lock.owner, lock'.owner, a)
    BY <1>6, <2>1, LockStep DEF Locks
  <2>5. TypesOn'
    BY <1>1, <1>3, <2>2, <2>3, <2>4 DEF TypesOn, Others, TreeKept, Locks, AlertTrees
  <2>6. Elsewhere(a)
    BY <1>3, <2>2, <2>3 DEF Elsewhere, Others, TreeKept
  <2>7. TreeOk(a)'
    BY <2>2 DEF TreeOk, TreeKept, Free
  <2>8. HoldOk(a)'
    BY <1>4, <1>7, <2>2, <2>3 DEF HoldOk, InForm, Free
  <2> QED BY <1>5, <2>4, <2>5, <2>6, <2>7, <2>8, StepKeeps
<1>8. CASE ~f.ended
  <2>1. /\ form' = Replaced(form, a, f) /\ lock' = lock /\ reply' = reply
    BY <1>8 DEF Serviced, Replaced
  <2>2. Others(form, form', a) /\ form'[a] = f
    BY <1>6, <2>1, Put DEF Others
  <2>3. Others(reply, reply', a) /\ reply'[a] = Held
    BY <1>2, <1>6, <2>1 DEF Others
  <2>4. lock' \in Locks /\ Passed(lock.owner, lock'.owner, a) /\ lock'.owner = a
    BY <1>2, <1>6, <2>1 DEF Passed
  <2>5. TypesOn'
    BY <1>1, <1>3, <2>2, <2>3, <2>4 DEF TypesOn, Others, TreeKept, Locks, AlertTrees
  <2>6. Elsewhere(a)
    BY <1>3, <2>2, <2>3 DEF Elsewhere, Others, TreeKept
  <2>7. TreeOk(a)'
    <3>1. CASE f.kind = "do"
      BY <1>8, <2>2, <3>1 DEF TreeOk, TreeKept
    <3>2. CASE f.kind # "do"
      BY <1>8, <2>2, <3>2 DEF TreeOk, TreeKept
    <3> QED BY <3>1, <3>2
  <2>8. InForm(a)'
    BY <2>2 DEF InForm
  <2>9. HoldOk(a)'
    BY <1>2, <1>3, <1>4, <1>8, <2>2, <2>3, <2>4, <2>8 DEF HoldOk
  <2> QED BY <1>5, <2>4, <2>5, <2>6, <2>7, <2>9, StepKeeps
<1> QED BY <1>7, <1>8

\* What a FORM_DO is, a sample later.
LEMMA DoSampled ==
    ASSUME IInv, NEW a \in Apps, form[a].kind = "do",
           NEW o \in ObjectsOf(a) \cup {Nil}, NEW down \in BOOLEAN, NEW key,
           NEW S, S = Sampled(State(a), o, down, key)
    PROVE  /\ Good(S) /\ S.a = a /\ S.f.kind = "do" /\ S.f.saved = form[a].saved
           /\ S.f.ended \in BOOLEAN /\ (S.f.ended => Exits(S))
<1>1. TreeOk(a)
  BY DEF IInv
<1>2. Good(State(a)) /\ ~form[a].ended
  BY <1>1 DEF TreeOk, Free, AlertForms
<1>3. State(a).a = a /\ State(a).f = form[a]
  BY DEF State
<1>4. Goes(State(a), S)
  <2>1. o \in ObjectsOf(State(a).a) \cup {Nil} /\ ~State(a).f.ended
    BY <1>2, <1>3
  <2> QED BY <1>2, <2>1, SampledGoes
<1>5. S.f \in DoForms(S.a)
  BY <1>4 DEF Goes, After, Good
<1> QED BY <1>3, <1>4, <1>5 DEF Goes, After, DoForms

LEMMA FormSampleKeeps ==
    ASSUME IInv, NEW a \in Apps, NEW o \in ObjectsOf(a) \cup {Nil}, NEW down \in BOOLEAN,
           NEW key, FormSample(a, o, down, key), UNCHANGED grafVars
    PROVE  IInv'
<1>1. PICK S : S = Sampled(State(a), o, down, key)
  OBVIOUS
<1>2. form[a].kind = "do" /\ Leave(S) /\ Serviced(a, S.f, TRUE) /\ alert' = alert
  BY <1>1 DEF FormSample
<1>3. Good(S) /\ S.a = a /\ S.f.kind = "do" /\ S.f.ended \in BOOLEAN
  BY <1>1, <1>2, DoSampled
<1>4. TypesOn /\ HoldOk(a)
  BY DEF IInv
<1>5. TreeKept(a)
  <2>1. TreeKept(S.a)
    BY ONLY <1>2, <1>3, <1>4, LeaveKeepsTree
  <2> QED BY <1>3, <2>1
<1>6. InForm(a)
  BY <1>2 DEF InForm
<1>7. alert' \in AlertTrees /\ Passed(alert.owner, alert'.owner, a) /\ alert'.owner # a
  BY <1>2, <1>4 DEF TypesOn, AlertTrees, Passed, HoldOk
<1>8. ASSUME ~S.f.ended PROVE Good(State(a)')
  <2>1. form' = Replaced(form, a, S.f)
    BY <1>2, <1>8 DEF Serviced, Replaced
  <2>2. form'[S.a] = S.f
    BY <1>3, <1>4, <2>1, Put DEF TypesOn
  <2>3. Good(State(S.a)')
    BY ONLY <1>2, <1>3, <1>4, <2>2, LeftForm
  <2> QED BY <1>3, <2>3
<1>9. S.f.kind = form[a].kind
  BY <1>2, <1>3
<1>10. ~S.f.ended => /\ S.f.kind = "do" => Good(State(a)')
                     /\ S.f.kind # "do" => S.f \in AlertForms
  BY <1>3, <1>8
<1>11. alert'.owner = a <=> (~S.f.ended /\ S.f.kind # "do")
  BY <1>3, <1>7
<1> QED BY ONLY IInv, a \in Apps, UNCHANGED grafVars, <1>2, <1>3, <1>5, <1>6, <1>7, <1>9, <1>10,
                <1>11, FormGoesOn

\* gem_form_alert_input and its keys: the alert goes on, or it has ended.
LEMMA AlertGoes ==
    ASSUME NEW f \in AlertForms, NEW alarm \in AlertTrees, NEW b \in Int,
           NEW down \in BOOLEAN, NEW key, NEW F, F = AlertSampled(f, alarm, b, down, key)
    PROVE  F.f \in AlertForms /\ F.f.kind = f.kind /\ F.sel \in SUBSET Int
<1>1. PICK F0 : F0 = [f |-> f, sel |-> alarm.sel]
  OBVIOUS
<1>2. PICK keyed : keyed = AlertKey(alarm, key)
  OBVIOUS
<1>3. PICK p \in Int : p = f.pressed
  BY DEF AlertForms
<1>4. keyed \in Int
  BY <1>2 DEF AlertKey, Nil, AlertTrees
<1>5. f.before \in SUBSET Int /\ alarm.sel \in SUBSET Int /\ Nil \in Int
  BY DEF AlertForms, AlertTrees, Nil
<1>6. ASSUME NEW sel \in SUBSET Int, NEW c \in Int, NEW G, G = [f |-> f, sel |-> sel],
             NEW E, E = AlertEnded(G, c)
      PROVE  E.f \in AlertForms /\ E.f.kind = f.kind /\ E.sel = sel
  <2>1. PICK result : result = IF f.kind = "alert" THEN c ELSE IF c = 1 THEN 0 ELSE 1
    OBVIOUS
  <2>2. PICK g : g = [f EXCEPT !.ended = TRUE, !.pressed = Nil, !.result = result]
    OBVIOUS
  <2>3. E = [f |-> g, sel |-> sel]
    BY <1>6, <2>1, <2>2 DEF AlertEnded
  <2>4. result \in Int
    BY <1>6, <2>1
  <2>5. g \in AlertForms /\ g.kind = f.kind
    BY <1>5, <2>2, <2>4 DEF AlertForms
  <2> QED BY <2>3, <2>5
<1>7. CASE keyed # Nil
  <2>1. PICK sel : sel = alarm.sel \cup {keyed}
    OBVIOUS
  <2>2. sel \in SUBSET Int
    BY <1>4, <1>5, <2>1
  <2>3. F = AlertEnded([f |-> f, sel |-> sel], keyed)
    BY <1>1, <1>2, <1>7, <2>1 DEF AlertSampled
  <2> QED BY <1>4, <1>6, <2>2, <2>3
<1>8. CASE keyed = Nil
  <2>1. PICK press : press = [F0 EXCEPT !.f.pressed = b,
                    !.f.before = IF b = Nil THEN f.before ELSE F0.sel \cap {b},
                    !.sel = IF b = Nil THEN F0.sel ELSE (F0.sel \ {b}) \cup ({b} \ F0.sel)]
    OBVIOUS
  <2>2. press.f \in AlertForms /\ press.f.kind = f.kind /\ press.sel \in SUBSET Int
    <3>1. PICK before : before = IF b = Nil THEN f.before ELSE alarm.sel \cap {b}
      OBVIOUS
    <3>2. PICK sel : sel = IF b = Nil THEN alarm.sel ELSE (alarm.sel \ {b}) \cup ({b} \ alarm.sel)
      OBVIOUS
    <3>3. PICK g : g = [f EXCEPT !.pressed = b, !.before = before]
      OBVIOUS
    <3>4. press = [f |-> g, sel |-> sel]
      BY <1>1, <2>1, <3>1, <3>2, <3>3
    <3>5. before \in SUBSET Int /\ sel \in SUBSET Int
      BY <1>5, <3>1, <3>2
    <3>6. g \in AlertForms /\ g.kind = f.kind
      BY <3>3, <3>5 DEF AlertForms
    <3> QED BY <3>4, <3>5, <3>6
  <2>3. PICK release : release = IF b = p THEN AlertEnded(F0, p)
                                 ELSE [F0 EXCEPT !.sel = (F0.sel \ {p}) \cup f.before]
    OBVIOUS
  <2>4. release.f \in AlertForms /\ release.f.kind = f.kind /\ release.sel \in SUBSET Int
    <3>1. CASE b = p
      <4>1. release = AlertEnded(F0, p)
        BY <2>3, <3>1
      <4> QED BY <1>1, <1>3, <1>5, <1>6, <4>1
    <3>2. CASE b # p
      <4>1. release = [f |-> f, sel |-> (alarm.sel \ {p}) \cup f.before]
        BY <1>1, <2>3, <3>2
      <4> QED BY <1>5, <4>1
    <3> QED BY <3>1, <3>2
  <2>5. PICK next : next = IF down /\ ~f.down THEN press
                           ELSE IF ~down /\ f.down /\ p # Nil
                           THEN [release EXCEPT !.f.pressed = Nil] ELSE F0
    OBVIOUS
  <2>6. next.f \in AlertForms /\ next.f.kind = f.kind /\ next.sel \in SUBSET Int
        /\ next = [f |-> next.f, sel |-> next.sel]
    <3>1. CASE down /\ ~f.down
      BY <1>1, <2>1, <2>2, <2>5, <3>1
    <3>2. CASE ~(down /\ ~f.down) /\ (~down /\ f.down /\ p # Nil)
      <4>1. PICK g : g = [release.f EXCEPT !.pressed = Nil]
        OBVIOUS
      <4>2. g \in AlertForms /\ g.kind = f.kind
        BY <1>5, <2>4, <4>1 DEF AlertForms
      <4>3. release = [f |-> release.f, sel |-> release.sel]
        BY <1>1, <2>3 DEF AlertEnded
      <4>4. next = [f |-> g, sel |-> release.sel]
        BY <2>5, <3>2, <4>1, <4>3
      <4> QED BY <2>4, <4>2, <4>4
    <3>3. CASE ~(down /\ ~f.down) /\ ~(~down /\ f.down /\ p # Nil)
      BY <1>1, <1>5, <2>5, <3>3
    <3> QED BY <3>1, <3>2, <3>3
  <2>7. F = [next EXCEPT !.f.down = down]
    BY <1>1, <1>2, <1>3, <1>8, <2>1, <2>3, <2>5 DEF AlertSampled
  <2>8. PICK g : g = [next.f EXCEPT !.down = down]
    OBVIOUS
  <2>9. g \in AlertForms /\ g.kind = f.kind
    BY <2>6, <2>8 DEF AlertForms
  <2>10. F = [f |-> g, sel |-> next.sel]
    BY <2>6, <2>7, <2>8
  <2> QED BY <2>6, <2>9, <2>10
<1> QED BY <1>7, <1>8

LEMMA AlertSampleKeeps ==
    ASSUME IInv, NEW a \in Apps, NEW b \in Int, NEW down \in BOOLEAN, NEW key,
           NEW repainted, AlertSample(a, b, down, key, repainted), UNCHANGED grafVars
    PROVE  IInv'
<1>1. PICK F : F = AlertSampled(form[a], alert, b, down, key)
  OBVIOUS
<1>2. /\ form[a].kind \in {"alert", "error"} /\ Serviced(a, F.f, repainted)
      /\ alert' = IF F.f.ended THEN NoAlert ELSE [alert EXCEPT !.sel = F.sel]
      /\ UNCHANGED treeVars
  BY <1>1 DEF AlertSample
<1>3. TypesOn /\ HoldOk(a) /\ TreeOk(a)
  BY DEF IInv
<1>4. InForm(a) /\ alert.owner = a /\ alert \in AlertTrees
  BY <1>2, <1>3 DEF InForm, HoldOk, TypesOn, AlertTrees
<1>5. form[a] \in AlertForms
  BY <1>2, <1>3 DEF TreeOk, Free
<1>6. F.f \in AlertForms /\ F.f.kind = form[a].kind /\ F.sel \in SUBSET Int
  BY <1>1, <1>4, <1>5, AlertGoes
<1>7. F.f.ended \in BOOLEAN /\ F.f.kind # "do"
  BY <1>2, <1>6 DEF AlertForms
<1>8. TreeKept(a)
  BY <1>2, TreeStays
<1>9. /\ NoAlert \in AlertTrees /\ NoAlert.owner = NoApp
  BY DEF NoAlert, AlertTrees
<1>10. PICK alarm : alarm = [alert EXCEPT !.sel = F.sel]
  OBVIOUS
<1>11. alarm \in AlertTrees /\ alarm.owner = a
  BY <1>4, <1>6, <1>10 DEF AlertTrees
<1>12. /\ alert' \in AlertTrees /\ Passed(alert.owner, alert'.owner, a)
       /\ alert'.owner = a <=> (~F.f.ended /\ F.f.kind # "do")
  <2>1. CASE F.f.ended
    BY <1>2, <1>4, <1>9, <2>1, ModalAssumption DEF Passed
  <2>2. CASE ~F.f.ended
    BY <1>2, <1>4, <1>7, <1>10, <1>11, <2>2 DEF Passed
  <2> QED BY <1>7, <2>1, <2>2
<1>13. ~F.f.ended => /\ F.f.kind = "do" => Good(State(a)')
                     /\ F.f.kind # "do" => F.f \in AlertForms
  BY <1>6, <1>7
<1> QED BY ONLY IInv, a \in Apps, UNCHANGED grafVars, <1>2, <1>4, <1>6, <1>7, <1>8, <1>12, <1>13,
                FormGoesOn-----------------------------------------------------------------------------
(* The invariant *)

LEMMA InitialState ==
    ASSUME ScreenInit
    PROVE  IInv
<1>1. /\ live = Apps /\ lock = NoLock /\ reply = [a \in Apps |-> Idle]
      /\ form = [a \in Apps |-> Free] /\ defaults = Initial /\ alert = NoAlert
      /\ look = [a \in Apps |-> [o \in ObjectsOf(a) |-> {}]]
      /\ text = [a \in Apps |-> [o \in ObjectsOf(a) |-> 0]]
      /\ mouse = [x |-> 0, down |-> FALSE] /\ track = [a \in Apps |-> NoTrack] /\ lines = {}
  BY DEF ScreenInit, ModalInit, FormInit, GrafInit
<1>2. Initial = [a \in Apps |-> Initial[a]]
  BY FormAssumption
<1>3. /\ IsOn(form) /\ IsOn(look) /\ IsOn(defaults) /\ IsOn(text) /\ IsOn(track) /\ IsOn(reply)
  BY <1>1, <1>2 DEF IsOn
<1>4. /\ mouse \in [x : Int, down : BOOLEAN]
      /\ lock \in [owner : Apps \cup {NoApp}, depth : Int]
      /\ alert \in [owner : Apps \cup {NoApp}, n : Nat, def : Int, esc : Int, sel : SUBSET Int]
  BY <1>1 DEF NoLock, NoAlert
<1>5. TypesOn
  BY <1>1, <1>3, <1>4 DEF TypesOn
<1>6. ASSUME NEW a \in Apps PROVE TreeOk(a) /\ HoldOk(a) /\ BoxOk(track[a])
  <2>1. PICK T : T = Tree(a)
    OBVIOUS
  <2>2. PICK lk : lk = [o \in ObjectsOf(a) |-> {}]
    OBVIOUS
  <2>3. PICK tx : tx = [o \in ObjectsOf(a) |-> 0]
    OBVIOUS
  <2>4. lk \in Looks(a) /\ Single(a, lk) /\ Initial[a] \in SUBSET Plain(a) /\ tx \in Texts(a)
    BY <2>2, <2>3, FreshTree
  <2>5. T = [a |-> a, f |-> Free, look |-> lk, def |-> Initial[a], text |-> tx]
    BY <1>1, <2>1, <2>2, <2>3 DEF Tree
  <2>6. Root \in ObjectsOf(a) /\ Root \in Nat
    BY FormAssumption DEF Root, ObjectsOf
  <2>7. Free \in DoForms(a) /\ Free.index = 0 /\ Free.edit = Root
    BY <2>6 DEF DoForms, Free, Root, Nil
  <2>8. tx[Root] \in Nat
    BY <2>4, <2>6 DEF Texts
  <2>9. /\ T.a = a /\ T.f = Free /\ T.look = lk /\ T.def = Initial[a] /\ T.text = tx
        /\ T \in [a : {a}, f : DoForms(a), look : Looks(a), def : SUBSET Plain(a),
                  text : Texts(a)]
    BY <2>4, <2>5, <2>7
  <2>10. Good(T)
    BY <2>4, <2>7, <2>8, <2>9 DEF Good
  <2>11. form[a] = Free /\ reply[a] = Idle /\ track[a] = NoTrack
    BY <1>1
  <2>12. TreeOk(a)
    BY <2>1, <2>10, <2>11 DEF TreeOk, Free
  <2>13. ~InForm(a) /\ ~Tracking(a) /\ ~Drawing(a)
    BY <2>11 DEF InForm, Tracking, Drawing, Free, NoTrack
  <2>14. HoldOk(a)
    BY <1>1, <2>11, <2>13, Answers, ModalAssumption DEF HoldOk, NoAlert
  <2>15. NoTrack \in Tracks /\ NoTrack.op = "none" /\ ~NoTrack.shown
    BY DEF NoTrack, Tracks, Rects
  <2>16. BoxOk(track[a])
    BY <2>11, <2>15 DEF BoxOk, Boxed
  <2> QED BY <2>12, <2>14, <2>16
<1>7. lines = Outlines
  <2>1. \A b \in Apps : ~track[b].shown
    BY <1>1 DEF NoTrack
  <2> QED BY <1>1, <2>1 DEF Outlines
<1> QED BY <1>5, <1>6, <1>7 DEF IInv

LEMMA ReceiverTyped ==
    ASSUME IInv
    PROVE  Receiver \in Apps
<1> QED BY ScreenAssumption DEF Receiver, IInv, TypesOn

LEMMA PollKeeps ==
    ASSUME IInv, NEW s \in Samples, PollForm(s) \/ \E gadget \in BOOLEAN : PollRest(s, gadget)
    PROVE  IInv'
<1>1. PICK a \in Apps : a = Receiver
  BY ReceiverTyped
<1>2. s.x \in Int /\ s.down \in BOOLEAN /\ ObjectAt[a][s.x] \in ObjectsOf(a) \cup {Nil}
  BY ScreenAssumption DEF ObjectsOf, Nil
<1>3. CASE FormSample(a, ObjectAt[a][s.x], s.down, s.key) /\ UNCHANGED grafVars
  BY <1>2, <1>3, FormSampleKeeps
<1>4. ASSUME NEW repainted \in BOOLEAN,
             AlertSample(a, IF ButtonAt[s.x] \in 1 .. alert.n THEN ButtonAt[s.x]
                            ELSE Nil, s.down, s.key, repainted),
             UNCHANGED grafVars
      PROVE  IInv'
  <2>1. PICK b : b = IF ButtonAt[s.x] \in 1 .. alert.n THEN ButtonAt[s.x] ELSE Nil
    OBVIOUS
  <2>2. b \in Int
    BY <2>1 DEF IInv, TypesOn, Nil
  <2> QED BY <1>2, <1>4, <2>1, <2>2, AlertSampleKeeps
<1>5. ASSUME NEW gadget \in BOOLEAN, PollRest(s, gadget) PROVE IInv'
  <2>1. a \in live /\ form[a].kind = "free" /\ GrafSample(a, s.x, s.down) /\ UNCHANGED formVars
    BY <1>1, <1>5 DEF PollRest
  <2> QED BY <1>2, <2>1, GrafSampleKeeps
<1>6. CASE PollForm(s)
  BY <1>1, <1>3, <1>4, <1>6 DEF PollForm
<1> QED BY <1>5, <1>6

LEMMA FormCallsKeep ==
    ASSUME IInv, NEW a \in Apps, FormCalls(a), UNCHANGED grafVars
    PROVE  IInv'
<1> QED BY FormDoKeeps, FormAlertKeeps, FormButtonKeeps, FormKeybdKeeps, ObjcEditKeeps
        DEF FormCalls

LEMMA GrafCallsKeep ==
    ASSUME IInv, NEW a \in Apps, GrafCalls(a), UNCHANGED formVars
    PROVE  IInv'
<1> QED BY WatchBoxKeeps, TrackBoxKeeps, AnimateKeeps, MkStateKeeps DEF GrafCalls

LEMMA StutterKeeps ==
    ASSUME IInv, UNCHANGED screenVars
    PROVE  IInv'
<1>1. /\ form' = form /\ look' = look /\ defaults' = defaults /\ text' = text /\ alert' = alert
      /\ mouse' = mouse /\ track' = track /\ lines' = lines
      /\ live' = live /\ lock' = lock /\ reply' = reply
  BY DEF screenVars, formVars, grafVars, modalVars
<1>2. TypesOn' /\ lines' = Outlines'
  BY <1>1 DEF IInv, TypesOn, Outlines
<1>3. ASSUME NEW a \in Apps PROVE (TreeOk(a) /\ HoldOk(a) /\ BoxOk(track[a]))'
  <2>1. Tree(a)' = Tree(a) /\ State(a)' = State(a)
    BY <1>1 DEF Tree, State
  <2>2. TreeOk(a)'
    BY <1>1, <2>1 DEF IInv, TreeOk
  <2>3. HoldOk(a)'
    BY <1>1 DEF IInv, HoldOk, InForm, Tracking, Drawing
  <2> QED BY <1>1, <2>2, <2>3 DEF IInv
<1> QED BY <1>2, <1>3 DEF IInv

LEMMA NextKeeps ==
    ASSUME IInv, [ScreenNext]_screenVars
    PROVE  IInv'
<1>1. CASE UNCHANGED screenVars
  BY <1>1, StutterKeeps
<1>2. CASE Poll
  BY <1>2, PollKeeps DEF Poll
<1>3. ASSUME NEW a \in Apps,
             \/ FormCalls(a) /\ UNCHANGED <<grafVars, top, evnt>>
             \/ GrafCalls(a) /\ UNCHANGED <<formVars, top, evnt>>
             \/ (LockTake(a) \/ LockGive(a)) /\ UNCHANGED <<formVars, grafVars, top, evnt>>
             \/ Read(a) \/ Detach(a) \/ Attach(a)
             \/ \E new \in live : WindowTop(a, new)
      PROVE  IInv'
  <2>1. CASE FormCalls(a) /\ UNCHANGED <<grafVars, top, evnt>>
    <3>1. UNCHANGED grafVars
      BY <2>1
    <3> QED BY <2>1, <3>1, FormCallsKeep
  <2>2. CASE GrafCalls(a) /\ UNCHANGED <<formVars, top, evnt>>
    <3>1. UNCHANGED formVars
      BY <2>2
    <3> QED BY <2>2, <3>1, GrafCallsKeep
  <2>3. CASE (LockTake(a) \/ LockGive(a)) /\ UNCHANGED <<formVars, grafVars, top, evnt>>
    <3>1. UNCHANGED <<formVars, grafVars>>
      BY <2>3
    <3> QED BY <2>3, <3>1, LockTakeKeeps, LockGiveKeeps
  <2>4. CASE Read(a)
    BY <2>4, ReadKeeps
  <2>5. CASE Detach(a)
    BY <2>5, DetachKeeps
  <2>6. CASE Attach(a)
    BY <2>6, AttachKeeps
  <2>7. CASE \E new \in live : WindowTop(a, new)
    BY <2>7, WindowTopKeeps
  <2> QED BY <1>3, <2>1, <2>2, <2>3, <2>4, <2>5, <2>6, <2>7
<1> QED BY <1>1, <1>2, <1>3 DEF ScreenNext

LEMMA Strengthens ==
    ASSUME IInv
    PROVE  ScreenSafety
<1>1. HeldForModal
  BY DEF HeldForModal, IInv, HoldOk
<1>2. OutlinesMatch
  BY DEF OutlinesMatch, IInv, Outlines
<1>3. BoxesStayInside
  <2>1. ASSUME NEW a \in Apps, NEW t, t = track[a]
        PROVE  /\ Drawing(a) => t.rect.x \in 0 .. Width - 1
               /\ t.op \in {"drag", "slide"} =>
                    t.rect.x >= t.cons.x /\ t.rect.x + t.rect.w <= t.cons.x + t.cons.w
               /\ t.op = "rub" => t.rect.x + t.rect.w <= Width
    <3>1. BoxOk(t)
      BY <2>1 DEF IInv
    <3>2. Drawing(a) => t.op \in {"rub", "drag", "slide"}
      BY <2>1, <3>1 DEF Drawing, Tracking, BoxOk, Tracks
    <3> QED BY <3>1, <3>2 DEF BoxOk, Boxed
  <2> QED BY <2>1 DEF BoxesStayInside
<1>4. TextsFit
  <2>1. ASSUME NEW a \in Apps
        PROVE  /\ \A o \in ObjectsOf(a) : text[a][o] \in 0 .. Limit - 1
               /\ form[a].kind = "do" => form[a].index \in 0 .. text[a][form[a].edit]
    <3>1. text[a] \in Texts(a)
      BY TreeTyped
    <3>2. ASSUME form[a].kind = "do" PROVE form[a].index \in 0 .. text[a][form[a].edit]
      <4>1. Good(State(a))
        BY <3>2 DEF IInv, TreeOk, Free, AlertForms
      <4>2. PICK S : S = State(a)
        OBVIOUS
      <4>3. S.a = a /\ S.f = form[a] /\ S.text = text[a]
        BY <4>2 DEF State
      <4>4. form[a] \in DoForms(a) /\ form[a].index <= text[a][form[a].edit]
        BY <4>1, <4>2, <4>3 DEF Good
      <4>5. form[a].index \in Nat /\ text[a][form[a].edit] \in Int
        BY <3>1, <4>4, FormAssumption DEF DoForms, Texts
      <4> QED BY <4>4, <4>5
    <3> QED BY <3>1, <3>2 DEF Texts
  <2> QED BY <2>1 DEF TextsFit
<1>5. OneRadio
  <2>1. ASSUME NEW a \in Apps PROVE Single(a, look[a])
    BY TreeTyped
  <2> QED BY <2>1 DEF OneRadio, Single
<1> QED BY <1>1, <1>2, <1>3, <1>4, <1>5 DEF ScreenSafety

\* The invariant of forms and trackers: gem_form_pds, gem_graf_pds, the trees
\* and the screen agree about who holds what.
THEOREM Invariance == ScreenSpec => []IInv
<1>1. ScreenInit => IInv
  BY InitialState
<1>2. IInv /\ [ScreenNext]_screenVars => IInv'
  BY NextKeeps
<1> QED BY <1>1, <1>2, PTL DEF ScreenSpec

\* A call is held for a form or a tracker, which own the screen; XOR outlines
\* are those of the trackers, and boxes, texts and radio buttons stay as they
\* must (gem_form_resident.c, gem_alert_resident.c, gem_graf_resident.c).
THEOREM ScreenIsSafe == ScreenSpec => []ScreenSafety
<1>1. IInv => ScreenSafety
  BY Strengthens
<1> QED BY <1>1, Invariance, PTL

-----------------------------------------------------------------------------
(* How forms end *)

ExitStep(a) ==
    form[a].kind = "do" /\ form'[a].kind = "free" =>
         LET o == reply'[a].out
         IN  /\ \/ "touch" \in Flags[a][o]
                \/ "exit" \in Flags[a][o] /\ "sel" \in look'[a][o]
             /\ form[a].saved # Root => form[a].saved \in defaults'[a]

LEMMA FormStays ==
    ASSUME NEW a \in Apps, form'[a] = form[a]
    PROVE  ExitStep(a)
<1> QED BY DEF ExitStep

LEMMA SampleExits ==
    ASSUME IInv, NEW a \in Apps, NEW o \in ObjectsOf(a) \cup {Nil}, NEW down \in BOOLEAN,
           NEW key, FormSample(a, o, down, key)
    PROVE  ExitStep(a)
<1>1. PICK S : S = Sampled(State(a), o, down, key)
  OBVIOUS
<1>2. form[a].kind = "do" /\ Leave(S) /\ Serviced(a, S.f, TRUE)
  BY <1>1 DEF FormSample
<1>3. /\ Good(S) /\ S.a = a /\ S.f.kind = "do" /\ S.f.saved = form[a].saved
      /\ S.f.ended \in BOOLEAN /\ (S.f.ended => Exits(S))
  BY <1>1, <1>2, DoSampled
<1>4. TypesOn /\ IsOn(form) /\ IsOn(reply)
  BY DEF IInv, TypesOn
<1>5. look'[a] = S.look /\ defaults'[a] = S.def
  <2>1. look'[S.a] = S.look /\ defaults'[S.a] = S.def
    BY ONLY <1>2, <1>3, <1>4, Left
  <2> QED BY <1>3, <2>1
<1>6. CASE S.f.ended
  <2>1. reply' = Replaced(reply, a, Answer(S.f.result))
    BY <1>2, <1>6 DEF Serviced, Answered, Replaced
  <2>2. reply'[a].out = S.f.result
    BY <1>4, <2>1, Put DEF Answer
  <2> QED BY <1>3, <1>5, <1>6, <2>2 DEF ExitStep, Exits
<1>7. CASE ~S.f.ended
  <2>1. form' = Replaced(form, a, S.f)
    BY <1>2, <1>7 DEF Serviced, Replaced
  <2>2. form'[a] = S.f
    BY <1>4, <2>1, Put
  <2> QED BY <1>3, <2>2 DEF ExitStep
<1> QED BY <1>3, <1>6, <1>7

LEMMA StepExits ==
    ASSUME IInv, [ScreenNext]_screenVars, NEW a \in live'
    PROVE  ExitStep(a)
<1>1. a \in Apps /\ IsOn(form)
  BY NextKeeps DEF IInv, TypesOn
<1>2. ASSUME NEW b \in Apps, b # a, NEW f, form' = Replaced(form, b, f)
      PROVE  form'[a] = form[a]
  BY <1>1, <1>2, Put
<1>3. CASE UNCHANGED screenVars
  BY <1>1, <1>3, FormStays DEF screenVars, formVars
<1>4. ASSUME NEW s \in Samples, PollForm(s) PROVE ExitStep(a)
  <2>1. PICK b \in Apps : b = Receiver
    BY ReceiverTyped
  <2>2. s.down \in BOOLEAN /\ ObjectAt[b][s.x] \in ObjectsOf(b) \cup {Nil}
    BY ScreenAssumption DEF ObjectsOf, Nil
  <2>3. CASE FormSample(b, ObjectAt[b][s.x], s.down, s.key)
    <3>1. CASE b = a
      BY <2>2, <2>3, <3>1, SampleExits
    <3>2. CASE b # a
      <4>1. PICK f : form' = Replaced(form, b, f)
        BY <2>3 DEF FormSample, Serviced, Replaced
      <4> QED BY <1>1, <1>2, <3>2, <4>1, FormStays
    <3> QED BY <3>1, <3>2
  <2>4. ASSUME NEW repainted \in BOOLEAN, NEW k, AlertSample(b, k, s.down, s.key, repainted)
        PROVE  ExitStep(a)
    <3>1. CASE b = a
      BY <2>4, <3>1 DEF AlertSample, ExitStep
    <3>2. CASE b # a
      <4>1. PICK f : form' = Replaced(form, b, f)
        BY <2>4 DEF AlertSample, Serviced, Replaced
      <4> QED BY <1>1, <1>2, <3>2, <4>1, FormStays
    <3> QED BY <3>1, <3>2
  <2> QED BY <1>4, <2>1, <2>3, <2>4 DEF PollForm
<1>5. ASSUME UNCHANGED form PROVE ExitStep(a)
  BY <1>1, <1>5, FormStays
<1>6. ASSUME NEW s \in Samples, NEW gadget \in BOOLEAN, PollRest(s, gadget) PROVE ExitStep(a)
  BY <1>5, <1>6 DEF PollRest, formVars
<1>7. ASSUME NEW b \in Apps,
             \/ FormCalls(b) /\ UNCHANGED <<grafVars, top, evnt>>
             \/ GrafCalls(b) /\ UNCHANGED <<formVars, top, evnt>>
             \/ (LockTake(b) \/ LockGive(b)) /\ UNCHANGED <<formVars, grafVars, top, evnt>>
             \/ Read(b) \/ Detach(b) \/ Attach(b)
             \/ \E new \in live : WindowTop(b, new)
      PROVE  ExitStep(a)
  <2>1. CASE FormCalls(b)
    <3>1. ASSUME Call(b), NEW f, form' = Replaced(form, b, f) PROVE ExitStep(a)
      <4>1. form[b] = Free
        BY <3>1, NotHeld, Answers DEF Call
      <4>2. CASE b = a
        BY <4>1, <4>2 DEF ExitStep, Free
      <4>3. CASE b # a
        BY <1>1, <1>2, <3>1, <4>3, FormStays
      <4> QED BY <4>2, <4>3
    <3>2. ASSUME NEW start, FormDo(b, start) PROVE ExitStep(a)
      <4>1. Call(b) /\ (UNCHANGED form \/ \E f : form' = Replaced(form, b, f))
        BY <3>2 DEF FormDo, Replaced
      <4> QED BY <1>5, <3>1, <4>1
    <3>3. ASSUME NEW al, FormAlert(b, al) PROVE ExitStep(a)
      <4>1. Call(b) /\ (UNCHANGED form \/ \E f : form' = Replaced(form, b, f))
        BY <3>3 DEF FormAlert, Replaced
      <4> QED BY <1>5, <3>1, <4>1
    <3>4. ASSUME NEW o, FormButton(b, o) PROVE ExitStep(a)
      BY <1>5, <3>4 DEF FormButton
    <3>5. ASSUME NEW o, NEW key, FormKeybd(b, o, key) PROVE ExitStep(a)
      BY <1>5, <3>5 DEF FormKeybd
    <3>6. ASSUME NEW o, NEW i, NEW key, ObjcEdit(b, o, i, key) PROVE ExitStep(a)
      BY <1>5, <3>6 DEF ObjcEdit
    <3> QED BY <2>1, <3>2, <3>3, <3>4, <3>5, <3>6 DEF FormCalls
  <2>2. CASE Detach(b)
    <3>1. form' = Replaced(form, b, Free) /\ live' = live \ {b}
      BY <2>2 DEF Detach, FormDetach, ModalDetach, Replaced
    <3>2. b # a
      BY <3>1
    <3> QED BY <1>1, <1>2, <3>1, <3>2, FormStays
  <2>3. CASE UNCHANGED formVars
    BY <1>5, <2>3 DEF formVars
  <2>4. CASE Read(b)
    BY <1>5, <2>4 DEF Read, FormReset, formVars
  <2>5. CASE Attach(b)
    BY <1>5, <2>5 DEF Attach, FormAttach
  <2>6. CASE \E new \in live : WindowTop(b, new)
    BY <1>5, <2>6 DEF WindowTop, formVars
  <2> QED BY <1>7, <2>1, <2>2, <2>3, <2>4, <2>5, <2>6
<1> QED BY <1>3, <1>4, <1>6, <1>7 DEF ScreenNext, Poll

\* FORM_DO answers a TOUCHEXIT, or an EXIT that is selected, and then the
\* default the form began with is marked again (gem_form_button,
\* gem_form_finish).
THEOREM FormsEndAtExits == ScreenSpec => AnswerIsExit
<1>1. IInv /\ [ScreenNext]_screenVars =>
        [\A a \in live' : form[a].kind = "do" /\ form'[a].kind = "free" =>
           LET o == reply'[a].out
           IN  /\ \/ "touch" \in Flags[a][o]
                  \/ "exit" \in Flags[a][o] /\ "sel" \in look'[a][o]
               /\ form[a].saved # Root => form[a].saved \in defaults'[a]]_screenVars
  BY StepExits DEF ExitStep
<1> QED BY <1>1, Invariance, PTL DEF ScreenSpec, AnswerIsExit

-----------------------------------------------------------------------------
(* The lock that forms and trackers hold *)
(***************************************************************************)
(* WIND_UPDATE, for any set of channels, any largest depth, any number of  *)
(* generations, and whether or not an exit can give up half way.           *)
(*                                                                         *)
(* The invariant the runs check is inductive except for one moment: inside *)
(* a step, between a release and the hand-off, the lock is free while      *)
(* clients wait.  Quiet states everything else about an arbitrary lock     *)
(* state, so that the hand-off can be studied on its own (ProgressQuiet):  *)
(* it turns a Quiet state into a Quiet state that is not idle.             *)
(***************************************************************************)

\* The lock state <<o, d, b>>, attachments gen, FIFO w, parked slots p,
\* connections cn and modal channels m fit together, with one reading of
\* each property the runs check; only NeverIdleWithWaiters' first half is
\* missing.
QuietTypes(o, d, b, gen, w, p, cn, m) ==
    /\ o \in Channels \cup {NONE}
    /\ d \in [Channels -> 0 .. MaxDepth]
    /\ b \in [Channels -> Generations]
    /\ gen \in [Channels -> Generations]
    /\ w \in Seq(Channels)
    /\ p \in [Channels -> Generations]
    /\ cn \in [Channels -> Generations]
    /\ m \in SUBSET Channels

QuietLock(o, d, b, gen, m, p, cn) ==
    /\ o # NONE => gen[o] # 0 /\ b[o] = gen[o]
    /\ \A c \in Channels : d[c] > 0 <=> o = c
    /\ \A c \in Channels : b[c] # 0 => b[c] = gen[c]
    /\ \A c \in m : o = c /\ p[c] = 0 /\ gen[c] = cn[c]

QuietQueue(o, gen, w, p, cn) ==
    /\ \A i, j \in 1 .. Len(w) : w[i] = w[j] => i = j
    /\ \A c \in Channels : p[c] # 0 <=> \E i \in 1 .. Len(w) : w[i] = c
    /\ \A c \in Channels : p[c] # 0 => p[c] = gen[c] /\ p[c] = cn[c]
    /\ \A i \in 1 .. Len(w) : w[i] # o

Quiet(o, d, b, gen, w, p, cn, m) ==
    /\ QuietTypes(o, d, b, gen, w, p, cn, m)
    /\ QuietLock(o, d, b, gen, m, p, cn)
    /\ QuietQueue(o, gen, w, p, cn)

LockIInv ==
    /\ nextGen \in 1 .. MaxGeneration + 1
    /\ Quiet(owner, depth, bound, attached, waiters, parked, conn, modal)
    /\ waiters # <<>> => owner # NONE

\* How the owner and the FIFO may move in one step.
HandOff ==
    owner' # owner =>
        \/ waiters # <<>> /\ owner' = Head(waiters)
        \/ waiters = <<>> /\ NONE \in {owner, owner'}

FifoStep ==
    \/ waiters' = waiters
    \/ waiters # <<>> /\ owner' = Head(waiters) /\ waiters' = Tail(waiters)
    \/ owner' = owner /\ \E c \in Channels : waiters' = Append(waiters, c)
    \/ owner' = owner /\ \E c \in Channels : waiters' = Without(waiters, c)

----------------------------------------------------------------------------
(* The hand-off *)

\* When every listed call is live, gem_resident_update_progress drops
\* nothing: it grants a free lock to the head and otherwise leaves things be.
LEMMA ProgressLive ==
    ASSUME NEW o, NEW d, NEW b, NEW gen,
           NEW w \in Seq(Channels), NEW p \in [Channels -> Generations],
           \A i \in 1 .. Len(w) : Live(w[i], gen, p),
           UpdateProgress(o, d, b, gen, w, p)
    PROVE  \/ /\ w = <<>> \/ o # NONE
              /\ owner' = o
              /\ depth' = d
              /\ \/ bound' = b
                 \/ w # <<>> /\ bound' = [b EXCEPT ![w[1]] = gen[w[1]]]
              /\ waiters' = w
              /\ parked' = p
           \/ /\ w # <<>> /\ o = NONE
              /\ owner' = w[1]
              /\ depth' = [d EXCEPT ![w[1]] = 1]
              /\ bound' = [b EXCEPT ![w[1]] = gen[w[1]]]
              /\ waiters' = Tail(w)
              /\ parked' = [p EXCEPT ![w[1]] = 0]
<1> DEFINE stale == CHOOSE n \in 0 .. Len(w) :
                       /\ \A i \in 1 .. n : ~Live(w[i], gen, p)
                       /\ n < Len(w) => Live(w[n + 1], gen, p)
           left == SubSeq(w, stale + 1, Len(w))
           kept == [c \in Channels |->
                       IF \E i \in 1 .. stale : w[i] = c THEN 0 ELSE p[c]]
<1>0. Len(w) \in Nat
  BY LenProperties
<1>1. \A n \in 0 .. Len(w) :
         ( /\ \A i \in 1 .. n : ~Live(w[i], gen, p)
           /\ n < Len(w) => Live(w[n + 1], gen, p) ) <=> n = 0
  <2>1. 0 < Len(w) => Live(w[0 + 1], gen, p)
    BY <1>0
  <2>2. ASSUME NEW n \in 0 .. Len(w), n # 0
        PROVE  Live(w[1], gen, p) /\ 1 \in 1 .. n
    BY <1>0, <2>2
  <2> QED BY <1>0, <2>1, <2>2
<1>2. stale = 0
  <2>1. 0 \in 0 .. Len(w)
    BY <1>0
  <2> QED BY <1>1, <2>1
<1> HIDE DEF stale
<1>3. left = w
  BY <1>2, SubSeqFull
<1>4. kept = p
  BY <1>2
<1>5. w # <<>> => left[1] = w[1]
  BY <1>3
<1> USE DEF stale
<1> QED BY <1>3, <1>4 DEF UpdateProgress

\* The hand-off turns a Quiet state into a Quiet one in which nobody waits
\* for a free lock, and it disturbs the record of the granted head only.
LEMMA ProgressQuiet ==
    ASSUME NEW o, NEW d, NEW b, NEW gen, NEW w, NEW p, NEW cn, NEW m,
           Quiet(o, d, b, gen, w, p, cn, m),
           UpdateProgress(o, d, b, gen, w, p)
    PROVE  /\ Quiet(owner', depth', bound', gen, waiters', parked', cn, m)
           /\ waiters' # <<>> => owner' # NONE
           /\ \A x \in Channels : (\A i \in 1 .. Len(w) : w[i] # x) =>
                  /\ bound'[x] = b[x]
                  /\ parked'[x] = p[x]
                  /\ owner' = x => o = x
           /\ \/ waiters' = w /\ owner' = o
              \/ /\ w # <<>>
                 /\ o = NONE
                 /\ waiters' = Tail(w)
                 /\ owner' = Head(w)
<1> USE DEF Quiet
<1>0. /\ Len(w) \in Nat
      /\ w \in [1 .. Len(w) -> Channels]
      /\ w # <<>> => Len(w) > 0 /\ w[1] \in Channels /\ Head(w) = w[1]
  BY LenProperties, EmptySeq DEF QuietTypes
<1>1. \A i \in 1 .. Len(w) : Live(w[i], gen, p)
  BY <1>0 DEF QuietTypes, QuietQueue, Live
<1>2. CASE /\ w = <<>> \/ o # NONE
           /\ owner' = o
           /\ depth' = d
           /\ \/ bound' = b
              \/ w # <<>> /\ bound' = [b EXCEPT ![w[1]] = gen[w[1]]]
           /\ waiters' = w
           /\ parked' = p
  <2>1. bound' \in [Channels -> Generations]
    BY <1>0, <1>2 DEF QuietTypes
  <2>2. \A x \in Channels : bound'[x] = b[x] \/ bound'[x] = gen[x]
    BY <1>0, <1>2 DEF QuietTypes
  <2>3. \A x \in Channels :
           (\A i \in 1 .. Len(w) : w[i] # x) => bound'[x] = b[x]
    BY <1>0, <1>2 DEF QuietTypes
  <2>4. QuietLock(owner', depth', bound', gen, m, parked', cn)
    BY <1>2, <2>2 DEF QuietTypes, QuietLock
  <2> QED BY <1>2, <2>1, <2>3, <2>4 DEF QuietTypes, QuietQueue
<1>3. CASE /\ w # <<>> /\ o = NONE
           /\ owner' = w[1]
           /\ depth' = [d EXCEPT ![w[1]] = 1]
           /\ bound' = [b EXCEPT ![w[1]] = gen[w[1]]]
           /\ waiters' = Tail(w)
           /\ parked' = [p EXCEPT ![w[1]] = 0]
  <2> DEFINE h == w[1]
  <2>1. h \in Channels /\ h # NONE
    BY <1>0, <1>3, NoneAssumption
  <2>2. /\ Tail(w) \in Seq(Channels)
        /\ Len(Tail(w)) = Len(w) - 1
        /\ \A i \in 1 .. Len(w) - 1 : Tail(w)[i] = w[i + 1]
    BY <1>3, HeadTailProperties DEF QuietTypes
  <2>3. p[h] # 0 /\ p[h] = gen[h] /\ gen[h] # 0
    BY <1>0, <1>3 DEF QuietQueue
  <2>4. QuietTypes(owner', depth', bound', gen, waiters', parked', cn, m)
    <3>1. 1 \in 0 .. MaxDepth /\ 0 \in Generations
      BY DepthAssumption, GenerationAssumption DEF Generations
    <3>2. /\ depth' \in [Channels -> 0 .. MaxDepth]
          /\ bound' \in [Channels -> Generations]
          /\ parked' \in [Channels -> Generations]
      BY <1>3, <2>1, <3>1 DEF QuietTypes
    <3> QED BY <1>3, <2>1, <2>2, <3>2 DEF QuietTypes
  <2>5. QuietLock(owner', depth', bound', gen, m, parked', cn)
    <3>1. m = {}
      BY <1>3, NoneAssumption DEF QuietTypes, QuietLock
    <3>2. \A c \in Channels : depth'[c] > 0 <=> owner' = c
      BY <1>3, <2>1, NoneAssumption DEF QuietTypes, QuietLock
    <3>3. \A c \in Channels : bound'[c] # 0 => bound'[c] = gen[c]
      BY <1>3, <2>1 DEF QuietTypes, QuietLock
    <3>4. gen[owner'] # 0 /\ bound'[owner'] = gen[owner']
      BY <1>3, <2>1, <2>3 DEF QuietTypes
    <3> QED BY <3>1, <3>2, <3>3, <3>4 DEF QuietLock
  <2>6. QuietQueue(owner', gen, waiters', parked', cn)
    <3>1. \A i, j \in 1 .. Len(Tail(w)) : Tail(w)[i] = Tail(w)[j] => i = j
      <4> SUFFICES ASSUME NEW i \in 1 .. Len(Tail(w)),
                          NEW j \in 1 .. Len(Tail(w)),
                          Tail(w)[i] = Tail(w)[j]
                   PROVE  i = j
        OBVIOUS
      <4>1. i + 1 \in 1 .. Len(w) /\ j + 1 \in 1 .. Len(w)
        BY <1>0, <2>2
      <4>2. w[i + 1] = w[j + 1]
        BY <1>0, <2>2
      <4>3. i + 1 = j + 1
        BY <4>1, <4>2 DEF QuietQueue
      <4> QED BY <1>0, <2>2, <4>3
    <3>2. ASSUME NEW c \in Channels
          PROVE  (\E i \in 1 .. Len(Tail(w)) : Tail(w)[i] = c)
                 <=> c # h /\ \E i \in 1 .. Len(w) : w[i] = c
      <4>1. ASSUME NEW i \in 1 .. Len(Tail(w)), Tail(w)[i] = c
            PROVE  c # h /\ \E k \in 1 .. Len(w) : w[k] = c
        <5>1. i + 1 \in 1 .. Len(w) /\ w[i + 1] = c /\ i + 1 # 1
              /\ 1 \in 1 .. Len(w)
          BY <1>0, <2>2, <4>1
        <5> QED BY <5>1 DEF QuietQueue
      <4>2. ASSUME c # h, NEW k \in 1 .. Len(w), w[k] = c
            PROVE  \E i \in 1 .. Len(Tail(w)) : Tail(w)[i] = c
        <5>1. k - 1 \in 1 .. Len(w) - 1 /\ (k - 1) + 1 = k
          BY <1>0, <4>2
        <5> QED BY <2>2, <4>2, <5>1
      <4> QED BY <4>1, <4>2
    <3>3. \A c \in Channels :
             parked'[c] # 0 <=> \E i \in 1 .. Len(Tail(w)) : Tail(w)[i] = c
      BY <1>3, <2>1, <3>2 DEF QuietTypes, QuietQueue
    <3>4. \A c \in Channels :
             parked'[c] # 0 => parked'[c] = gen[c] /\ parked'[c] = cn[c]
      BY <1>3, <2>1 DEF QuietTypes, QuietQueue
    <3>5. \A i \in 1 .. Len(Tail(w)) : Tail(w)[i] # h
      <4> SUFFICES ASSUME NEW i \in 1 .. Len(Tail(w))
                   PROVE  Tail(w)[i] # h
        OBVIOUS
      <4>1. Tail(w)[i] = w[i + 1] /\ i + 1 \in 1 .. Len(w) /\ i + 1 # 1
            /\ 1 \in 1 .. Len(w)
        BY <1>0, <2>2
      <4> QED BY <4>1 DEF QuietQueue
    <3> QED BY <1>3, <3>1, <3>3, <3>4, <3>5 DEF QuietQueue
  <2>7. ASSUME NEW x \in Channels, \A i \in 1 .. Len(w) : w[i] # x
        PROVE  bound'[x] = b[x] /\ parked'[x] = p[x] /\ owner' # x
    <3>1. x # h
      BY <1>0, <1>3, <2>7
    <3> QED BY <1>3, <2>1, <3>1 DEF QuietTypes
  <2> QED BY <1>0, <1>3, <2>1, <2>4, <2>5, <2>6, <2>7
<1>4. w \in Seq(Channels) /\ p \in [Channels -> Generations]
  BY DEF QuietTypes
<1> HIDE DEF Quiet
<1>5. \/ /\ w = <<>> \/ o # NONE
         /\ owner' = o
         /\ depth' = d
         /\ \/ bound' = b
            \/ w # <<>> /\ bound' = [b EXCEPT ![w[1]] = gen[w[1]]]
         /\ waiters' = w
         /\ parked' = p
      \/ /\ w # <<>> /\ o = NONE
         /\ owner' = w[1]
         /\ depth' = [d EXCEPT ![w[1]] = 1]
         /\ bound' = [b EXCEPT ![w[1]] = gen[w[1]]]
         /\ waiters' = Tail(w)
         /\ parked' = [p EXCEPT ![w[1]] = 0]
  BY <1>1, <1>4, ProgressLive
<1> QED BY <1>2, <1>3, <1>5
----------------------------------------------------------------------------
(* What one release and one departure do *)

\* A record is never bound to a generation that is gone, so binding it
\* changes neither the owner nor a depth.
LEMMA BindIsHarmless ==
    ASSUME LockIInv, NEW c \in Channels, attached[c] # 0
    PROVE  /\ OwnerOnceBound(c) = owner
           /\ DepthOnceBound(c) = depth
           /\ Quiet(owner, depth, Bound(c), attached, waiters, parked, conn, modal)
<1> USE DEF LockIInv, Quiet, QuietTypes, QuietLock
<1>1. OwnerOnceBound(c) = owner
  BY NoneAssumption DEF OwnerOnceBound
<1>2. DepthOnceBound(c) = depth
  <2>1. CASE bound[c] = attached[c]
    BY <2>1 DEF DepthOnceBound
  <2>2. CASE bound[c] # attached[c]
    <3>1. owner # c
      BY <2>2, NoneAssumption
    <3>2. depth[c] = 0
      BY <3>1
    <3> QED BY <2>2, <3>2 DEF DepthOnceBound
  <2> QED BY <2>1, <2>2
<1>3. QuietLock(owner, depth, Bound(c), attached, modal, parked, conn)
  BY DEF Bound
<1>4. Bound(c) \in [Channels -> Generations]
  BY DEF Bound
<1> QED BY <1>1, <1>2, <1>3, <1>4

\* One level released by the holder c, and the hand-off: the lock stays
\* Quiet, is not idle, and moves at most to the head of the FIFO.  The modal
\* channels and connections may lose c in the same step.
LEMMA ReleaseQuiet ==
    ASSUME LockIInv, NEW c \in Channels, owner = c, parked[c] = 0,
           NEW m \in SUBSET modal, c \notin m,
           NEW cn \in [Channels -> Generations],
           \A x \in Channels \ {c} : cn[x] = conn[x],
           ReleaseLevel(c)
    PROVE  /\ Quiet(owner', depth', bound', attached, waiters', parked', cn, m)
           /\ waiters' # <<>> => owner' # NONE
           /\ HandOff
           /\ FifoStep
<1> DEFINE d == [DepthOnceBound(c) EXCEPT ![c] = @ - 1]
           o == IF d[c] = 0 THEN NONE ELSE c
<1>1. attached[c] # 0
  BY NoneAssumption DEF LockIInv, Quiet, QuietLock
<1>2. DepthOnceBound(c) = depth
      /\ Quiet(owner, depth, Bound(c), attached, waiters, parked, conn, modal)
  BY <1>1, BindIsHarmless
<1>3. m = {}
  BY <1>2 DEF Quiet, QuietLock
<1>4. d = [depth EXCEPT ![c] = @ - 1] /\ depth \in [Channels -> 0 .. MaxDepth]
  BY <1>2 DEF Quiet, QuietTypes
<1>5. depth[c] \in 1 .. MaxDepth /\ MaxDepth \in Nat
  BY <1>2, DepthAssumption DEF Quiet, QuietTypes, QuietLock
<1>6. d \in [Channels -> 0 .. MaxDepth] /\ d[c] = depth[c] - 1
      /\ \A x \in Channels : x # c => d[x] = depth[x]
  <2>1. depth[c] - 1 \in 0 .. MaxDepth
    BY <1>5
  <2> HIDE DEF d
  <2> QED BY <1>4, <2>1
<1>a. UpdateProgress(o, d, Bound(c), attached, waiters, parked)
  BY DEF ReleaseLevel
<1> HIDE DEF d
<1>7. QuietTypes(o, d, Bound(c), attached, waiters, parked, cn, m)
  <2>1. o \in Channels \cup {NONE} /\ m \in SUBSET Channels
    BY <1>3
  <2>2. /\ Bound(c) \in [Channels -> Generations]
        /\ attached \in [Channels -> Generations]
        /\ waiters \in Seq(Channels)
        /\ parked \in [Channels -> Generations]
    BY <1>2 DEF Quiet, QuietTypes
  <2> QED BY <1>6, <2>1, <2>2 DEF QuietTypes
<1>8. QuietLock(o, d, Bound(c), attached, m, parked, cn)
  <2>1. \A x \in Channels : d[x] > 0 <=> o = x
    <3>1. d[c] > 0 <=> o = c
      <4>1. d[c] \in Nat
        BY <1>5, <1>6
      <4> QED BY <4>1, NoneAssumption
    <3>2. ASSUME NEW x \in Channels, x # c
          PROVE  d[x] > 0 <=> o = x
      <4>1. d[x] = depth[x] /\ ~(depth[x] > 0)
        BY <1>2, <1>6, <3>2 DEF Quiet, QuietLock
      <4> QED BY <3>2, <4>1, NoneAssumption
    <3> QED BY <3>1, <3>2
  <2> QED BY <1>2, <1>3, <2>1, NoneAssumption DEF Quiet, QuietLock
<1>9. QuietQueue(o, attached, waiters, parked, cn)
  BY <1>2, NoneAssumption, LenProperties
    DEF Quiet, QuietTypes, QuietQueue
<1>10. Quiet(o, d, Bound(c), attached, waiters, parked, cn, m)
  BY <1>7, <1>8, <1>9 DEF Quiet
<1>11. UpdateProgress(o, d, Bound(c), attached, waiters, parked)
  BY <1>a
<1>12. /\ Quiet(owner', depth', bound', attached, waiters', parked', cn, m)
       /\ waiters' # <<>> => owner' # NONE
       /\ \/ waiters' = waiters /\ owner' = o
          \/ /\ waiters # <<>>
             /\ o = NONE
             /\ waiters' = Tail(waiters)
             /\ owner' = Head(waiters)
  BY <1>10, <1>11, ProgressQuiet
<1>13. HandOff
  BY <1>12 DEF HandOff
<1>14. FifoStep
  <2>1. CASE waiters' = waiters
    BY <2>1 DEF FifoStep
  <2>2. CASE waiters # <<>> /\ waiters' = Tail(waiters) /\ owner' = Head(waiters)
    BY <2>2 DEF FifoStep
  <2> QED BY <1>12, <2>1, <2>2
<1> QED BY <1>12, <1>13, <1>14

\* A departure: whatever c held, waited for or was bound to is gone, the
\* others keep their places, and a freed lock goes to the oldest of them.
LEMMA DetachQuiet ==
    ASSUME LockIInv, NEW c \in Channels, attached[c] # 0,
           NEW m \in SUBSET modal, c \notin m,
           NEW cn \in [Channels -> Generations],
           \A x \in Channels \ {c} : cn[x] = conn[x],
           DetachLock(c)
    PROVE  /\ Quiet(owner', depth', bound', [attached EXCEPT ![c] = 0],
                    waiters', parked', cn, m)
           /\ waiters' # <<>> => owner' # NONE
           /\ HandOff
           /\ FifoStep
<1> DEFINE o == IF owner = c /\ bound[c] = attached[c] THEN NONE ELSE owner
           d == IF bound[c] = attached[c] THEN [depth EXCEPT ![c] = 0] ELSE depth
           b == IF bound[c] = attached[c] THEN [bound EXCEPT ![c] = 0] ELSE bound
           w == Without(waiters, c)
           p == [parked EXCEPT ![c] = 0]
<1> USE DEF LockIInv
<1>0. 0 \in Generations /\ 0 \in 0 .. MaxDepth
  BY GenerationAssumption, DepthAssumption DEF Generations
<1>1. owner = c => bound[c] = attached[c]
  BY NoneAssumption DEF Quiet, QuietLock
<1>2. /\ w \in Seq(Channels)
      /\ \A i, j \in 1 .. Len(w) : w[i] = w[j] => i = j
      /\ \A x \in Channels :
            (\E i \in 1 .. Len(w) : w[i] = x)
            <=> x # c /\ \E i \in 1 .. Len(waiters) : waiters[i] = x
  <2>1. /\ waiters \in Seq(Channels)
        /\ \A i, j \in 1 .. Len(waiters) : waiters[i] = waiters[j] => i = j
    BY DEF Quiet, QuietTypes, QuietQueue
  <2> QED BY ONLY <2>1, WithoutKeepsOthers
<1>3. o = (IF owner = c THEN NONE ELSE owner)
  BY <1>1
<1>4. /\ d \in [Channels -> 0 .. MaxDepth]
      /\ d[c] = 0
      /\ \A x \in Channels : x # c => d[x] = depth[x]
  <2>1. bound[c] # attached[c] => depth[c] = 0
    BY <1>1 DEF Quiet, QuietTypes, QuietLock
  <2> QED BY <1>0, <2>1 DEF Quiet, QuietTypes
<1>5. /\ b \in [Channels -> Generations]
      /\ b[c] = 0
      /\ \A x \in Channels : x # c => b[x] = bound[x]
  BY <1>0 DEF Quiet, QuietTypes, QuietLock
<1>6. p \in [Channels -> Generations] /\ p[c] = 0
      /\ \A x \in Channels : x # c => p[x] = parked[x]
  BY <1>0 DEF Quiet, QuietTypes
<1>7. UpdateProgress(o, d, b, attached, w, p)
  BY DEF DetachLock
<1>8. QuietTypes(o, d, b, attached, w, p, cn, m)
  BY <1>2, <1>3, <1>4, <1>5, <1>6 DEF Quiet, QuietTypes
<1> HIDE DEF o, d, b, p, w
<1>9. QuietLock(o, d, b, attached, m, p, cn)
  <2>1. o # NONE => o \in Channels \ {c} /\ o = owner
    BY <1>3 DEF Quiet, QuietTypes
  <2>2. o # NONE => attached[o] # 0 /\ b[o] = attached[o]
    BY <1>5, <2>1 DEF Quiet, QuietLock
  <2>3. \A x \in Channels : d[x] > 0 <=> o = x
    <3>1. o # c
      BY <1>3, NoneAssumption
    <3>2. ASSUME NEW x \in Channels, x # c
          PROVE  d[x] > 0 <=> o = x
      <4>1. depth[x] > 0 <=> owner = x
        BY DEF Quiet, QuietLock
      <4>2. o = x <=> owner = x
        BY <1>3, <3>2, NoneAssumption
      <4> QED BY <1>4, <3>2, <4>1, <4>2
    <3>3. ~(d[c] > 0)
      BY <1>4
    <3> QED BY <3>1, <3>2, <3>3
  <2>4. \A x \in Channels : b[x] # 0 => b[x] = attached[x]
    BY <1>5 DEF Quiet, QuietLock
  <2>5. \A x \in m : o = x /\ p[x] = 0 /\ attached[x] = cn[x]
    <3> SUFFICES ASSUME NEW x \in m
                 PROVE  o = x /\ p[x] = 0 /\ attached[x] = cn[x]
      OBVIOUS
    <3>1. x \in Channels /\ x # c /\ x \in modal
      BY DEF Quiet, QuietTypes
    <3>2. owner = x /\ parked[x] = 0 /\ attached[x] = conn[x]
      BY <3>1 DEF Quiet, QuietLock
    <3> QED BY <1>3, <1>6, <3>1, <3>2
  <2> QED BY <2>2, <2>3, <2>4, <2>5 DEF QuietLock
<1>10. QuietQueue(o, attached, w, p, cn)
  <2>1. \A x \in Channels : p[x] # 0 <=> \E i \in 1 .. Len(w) : w[i] = x
    BY <1>2, <1>6 DEF Quiet, QuietQueue
  <2>2. \A x \in Channels : p[x] # 0 => p[x] = attached[x] /\ p[x] = cn[x]
    BY <1>6 DEF Quiet, QuietQueue
  <2>3. \A i \in 1 .. Len(w) : w[i] # o
    <3> SUFFICES ASSUME NEW i \in 1 .. Len(w), w[i] = o
                 PROVE  FALSE
      OBVIOUS
    <3>1. w[i] \in Channels
      BY <1>2, LenProperties
    <3>2. w[i] # c /\ \E k \in 1 .. Len(waiters) : waiters[k] = w[i]
      BY <1>2, <3>1
    <3>3. w[i] = owner
      BY <1>3, <3>1, NoneAssumption
    <3> QED BY <3>2, <3>3 DEF Quiet, QuietQueue
  <2> QED BY <1>2, <2>1, <2>2, <2>3 DEF QuietQueue
<1>11. Quiet(o, d, b, attached, w, p, cn, m)
  BY <1>8, <1>9, <1>10 DEF Quiet
<1>12. /\ Quiet(owner', depth', bound', attached, waiters', parked', cn, m)
       /\ waiters' # <<>> => owner' # NONE
       /\ \A x \in Channels : (\A i \in 1 .. Len(w) : w[i] # x) =>
              /\ bound'[x] = b[x]
              /\ parked'[x] = p[x]
              /\ owner' = x => o = x
       /\ \/ waiters' = w /\ owner' = o
          \/ /\ w # <<>>
             /\ o = NONE
             /\ waiters' = Tail(w)
             /\ owner' = Head(w)
  BY <1>7, <1>11, ProgressQuiet
<1>13. bound'[c] = 0 /\ parked'[c] = 0 /\ owner' # c
  BY <1>2, <1>3, <1>5, <1>6, <1>12, NoneAssumption
<1>14. Quiet(owner', depth', bound', [attached EXCEPT ![c] = 0],
             waiters', parked', cn, m)
  <2> DEFINE gen == [attached EXCEPT ![c] = 0]
  <2>1. gen \in [Channels -> Generations]
        /\ \A x \in Channels : x # c => gen[x] = attached[x]
    BY <1>0 DEF Quiet, QuietTypes
  <2> HIDE DEF gen
  <2>2. QuietTypes(owner', depth', bound', gen, waiters', parked', cn, m)
    BY <1>12, <2>1 DEF Quiet, QuietTypes
  <2>3. QuietLock(owner', depth', bound', gen, m, parked', cn)
    <3>1. owner' # NONE => gen[owner'] # 0 /\ bound'[owner'] = gen[owner']
      BY <1>12, <1>13, <2>1 DEF Quiet, QuietTypes, QuietLock
    <3>2. \A x \in Channels : bound'[x] # 0 => bound'[x] = gen[x]
      BY <1>12, <1>13, <2>1 DEF Quiet, QuietLock
    <3>3. \A x \in m : owner' = x /\ parked'[x] = 0 /\ gen[x] = cn[x]
      BY <1>12, <1>13, <2>1 DEF Quiet, QuietTypes, QuietLock
    <3> QED BY <1>12, <3>1, <3>2, <3>3 DEF Quiet, QuietLock
  <2>4. QuietQueue(owner', gen, waiters', parked', cn)
    BY <1>12, <1>13, <2>1 DEF Quiet, QuietQueue
  <2> QED BY <2>2, <2>3, <2>4 DEF Quiet, gen
<1>15. parked[c] = 0 => w = waiters
  BY WithoutAbsent DEF Quiet, QuietTypes, QuietQueue, w
<1>16. owner = c => parked[c] = 0
  BY DEF Quiet, QuietQueue
<1>17. owner = NONE => waiters = <<>> /\ w = <<>>
  <2>1. owner = NONE => waiters = <<>>
    OBVIOUS
  <2>2. waiters = <<>> => parked[c] = 0
    BY LenProperties, EmptySeq DEF Quiet, QuietQueue
  <2> QED BY <1>15, <2>1, <2>2
<1>18. HandOff
  BY <1>3, <1>12, <1>15, <1>16, <1>17 DEF HandOff
<1>19. FifoStep
  <2>1. CASE waiters' = w /\ owner' = o
    <3>1. owner = c => waiters' = waiters
      BY <1>15, <1>16, <2>1
    <3>2. owner # c => owner' = owner /\ waiters' = Without(waiters, c)
      BY <1>3, <2>1 DEF w
    <3> QED BY <3>1, <3>2 DEF FifoStep
  <2>2. CASE w # <<>> /\ o = NONE /\ waiters' = Tail(w) /\ owner' = Head(w)
    <3>1. owner = c
      BY <1>3, <1>17, <2>2
    <3> QED BY <1>15, <1>16, <2>2, <3>1 DEF FifoStep
  <2> QED BY <1>12, <2>1, <2>2
<1> QED BY <1>12, <1>14, <1>18, <1>19
----------------------------------------------------------------------------
(* The induction *)

LEMMA InitQuiet == Init => LockIInv
<1> SUFFICES ASSUME Init PROVE LockIInv
  OBVIOUS
<1> USE DEF Init
<1>1. 0 \in Generations /\ 0 \in 0 .. MaxDepth /\ 1 \in 1 .. MaxGeneration + 1
  BY GenerationAssumption, DepthAssumption DEF Generations
<1>2. waiters \in Seq(Channels) /\ Len(waiters) = 0
  BY EmptySeq
<1>3. QuietTypes(owner, depth, bound, attached, waiters, parked, conn, modal)
  BY <1>1, <1>2 DEF QuietTypes
<1>4. QuietLock(owner, depth, bound, attached, modal, parked, conn)
  BY NoneAssumption DEF QuietLock
<1>5. QuietQueue(owner, attached, waiters, parked, conn)
  BY <1>2 DEF QuietQueue
<1> QED BY <1>1, <1>3, <1>4, <1>5 DEF LockIInv, Quiet

\* Every step keeps the invariant, and the lock and the FIFO move as the
\* action property says.
LEMMA StepQuiet ==
    ASSUME LockIInv, [Next]_vars
    PROVE  LockIInv' /\ HandOff /\ FifoStep
<1> USE DEF LockIInv
<1>u. CASE UNCHANGED vars
  BY <1>u DEF vars, Quiet, QuietTypes, QuietLock, QuietQueue, HandOff, FifoStep
<1>n. ASSUME NEW c \in Channels,
             \/ Connect(c) \/ ApplInit(c)
             \/ BeginTake(c) \/ BeginRefused(c) \/ BeginPark(c)
             \/ EndRefused(c) \/ End(c)
             \/ ModalBegin(c) \/ FormRefused(c) \/ ModalEnd(c)
             \/ ApplExit(c) \/ Hangup(c) \/ HangupAbandoned(c)
      PROVE  LockIInv' /\ HandOff /\ FifoStep
  <2> DEFINE Lock == <<owner, depth, bound, waiters, parked>>
  <2>t. /\ conn \in [Channels -> Generations]
        /\ modal \in SUBSET Channels
        /\ 0 \in Generations
        /\ Generations \subseteq Nat
    <3>1. 0 \in Generations /\ Generations \subseteq Nat
      BY GenerationAssumption DEF Generations
    <3> QED BY <3>1 DEF Quiet, QuietTypes
  <2>a. CanCall(c) => attached[c] # 0 /\ c \notin modal /\ parked[c] = 0
    BY DEF CanCall
  <2>b. attached[c] # 0 =>
          /\ OwnerOnceBound(c) = owner
          /\ DepthOnceBound(c) = depth
          /\ Quiet(owner, depth, Bound(c), attached, waiters, parked, conn, modal)
    BY BindIsHarmless
  <2>1. CASE Connect(c)
    <3>1. nextGen \in Generations /\ nextGen + 1 \in 1 .. MaxGeneration + 1
      BY <2>1, GenerationAssumption DEF Connect, Generations
    <3>2. parked[c] = 0 /\ (c \in modal => attached[c] = 0)
      BY <2>1 DEF Connect, Quiet, QuietLock, QuietQueue
    <3>3. c \notin modal
      BY <2>t, <3>2, NoneAssumption DEF Quiet, QuietLock
    <3>4. QuietTypes(owner, depth, bound, attached, waiters, parked, conn', modal)
      BY <2>1, <3>1 DEF Connect, Quiet, QuietTypes
    <3>5. QuietLock(owner, depth, bound, attached, modal, parked, conn')
      BY <2>1, <2>t, <3>3 DEF Connect, Quiet, QuietLock
    <3>6. QuietQueue(owner, attached, waiters, parked, conn')
      BY <2>1, <2>t, <3>2 DEF Connect, Quiet, QuietQueue
    <3> QED BY <2>1, <3>1, <3>4, <3>5, <3>6
          DEF Connect, Quiet, HandOff, FifoStep
  <2>2. CASE ApplInit(c)
    <3>1. attached' \in [Channels -> Generations]
          /\ \A x \in Channels : x # c => attached'[x] = attached[x]
      BY <2>2 DEF ApplInit, Quiet, QuietTypes
    <3>2. attached[c] = 0 /\ parked[c] = 0 /\ bound[c] = 0 /\ owner # c
          /\ c \notin modal
      BY <2>2, NoneAssumption DEF ApplInit, Quiet, QuietLock, QuietQueue
    <3>3. QuietTypes(owner, depth, bound, attached', waiters, parked, conn, modal)
      BY <3>1 DEF Quiet, QuietTypes
    <3>4. QuietLock(owner, depth, bound, attached', modal, parked, conn)
      BY <2>t, <3>1, <3>2 DEF Quiet, QuietTypes, QuietLock
    <3>5. QuietQueue(owner, attached', waiters, parked, conn)
      BY <3>1, <3>2 DEF Quiet, QuietQueue
    <3> QED BY <2>2, <3>3, <3>4, <3>5 DEF ApplInit, Quiet, HandOff, FifoStep
  <2>3. ASSUME BeginTake(c) \/ ModalBegin(c)
        PROVE  LockIInv' /\ HandOff /\ FifoStep
    <3>1. /\ CanCall(c) /\ owner \in {NONE, c} /\ depth[c] < MaxDepth
          /\ owner' = c
          /\ depth' = [depth EXCEPT ![c] = @ + 1]
          /\ bound' = Bound(c)
          /\ UNCHANGED <<conn, attached, waiters, parked, nextGen>>
          /\ modal' \in {modal, modal \cup {c}}
      BY <2>3, <2>a, <2>b DEF BeginTake, ModalBegin
    <3>2. /\ Quiet(owner, depth, bound', attached, waiters, parked, conn, modal)
          /\ attached[c] # 0 /\ attached[c] = conn[c] /\ parked[c] = 0
      BY <2>a, <2>b, <3>1 DEF CanCall
    <3>3. /\ depth' \in [Channels -> 0 .. MaxDepth]
          /\ depth'[c] > 0
          /\ \A x \in Channels : x # c => depth'[x] = depth[x]
      <4>1. depth[c] + 1 \in 0 .. MaxDepth /\ depth[c] + 1 > 0
        BY <3>1, <3>2, DepthAssumption DEF Quiet, QuietTypes
      <4> QED BY <3>1, <3>2, <4>1 DEF Quiet, QuietTypes
    <3>4. bound'[c] = attached[c]
      BY <2>t, <3>1 DEF Bound, Quiet, QuietTypes
    <3>5. QuietTypes(c, depth', bound', attached, waiters, parked, conn, modal')
      BY <3>1, <3>2, <3>3 DEF Quiet, QuietTypes
    <3>6. QuietLock(c, depth', bound', attached, modal', parked, conn)
      <4>1. \A x \in Channels : depth'[x] > 0 <=> c = x
        BY <3>1, <3>2, <3>3, NoneAssumption DEF Quiet, QuietLock
      <4>2. \A x \in modal' : c = x /\ parked[x] = 0 /\ attached[x] = conn[x]
        BY <2>t, <3>1, <3>2, NoneAssumption DEF Quiet, QuietLock
      <4> QED BY <3>2, <3>4, <4>1, <4>2 DEF Quiet, QuietLock
    <3>7. QuietQueue(c, attached, waiters, parked, conn)
      BY <3>2 DEF Quiet, QuietQueue
    <3>8. waiters # <<>> => owner = c
      BY <3>1
    <3> QED BY <3>1, <3>5, <3>6, <3>7, <3>8, NoneAssumption
          DEF Quiet, HandOff, FifoStep
  <2>4. ASSUME BeginRefused(c) \/ EndRefused(c)
        PROVE  LockIInv' /\ HandOff /\ FifoStep
    <3>1. /\ owner' = owner /\ depth' = depth /\ bound' = Bound(c)
          /\ UNCHANGED <<conn, attached, waiters, parked, modal, nextGen>>
          /\ attached[c] # 0
      BY <2>4, <2>a, <2>b DEF BeginRefused, EndRefused
    <3> QED BY <2>b, <3>1
          DEF HandOff, FifoStep, Quiet, QuietTypes, QuietLock, QuietQueue
  <2>5. CASE BeginPark(c)
    <3>1. /\ CanCall(c) /\ attached[c] # 0 /\ parked[c] = 0 /\ c \notin modal
          /\ owner # c /\ owner # NONE
          /\ owner' = owner /\ depth' = depth /\ bound' = Bound(c)
          /\ parked' = [parked EXCEPT ![c] = attached[c]]
          /\ waiters' = Append(waiters, c)
          /\ UNCHANGED <<conn, attached, modal, nextGen>>
      BY <2>5, <2>a, <2>b DEF BeginPark
    <3>2. Quiet(owner, depth, bound', attached, waiters, parked, conn, modal)
      BY <2>b, <3>1
    <3>3. /\ parked' \in [Channels -> Generations]
          /\ parked'[c] = attached[c]
          /\ \A x \in Channels : x # c => parked'[x] = parked[x]
      BY <3>1, <3>2 DEF Quiet, QuietTypes
    <3>4. /\ waiters' \in Seq(Channels)
          /\ Len(waiters) \in Nat
          /\ Len(waiters') = Len(waiters) + 1
          /\ \A i \in 1 .. Len(waiters) : waiters'[i] = waiters[i]
          /\ waiters'[Len(waiters) + 1] = c
      BY <3>1, <3>2, AppendProperties, LenProperties DEF Quiet, QuietTypes
    <3>5. \A i \in 1 .. Len(waiters) : waiters[i] # c
      BY <3>1, <3>2 DEF Quiet, QuietQueue
    <3>6. QuietTypes(owner, depth, bound', attached, waiters', parked', conn, modal)
      BY <3>2, <3>3, <3>4 DEF Quiet, QuietTypes
    <3>7. QuietLock(owner, depth, bound', attached, modal, parked', conn)
      BY <2>t, <3>1, <3>2, <3>3 DEF Quiet, QuietLock
    <3>8. QuietQueue(owner, attached, waiters', parked', conn)
      <4>1. \A i \in 1 .. Len(waiters') :
               \/ i \in 1 .. Len(waiters) /\ waiters'[i] = waiters[i]
               \/ i = Len(waiters) + 1 /\ waiters'[i] = c
        BY <3>4
      <4>2. \A i, j \in 1 .. Len(waiters') : waiters'[i] = waiters'[j] => i = j
        BY <3>2, <3>5, <4>1 DEF Quiet, QuietQueue
      <4>3. \A x \in Channels :
               (\E i \in 1 .. Len(waiters') : waiters'[i] = x)
               <=> x = c \/ \E i \in 1 .. Len(waiters) : waiters[i] = x
        <5>1. \A i \in 1 .. Len(waiters) : i \in 1 .. Len(waiters')
          BY <3>4
        <5>2. Len(waiters) + 1 \in 1 .. Len(waiters')
          BY <3>4
        <5> QED BY <3>4, <4>1, <5>1, <5>2
      <4>4. \A x \in Channels :
               parked'[x] # 0 <=> \E i \in 1 .. Len(waiters') : waiters'[i] = x
        BY <3>1, <3>2, <3>3, <4>3 DEF Quiet, QuietQueue
      <4>5. \A x \in Channels :
               parked'[x] # 0 => parked'[x] = attached[x] /\ parked'[x] = conn[x]
        BY <3>1, <3>2, <3>3 DEF Quiet, QuietQueue, CanCall
      <4>6. \A i \in 1 .. Len(waiters') : waiters'[i] # owner
        BY <3>1, <3>2, <4>1 DEF Quiet, QuietQueue
      <4> QED BY <4>2, <4>4, <4>5, <4>6 DEF QuietQueue
    <3> QED BY <3>1, <3>6, <3>7, <3>8 DEF Quiet, HandOff, FifoStep
  <2>6. ASSUME NEW m \in SUBSET modal, c \notin m, modal' = m,
               NEW cn \in [Channels -> Generations], conn' = cn,
               \A x \in Channels \ {c} : cn[x] = conn[x],
               owner = c, ReleaseLevel(c),
               UNCHANGED <<attached, nextGen>>
        PROVE  LockIInv' /\ HandOff /\ FifoStep
    <3>1. parked[c] = 0
      BY <2>6 DEF Quiet, QuietQueue
    <3>2. /\ Quiet(owner', depth', bound', attached, waiters', parked', cn, m)
          /\ waiters' # <<>> => owner' # NONE
          /\ HandOff
          /\ FifoStep
      BY <2>6, <3>1, ReleaseQuiet
    <3> QED BY <2>6, <3>2 DEF Quiet, QuietTypes, QuietLock, QuietQueue
  <2>7. ASSUME End(c) \/ FormRefused(c)
        PROVE  LockIInv' /\ HandOff /\ FifoStep
    <3>1. owner = c /\ c \notin modal /\ ReleaseLevel(c)
          /\ UNCHANGED <<conn, attached, modal, nextGen>>
      BY <2>7, <2>a, <2>b DEF End, FormRefused
    <3> QED BY <2>6, <2>t, <3>1
  <2>8. ASSUME ModalEnd(c) \/ HangupAbandoned(c)
        PROVE  LockIInv' /\ HandOff /\ FifoStep
    <3>1. /\ c \in modal /\ ReleaseLevel(c) /\ modal' = modal \ {c}
          /\ UNCHANGED <<attached, nextGen>>
          /\ conn' \in {conn, [conn EXCEPT ![c] = 0]}
      BY <2>8 DEF ModalEnd, HangupAbandoned
    <3>2. owner = c
      BY <3>1 DEF Quiet, QuietLock
    <3>3. conn' \in [Channels -> Generations]
          /\ \A x \in Channels \ {c} : conn'[x] = conn[x]
      BY <2>t, <3>1
    <3>4. modal \ {c} \in SUBSET modal /\ c \notin modal \ {c}
      OBVIOUS
    <3> HIDE DEF LockIInv
    <3> QED BY ONLY <2>6, <3>1, <3>2, <3>3, <3>4
  <2>9. ASSUME NEW m \in SUBSET modal, c \notin m, modal' = m,
               NEW cn \in [Channels -> Generations], conn' = cn,
               \A x \in Channels \ {c} : cn[x] = conn[x],
               attached[c] # 0, DetachLock(c),
               attached' = [attached EXCEPT ![c] = 0],
               nextGen' = nextGen
        PROVE  LockIInv' /\ HandOff /\ FifoStep
    <3>1. /\ Quiet(owner', depth', bound', [attached EXCEPT ![c] = 0],
                   waiters', parked', cn, m)
          /\ waiters' # <<>> => owner' # NONE
          /\ HandOff
          /\ FifoStep
      BY <2>9, DetachQuiet
    <3> QED BY <2>9, <3>1
          DEF Quiet, QuietTypes, QuietLock, QuietQueue
  <2>10. CASE ApplExit(c)
    BY <2>9, <2>10, <2>a, <2>t DEF ApplExit
  <2>11. CASE Hangup(c)
    <3>1. /\ conn' \in [Channels -> Generations]
          /\ conn'[c] = 0
          /\ \A x \in Channels \ {c} : conn'[x] = conn[x]
      BY <2>11, <2>t DEF Hangup
    <3>2. CASE attached[c] = conn[c]
      <4>1. /\ DetachLock(c)
            /\ attached' = [attached EXCEPT ![c] = 0]
            /\ nextGen' = nextGen
            /\ modal' = modal \ {c}
            /\ attached[c] # 0
        BY <2>11, <3>2 DEF Hangup
      <4>2. modal \ {c} \in SUBSET modal /\ c \notin modal \ {c}
        OBVIOUS
      <4> QED BY ONLY <2>9, <3>1, <4>1, <4>2
    <3>3. CASE attached[c] # conn[c]
      <4>1. /\ modal' = modal \ {c}
            /\ UNCHANGED <<attached, bound, depth, owner, waiters, parked, nextGen>>
        BY <2>11, <3>3 DEF Hangup
      <4>2. parked[c] = 0
        BY <3>3 DEF Quiet, QuietQueue
      <4>3. QuietTypes(owner, depth, bound, attached, waiters, parked, conn', modal')
        BY <3>1, <4>1 DEF Quiet, QuietTypes
      <4>4. QuietLock(owner, depth, bound, attached, modal', parked, conn')
        BY <2>t, <3>1, <4>1 DEF Quiet, QuietLock
      <4>5. QuietQueue(owner, attached, waiters, parked, conn')
        BY <3>1, <4>2 DEF Quiet, QuietQueue
      <4> QED BY <4>1, <4>3, <4>4, <4>5 DEF Quiet, HandOff, FifoStep
    <3> QED BY <3>2, <3>3
  <2> QED BY <1>n, <2>1, <2>2, <2>3, <2>4, <2>5, <2>7, <2>8, <2>10, <2>11
<1> QED BY <1>u, <1>n DEF Next

\* The strengthened invariant holds in every reachable state.
THEOREM LockInvariant == Spec => []LockIInv
<1>1. Init => LockIInv
  BY InitQuiet
<1>2. LockIInv /\ [Next]_vars => LockIInv'
  BY StepQuiet
<1> QED BY <1>1, <1>2, PTL DEF Spec

\* Type correctness of the lock, its FIFO and the attachments.
THEOREM TypeCorrect == Spec => []TypeOK
<1>1. LockIInv => TypeOK
  BY DEF LockIInv, Quiet, QuietTypes, TypeOK
<1> QED BY <1>1, LockInvariant, PTL

\* The lock is always held by an attachment that is still there, and no
\* reuse of a channel inherits it.
THEOREM OwnerSafe == Spec => [](OwnerIsAttached /\ ModalOwns)
<1>1. LockIInv => OwnerIsAttached /\ ModalOwns
  BY DEF LockIInv, Quiet, QuietTypes, QuietLock, OwnerIsAttached, ModalOwns
<1> QED BY <1>1, LockInvariant, PTL

\* Each parked BEG_UPDATE is on the FIFO exactly once, under the generation
\* that is attached, and while one is, somebody else holds the lock.
THEOREM WaitersSafe == Spec => [](WaitersAreParked /\ NeverIdleWithWaiters)
<1>1. ASSUME LockIInv PROVE WaitersAreParked /\ NeverIdleWithWaiters
  <2>1. DOMAIN waiters = 1 .. Len(waiters)
    BY <1>1, LenProperties DEF LockIInv, Quiet, QuietTypes
  <2> QED BY <1>1, <2>1
        DEF LockIInv, Quiet, QuietQueue, WaitersAreParked, NeverIdleWithWaiters,
            NoRepeats, Listed
<1> QED BY <1>1, LockInvariant, PTL

\* The lock is sound in every reachable state: the two theorems above together.
THEOREM LockSafe == Spec => []LockSafety
<1>1. (OwnerIsAttached /\ ModalOwns) /\ (WaitersAreParked /\ NeverIdleWithWaiters)
      => LockSafety
  BY DEF LockSafety
<1> QED BY <1>1, OwnerSafe, WaitersSafe, PTL

\* The lock implements ScreenLock: the screen goes down the line, nobody is
\* overtaken, and it is never free while somebody waits.
THEOREM LockImplementsScreenLock == Spec => ImplementsScreenLock
<1>1. Init => Promise!Init
  BY DEF Init, Promise!Init
<1>2. ASSUME LockIInv, LockIInv', HandOff, FifoStep
      PROVE  Promise!Next \/ UNCHANGED <<owner, waiters>>
  <2>0. /\ waiters \in Seq(Channels)
        /\ waiters' \in Seq(Channels)
        /\ owner \in Channels \cup {NONE}
        /\ owner' \in Channels \cup {NONE}
        /\ waiters # <<>> => owner # NONE
        /\ waiters' # <<>> => owner' # NONE
        /\ \A i \in 1 .. Len(waiters) : waiters[i] # owner
        /\ \A i \in 1 .. Len(waiters') : waiters'[i] # owner'
        /\ \A i, j \in 1 .. Len(waiters') : waiters'[i] = waiters'[j] => i = j
    BY <1>2 DEF LockIInv, Quiet, QuietTypes, QuietQueue
  <2>1. CASE waiters' = waiters
    <3>1. CASE waiters # <<>> /\ owner' # owner
      <4>1. owner' = waiters[1] /\ 1 \in 1 .. Len(waiters)
        BY <1>2, <2>0, <3>1, EmptySeq DEF HandOff
      <4> QED BY <2>0, <2>1, <4>1
    <3>2. CASE waiters = <<>> /\ owner' # owner
      <4>1. owner = NONE \/ owner' = NONE
        BY <1>2, <3>2 DEF HandOff
      <4>2. CASE owner = NONE
        BY <2>0, <2>1, <3>2, <4>2 DEF Promise!Next, Promise!Take
      <4>3. CASE owner # NONE /\ owner' = NONE
        BY <2>1, <3>2, <4>3 DEF Promise!Next, Promise!Release
      <4> QED BY <4>1, <4>2, <4>3
    <3> QED BY <2>1, <3>1, <3>2
  <2>2. CASE /\ waiters # <<>>
             /\ owner' = Head(waiters)
             /\ waiters' = Tail(waiters)
    BY <2>0, <2>2 DEF Promise!Next, Promise!Release
  <2>3. CASE owner' = owner /\ \E c \in Channels : waiters' = Append(waiters, c)
    <3> PICK c \in Channels : waiters' = Append(waiters, c)
      BY <2>3
    <3>1. /\ Len(waiters) \in Nat
          /\ Len(waiters') = Len(waiters) + 1
          /\ waiters'[Len(waiters) + 1] = c
          /\ \A i \in 1 .. Len(waiters) : waiters'[i] = waiters[i]
          /\ waiters' # <<>>
          /\ DOMAIN waiters = 1 .. Len(waiters)
      BY <2>0, AppendProperties, LenProperties
    <3>2. owner # NONE /\ owner # c
      BY <2>0, <2>3, <3>1
    <3>3. ~Listed(waiters, c)
      BY <2>0, <3>1 DEF Listed
    <3>4. ~Promise!Listed(waiters, c)
      BY <3>3 DEF Listed, Promise!Listed
    <3> QED BY <2>3, <3>2, <3>4 DEF Promise!Next, Promise!Join
  <2>4. CASE owner' = owner /\ \E c \in Channels : waiters' = Without(waiters, c)
    <3> PICK c \in Channels : waiters' = Without(waiters, c)
      BY <2>4
    <3>1. CASE Listed(waiters, c)
      <4>1. Promise!Listed(waiters, c)
        BY <3>1 DEF Listed, Promise!Listed
      <4>2. Promise!Without(waiters, c) = Without(waiters, c)
        BY DEF Without, Promise!Without
      <4> QED BY <2>4, <4>1, <4>2 DEF Promise!Next, Promise!GiveUp
    <3>2. CASE ~Listed(waiters, c)
      BY <2>4, <3>2 DEF Without, Listed
    <3> QED BY <3>1, <3>2
  <2> QED BY <1>2, <2>1, <2>2, <2>3, <2>4 DEF FifoStep
<1>3. LockIInv /\ LockIInv' /\ [Next]_vars => [Promise!Next]_<<owner, waiters>>
  BY <1>2, StepQuiet
<1> QED BY <1>1, <1>3, LockInvariant, PTL
      DEF Spec, ImplementsScreenLock, Promise!Spec
=============================================================================
