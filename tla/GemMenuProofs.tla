---------------------------- MODULE GemMenuProofs ----------------------------
(***************************************************************************)
(* Proofs about GemMenu, for any number of clients, titles and rows: no    *)
(* path of teardown leaves a reference behind, what is painted is what the *)
(* object trees say, and a title that stays highlighted was told of.       *)
(*                                                                         *)
(* A handler works on a state S and leaves effects that are drawn after it *)
(* from the trees as it left them.  So a painted screen is a function of   *)
(* what is selected in the end and of the list of effects (Painted), and   *)
(* Painting(S) says that drawing the effects of S shows the pull-down and  *)
(* the row that S tracks.  Appending an effect or writing one object keeps *)
(* that, if the effect covers the object (PaintedBefore and what follows). *)
(*                                                                         *)
(* Stepped(S, T) relates the states before and after one step of the       *)
(* manager; it is transitive, so the proofs of SetItem, OpenTitle, Close,  *)
(* SwitchTitle and a mouse sample follow their calls.  At the end Lands    *)
(* says what the drawing makes of the screen and the queues, refused or    *)
(* not, and every action lands (LeaveIs, LandIs).                          *)
(*                                                                         *)
(* Behind them the tabs and the roster of the IRC client (GemIrcTabs).     *)
(* TabsInv says that no buffer has two places and that a roster names      *)
(* nobody twice; Matches says that it is the server's list of members      *)
(* while the client is aware of it.  Becomes relates a roster before and   *)
(* after a message, and every event of the server keeps Matches.           *)
(***************************************************************************)
EXTENDS GemMenu, GemIrcTabs, GemFifoProofs

----------------------------------------------------------------------------
(* The invariant *)

Flags == {"sel", "dis", "chk"}

Managers ==
    [active : BOOLEAN, owner : Apps \cup {NoApp}, button : BOOLEAN, tracking : BOOLEAN,
     title : 0 .. Len(Rows), item : Nat, armed : Nat, drag : BOOLEAN, latched : BOOLEAN,
     outside : BOOLEAN, titleBase : SUBSET Flags, itemBase : SUBSET Flags]

Trees == [Apps -> [Objects -> SUBSET Flags]]

Drawings ==
    {d \in [do : {"title", "row", "save", "pull", "restore"}, t : Titles, k : Nat] :
        d.do = "row" => d.k # 0}

Notes == [to : Apps, type : {"open", "selected"}, t : Titles, k : Nat]

Handled ==
    [m : Managers, marks : Trees, desk : Seq(SUBSET Flags), acc : Seq(live),
     bar : Apps \cup {NoApp}, fx : Seq(Drawings), all : BOOLEAN, msg : Notes \cup {None}]

Screens ==
    [pulled : SUBSET Titles, rows : SUBSET (Titles \X (Nat \ {0})), titles : SUBSET Titles,
     names : Seq(Apps), refused : BOOLEAN]

Mail == {[type |-> "redraw"]} \cup [type : {"open", "selected"}, t : Titles, k : Nat]

\* The menu that is worked is that of the bar; an open pull-down has its rows.
Worked(S) ==
    /\ S.m.active => S.m.owner \in Apps /\ S.m.owner = S.bar
    /\ S.m.tracking => /\ S.m.active /\ S.m.title \in Titles
                       /\ S.m.item \in 0 .. RowCount(S)
                       /\ InDesk(S) => Len(S.desk) = 2 + Len(S.acc)

Tracked(S, o) == S.m.tracking /\ o = <<S.m.title, S.m.item>>

\* Of the rows only the tracked one is selected, and it was not before.
Lit(S) ==
    /\ "sel" \notin S.m.itemBase
    /\ S.m.tracking /\ S.m.item # 0 => "sel" \in RowState(S, S.m.item)
    /\ \A k \in 1 .. Len(S.desk) : "sel" \in S.desk[k] => Tracked(S, <<DeskTitle, k>>)
    /\ \A a \in Apps, o \in Objects :
          o[2] # 0 /\ "sel" \in S.marks[a][o] =>
              Tracked(S, o) /\ a = S.m.owner /\ o[1] # DeskTitle

\* The rows that are drawn are there.
RowsOf(S, t) == IF t = DeskTitle THEN Len(S.desk) ELSE Rows[t]

Drawable(S) ==
    \A i \in 1 .. Len(S.fx) : S.fx[i].do = "row" => S.fx[i].k \in 1 .. RowsOf(S, S.fx[i].t)

Good(S) == S \in Handled /\ Worked(S) /\ Lit(S) /\ Drawable(S)

\* The objects that are selected where the painting looks for them.
Chosen(S) ==
    {o \in Titles \X Nat :
        IF o[1] = DeskTitle /\ o[2] # 0
        THEN o[2] <= Len(S.desk) /\ "sel" \in S.desk[o[2]]
        ELSE o \in Objects /\ S.bar # NoApp /\ "sel" \in S.marks[S.bar][o]}

\* A screen that shows these pull-downs and rows, and the titles as S has them.
Shows(S, scr, pulled, rows) ==
    /\ scr.pulled = pulled /\ scr.rows = rows
    /\ DeskTitle \in pulled => scr.names = S.acc
    /\ S.bar # NoApp => scr.titles = {t \in Titles : <<t, 0>> \in Chosen(S)}

Pulled(S) == IF S.m.tracking THEN {S.m.title} ELSE {}
LitRows(S) == IF S.m.tracking /\ S.m.item # 0 THEN {<<S.m.title, S.m.item>>} ELSE {}

IInv ==
    /\ live \subseteq Apps /\ loaded \subseteq live
    /\ shown \in live \cup {NoApp}
    /\ Good(Start)
    /\ menu.active => shown \in loaded
    /\ screen \in Screens
    /\ screen.refused \/ Shows(Start, screen, Pulled(Start), LitRows(Start))
    /\ queue \in [Apps -> Seq(Mail)]
    /\ \A a \in Apps : Len(queue[a]) <= QueueMax

----------------------------------------------------------------------------
(* Painting *)

\* What one effect paints, when nothing is refused: a function of what is
\* selected in the end, since the effects are drawn after the handler.
Paint(sel, acc, scr, e) ==
    CASE e.do = "title" ->
           [scr EXCEPT !.titles = (@ \ {e.t}) \cup {t \in {e.t} : <<t, 0>> \in sel}]
      [] e.do = "row" ->
           [scr EXCEPT !.rows = (@ \ {<<e.t, e.k>>}) \cup ({<<e.t, e.k>>} \cap sel)]
      [] e.do = "pull" ->
           [scr EXCEPT !.pulled = @ \cup {e.t},
                       !.rows = {r \in @ : r[1] # e.t}
                                \cup {r \in sel : r[1] = e.t /\ r[2] # 0},
                       !.names = IF e.t = DeskTitle THEN acc ELSE @]
      [] e.do = "restore" ->
           [scr EXCEPT !.pulled = @ \ {e.t}, !.rows = {r \in @ : r[1] # e.t},
                       !.names = IF e.t = DeskTitle THEN <<>> ELSE @,
                       !.titles = {t \in Titles : <<t, 0>> \in sel}]
      [] OTHER -> scr

\* What all of them paint.
Painted(sel, acc, scr, fx) ==
    LET after[n \in 0 .. Len(fx)] ==
            IF n = 0 THEN scr ELSE Paint(sel, acc, after[n - 1], fx[n])
    IN  after[Len(fx)]

After(S) == Painted(Chosen(S), S.acc, screen, S.fx)

\* Two screens differ at most in the objects X and, unless same, in the names.
Alike(X, same, p, q) ==
    /\ p \in Screens /\ q \in Screens
    /\ p.pulled = q.pulled /\ p.refused = q.refused
    /\ same => p.names = q.names
    /\ \A t \in Titles : <<t, 0>> \notin X => (t \in p.titles <=> t \in q.titles)
    /\ \A r \in Titles \X (Nat \ {0}) : r \notin X => (r \in p.rows <=> r \in q.rows)

\* The screens of the loop of Painted over k effects.
PaintLoop(sel, acc, scr, fx, k, after) ==
    /\ after[0] = scr
    /\ \A n \in 1 .. k : after[n] = Paint(sel, acc, after[n - 1], fx[n])
    /\ Painted(sel, acc, scr, fx) = after[k]

\* The loop of Painted over the effects.
LEMMA PaintedTurns ==
    ASSUME NEW sel, NEW acc, NEW scr, NEW fx, NEW k \in Nat, k = Len(fx)
    PROVE  \E after : PaintLoop(sel, acc, scr, fx, k, after)
<1> DEFINE Turn(f, n) == IF n = 0 THEN scr ELSE Paint(sel, acc, f[n - 1], fx[n])
           Is(f, t) == f = [n \in 0 .. t |-> Turn(f, n)]
           P == {t \in 0 .. k : \E f : Is(f, t)}
<1>1. 0 \in P
  <2>1. Is([n \in 0 .. 0 |-> scr], 0)
    OBVIOUS
  <2>2. 0 \in 0 .. k
    OBVIOUS
  <2> HIDE DEF Is
  <2> QED BY <2>1, <2>2
<1>2. ASSUME NEW t \in 1 .. k, t - 1 \in P PROVE t \in P
  <2>1. PICK f : Is(f, t - 1)
    BY <1>2
  <2> DEFINE g == [n \in 0 .. t |-> IF n = t THEN Turn(f, t) ELSE f[n]]
  <2>2. Is(g, t)
    BY ONLY <2>1, t \in 1 .. k, k \in Nat
  <2>3. t \in 0 .. k
    OBVIOUS
  <2> HIDE DEF Is, g
  <2> QED BY <2>2, <2>3
<1>3. k \in P
  <2> HIDE DEF P
  <2> QED BY <1>1, <1>2, Turns
<1>4. PICK f : Is(f, k)
  BY <1>3
<1>5. Painted(sel, acc, scr, fx) = (CHOOSE g : Is(g, k))[k]
  BY DEF Painted
<1>6. Is(CHOOSE g : Is(g, k), k)
  <2> HIDE DEF Is
  <2> QED BY <1>4
<1>7. PICK after : Is(after, k) /\ Painted(sel, acc, scr, fx) = after[k]
  <2> HIDE DEF Is
  <2> QED BY <1>5, <1>6
<1>8. /\ after[0] = scr
      /\ \A n \in 1 .. k : after[n] = Paint(sel, acc, after[n - 1], fx[n])
  <2>1. \A n \in 1 .. k : n \in 0 .. k /\ n # 0
    OBVIOUS
  <2> QED BY ONLY <1>7, <2>1, k \in Nat
<1> HIDE DEF Is
<1> QED BY <1>7, <1>8 DEF PaintLoop

\* The states of the loop of Drawn over k effects.
DrawLoop(S, D, fx, k, after) ==
    /\ after[0] = D
    /\ \A n \in 1 .. k : after[n] = Draw(S, after[n - 1], fx[n])
    /\ Drawn(S, D) = after[k]

\* The loop of Drawn over the effects.
LEMMA DrawnTurns ==
    ASSUME NEW S, NEW D, NEW fx, fx = S.fx, NEW k \in Nat, k = Len(fx)
    PROVE  \E after : DrawLoop(S, D, fx, k, after)
<1> DEFINE Turn(f, n) == IF n = 0 THEN D ELSE Draw(S, f[n - 1], fx[n])
           Is(f, t) == f = [n \in 0 .. t |-> Turn(f, n)]
           P == {t \in 0 .. k : \E f : Is(f, t)}
<1>1. 0 \in P
  <2>1. Is([n \in 0 .. 0 |-> D], 0)
    OBVIOUS
  <2>2. 0 \in 0 .. k
    OBVIOUS
  <2> HIDE DEF Is
  <2> QED BY <2>1, <2>2
<1>2. ASSUME NEW t \in 1 .. k, t - 1 \in P PROVE t \in P
  <2>1. PICK f : Is(f, t - 1)
    BY <1>2
  <2> DEFINE g == [n \in 0 .. t |-> IF n = t THEN Turn(f, t) ELSE f[n]]
  <2>2. Is(g, t)
    BY ONLY <2>1, t \in 1 .. k, k \in Nat
  <2>3. t \in 0 .. k
    OBVIOUS
  <2> HIDE DEF Is, g
  <2> QED BY <2>2, <2>3
<1>3. k \in P
  <2> HIDE DEF P
  <2> QED BY <1>1, <1>2, Turns
<1>4. PICK f : Is(f, k)
  BY <1>3
<1>5. Drawn(S, D) = (CHOOSE g : Is(g, k))[k]
  BY DEF Drawn
<1>6. Is(CHOOSE g : Is(g, k), k)
  <2> HIDE DEF Is
  <2> QED BY <1>4
<1>7. PICK after : Is(after, k) /\ Drawn(S, D) = after[k]
  <2> HIDE DEF Is
  <2> QED BY <1>5, <1>6
<1>8. /\ after[0] = D
      /\ \A n \in 1 .. k : after[n] = Draw(S, after[n - 1], fx[n])
  <2>1. \A n \in 1 .. k : n \in 0 .. k /\ n # 0
    OBVIOUS
  <2> QED BY ONLY <1>7, <2>1, k \in Nat
<1> HIDE DEF Is
<1> QED BY <1>7, <1>8 DEF DrawLoop

\* With one effect more, that effect is painted last.
LEMMA PaintedMore ==
    ASSUME NEW sel, NEW acc, NEW scr, NEW fx \in Seq(Drawings), NEW e \in Drawings
    PROVE  /\ Painted(sel, acc, scr, Append(fx, e))
                = Paint(sel, acc, Painted(sel, acc, scr, fx), e)
           /\ fx = <<>> => Painted(sel, acc, scr, fx) = scr
<1> DEFINE n == Len(fx)
           more == Append(fx, e)
<1>1. /\ n \in Nat /\ more \in Seq(Drawings) /\ Len(more) = n + 1 /\ more[n + 1] = e
      /\ \A i \in 1 .. n : more[i] = fx[i]
  BY AppendProperties, LenProperties
<1>a. PICK p : PaintLoop(sel, acc, scr, fx, n, p)
  <2>1. n \in Nat /\ n = Len(fx)
    BY <1>1
  <2> HIDE DEF n
  <2> QED BY <2>1, PaintedTurns
<1>2. /\ p[0] = scr
      /\ \A i \in 1 .. n : p[i] = Paint(sel, acc, p[i - 1], fx[i])
      /\ Painted(sel, acc, scr, fx) = p[n]
  BY <1>a DEF PaintLoop
<1> HIDE DEF more
<1>b. PICK q : PaintLoop(sel, acc, scr, more, n + 1, q)
  <2> DEFINE k == n + 1
  <2>1. k \in Nat /\ k = Len(more)
    BY <1>1
  <2> HIDE DEF k, n
  <2>2. \E q : PaintLoop(sel, acc, scr, more, k, q)
    BY <2>1, PaintedTurns
  <2> QED BY <2>2 DEF k
<1>3. /\ q[0] = scr
      /\ \A i \in 1 .. n + 1 : q[i] = Paint(sel, acc, q[i - 1], more[i])
      /\ Painted(sel, acc, scr, more) = q[n + 1]
  BY <1>b DEF PaintLoop
<1> HIDE DEF n
<1> DEFINE P == {i \in 0 .. n : p[i] = q[i]}
<1>4. 0 \in P
  BY <1>1, <1>2, <1>3
<1>5. ASSUME NEW i \in 1 .. n, i - 1 \in P PROVE i \in P
  <2>1. i \in 1 .. n + 1 /\ i \in 0 .. n /\ p[i - 1] = q[i - 1]
    BY <1>1, <1>5
  <2>2. p[i] = Paint(sel, acc, p[i - 1], fx[i]) /\ q[i] = Paint(sel, acc, q[i - 1], more[i])
    BY <1>2, <1>3, <2>1
  <2> QED BY <1>1, <2>1, <2>2
<1>6. n \in P
  <2> HIDE DEF P
  <2> QED BY <1>1, <1>4, <1>5, Turns
<1>7. n + 1 \in 1 .. n + 1 /\ (n + 1) - 1 = n
  BY <1>1
<1>8. q[n + 1] = Paint(sel, acc, q[n], more[n + 1])
  <2>1. q[n + 1] = Paint(sel, acc, q[(n + 1) - 1], more[n + 1])
    BY <1>3, <1>7
  <2> QED BY <1>7, <2>1
<1>9. p[n] = q[n]
  BY <1>6
<1>10. fx = <<>> => n = 0
  BY DEF n
<1> QED BY <1>1, <1>2, <1>3, <1>8, <1>9, <1>10 DEF more

\* A painted screen is a screen.
LEMMA PaintTyped ==
    ASSUME NEW sel \in SUBSET (Titles \X Nat), NEW acc \in Seq(Apps), NEW scr \in Screens,
           NEW e \in Drawings
    PROVE  Paint(sel, acc, scr, e) \in Screens
<1>0. /\ e.t \in Titles /\ e.k \in Nat /\ e.do \in {"title", "row", "save", "pull", "restore"}
      /\ e.do = "row" => e.k # 0
  BY DEF Drawings
<1>e. <<>> \in Seq(Apps)
  OBVIOUS
<1>1. CASE e.do = "title"
  BY <1>0, <1>1 DEF Paint, Screens
<1>2. CASE e.do = "row"
  <2>1. {<<e.t, e.k>>} \cap sel \subseteq Titles \X (Nat \ {0})
    BY <1>0, <1>2
  <2> QED BY <1>2, <2>1 DEF Paint, Screens
<1>3. CASE e.do = "pull"
  <2>1. {r \in sel : r[1] = e.t /\ r[2] # 0} \subseteq Titles \X (Nat \ {0})
    OBVIOUS
  <2> QED BY <1>0, <1>3, <2>1 DEF Paint, Screens
<1>4. CASE e.do = "restore"
  BY <1>0, <1>e, <1>4 DEF Paint, Screens
<1>5. CASE e.do = "save"
  BY <1>5 DEF Paint
<1> QED BY <1>0, <1>1, <1>2, <1>3, <1>4, <1>5

\* What is painted differs where the screens differ or what is selected does.
LEMMA PaintAlike ==
    ASSUME NEW X, NEW sel \in SUBSET (Titles \X Nat), NEW new \in SUBSET (Titles \X Nat),
           sel \ X = new \ X, NEW acc \in Seq(Apps), NEW acc2 \in Seq(Apps),
           NEW same \in BOOLEAN, same => acc = acc2, NEW p, NEW q, Alike(X, same, p, q),
           NEW e \in Drawings
    PROVE  Alike(X, same, Paint(sel, acc, p, e), Paint(new, acc2, q, e))
<1> DEFINE a == Paint(sel, acc, p, e)
           b == Paint(new, acc2, q, e)
<1>0. e.t \in Titles /\ e.k \in Nat /\ e.do \in {"title", "row", "save", "pull", "restore"}
  BY DEF Drawings
<1>1. /\ p \in Screens /\ q \in Screens
      /\ p.pulled = q.pulled /\ p.refused = q.refused
      /\ same => p.names = q.names
      /\ \A t \in Titles : <<t, 0>> \notin X => (t \in p.titles <=> t \in q.titles)
      /\ \A r \in Titles \X (Nat \ {0}) : r \notin X => (r \in p.rows <=> r \in q.rows)
  BY DEF Alike
<1>2. a \in Screens /\ b \in Screens
  BY <1>1, PaintTyped
<1>3. \A o \in Titles \X Nat : o \notin X => (o \in sel <=> o \in new)
  OBVIOUS
<1>4. \A t \in Titles : <<t, 0>> \notin X => (<<t, 0>> \in sel <=> <<t, 0>> \in new)
  BY <1>3
<1>5. CASE e.do = "title"
  <2>1. /\ a.pulled = p.pulled /\ a.names = p.names /\ a.refused = p.refused /\ a.rows = p.rows
        /\ b.pulled = q.pulled /\ b.names = q.names /\ b.refused = q.refused /\ b.rows = q.rows
        /\ a.titles = (p.titles \ {e.t}) \cup {t \in {e.t} : <<t, 0>> \in sel}
        /\ b.titles = (q.titles \ {e.t}) \cup {t \in {e.t} : <<t, 0>> \in new}
    BY <1>1, <1>5 DEF Paint, Screens
  <2>2. \A t \in Titles : <<t, 0>> \notin X => (t \in a.titles <=> t \in b.titles)
    BY <1>1, <1>4, <2>1
  <2> HIDE DEF a, b
  <2>3. Alike(X, same, a, b)
    BY <1>1, <1>2, <2>1, <2>2 DEF Alike
  <2> QED BY <2>3 DEF a, b
<1>6. CASE e.do = "row"
  <2>1. /\ a.pulled = p.pulled /\ a.names = p.names /\ a.refused = p.refused /\ a.titles = p.titles
        /\ b.pulled = q.pulled /\ b.names = q.names /\ b.refused = q.refused /\ b.titles = q.titles
        /\ a.rows = (p.rows \ {<<e.t, e.k>>}) \cup ({<<e.t, e.k>>} \cap sel)
        /\ b.rows = (q.rows \ {<<e.t, e.k>>}) \cup ({<<e.t, e.k>>} \cap new)
    BY <1>1, <1>6 DEF Paint, Screens
  <2>2. \A r \in Titles \X (Nat \ {0}) : r \notin X => (r \in a.rows <=> r \in b.rows)
    BY <1>1, <1>3, <2>1
  <2> HIDE DEF a, b
  <2>3. Alike(X, same, a, b)
    BY <1>1, <1>2, <2>1, <2>2 DEF Alike
  <2> QED BY <2>3 DEF a, b
<1>7. CASE e.do = "pull"
  <2>1. /\ a.pulled = p.pulled \cup {e.t} /\ a.refused = p.refused /\ a.titles = p.titles
        /\ b.pulled = q.pulled \cup {e.t} /\ b.refused = q.refused /\ b.titles = q.titles
        /\ a.names = (IF e.t = DeskTitle THEN acc ELSE p.names)
        /\ b.names = (IF e.t = DeskTitle THEN acc2 ELSE q.names)
        /\ a.rows = {r \in p.rows : r[1] # e.t} \cup {r \in sel : r[1] = e.t /\ r[2] # 0}
        /\ b.rows = {r \in q.rows : r[1] # e.t} \cup {r \in new : r[1] = e.t /\ r[2] # 0}
    BY <1>1, <1>7 DEF Paint, Screens
  <2>2. \A r \in Titles \X (Nat \ {0}) : r \notin X => (r \in a.rows <=> r \in b.rows)
    BY <1>1, <1>3, <2>1
  <2> HIDE DEF a, b
  <2>3. Alike(X, same, a, b)
    BY <1>1, <1>2, <2>1, <2>2 DEF Alike
  <2> QED BY <2>3 DEF a, b
<1>8. CASE e.do = "restore"
  <2>1. /\ a.pulled = p.pulled \ {e.t} /\ a.refused = p.refused
        /\ b.pulled = q.pulled \ {e.t} /\ b.refused = q.refused
        /\ a.names = (IF e.t = DeskTitle THEN <<>> ELSE p.names)
        /\ b.names = (IF e.t = DeskTitle THEN <<>> ELSE q.names)
        /\ a.rows = {r \in p.rows : r[1] # e.t}
        /\ b.rows = {r \in q.rows : r[1] # e.t}
        /\ a.titles = {t \in Titles : <<t, 0>> \in sel}
        /\ b.titles = {t \in Titles : <<t, 0>> \in new}
    BY <1>1, <1>8 DEF Paint, Screens
  <2>2. /\ \A r \in Titles \X (Nat \ {0}) : r \notin X => (r \in a.rows <=> r \in b.rows)
        /\ \A t \in Titles : <<t, 0>> \notin X => (t \in a.titles <=> t \in b.titles)
    BY <1>1, <1>3, <1>4, <2>1
  <2> HIDE DEF a, b
  <2>3. Alike(X, same, a, b)
    BY <1>1, <1>2, <2>1, <2>2 DEF Alike
  <2> QED BY <2>3 DEF a, b
<1>9. CASE e.do = "save"
  BY <1>9 DEF Paint
<1> QED BY <1>0, <1>5, <1>6, <1>7, <1>8, <1>9

\* The same of a list of effects.
LEMMA PaintedAlike ==
    ASSUME NEW X, NEW sel \in SUBSET (Titles \X Nat), NEW new \in SUBSET (Titles \X Nat),
           sel \ X = new \ X, NEW acc \in Seq(Apps), NEW acc2 \in Seq(Apps),
           NEW same \in BOOLEAN, same => acc = acc2, NEW scr \in Screens,
           NEW fx \in Seq(Drawings)
    PROVE  Alike(X, same, Painted(sel, acc, scr, fx), Painted(new, acc2, scr, fx))
<1> DEFINE n == Len(fx)
<1>1. n \in Nat /\ n = Len(fx) /\ \A i \in 1 .. n : fx[i] \in Drawings
  BY LenProperties
<1> HIDE DEF n
<1>a. PICK p : PaintLoop(sel, acc, scr, fx, n, p)
  BY <1>1, PaintedTurns
<1>2. /\ p[0] = scr
      /\ \A i \in 1 .. n : p[i] = Paint(sel, acc, p[i - 1], fx[i])
      /\ Painted(sel, acc, scr, fx) = p[n]
  BY <1>a DEF PaintLoop
<1>b. PICK q : PaintLoop(new, acc2, scr, fx, n, q)
  BY <1>1, PaintedTurns
<1>3. /\ q[0] = scr
      /\ \A i \in 1 .. n : q[i] = Paint(new, acc2, q[i - 1], fx[i])
      /\ Painted(new, acc2, scr, fx) = q[n]
  BY <1>b DEF PaintLoop
<1> DEFINE P == {i \in 0 .. n : Alike(X, same, p[i], q[i])}
<1>4. 0 \in P
  <2>1. Alike(X, same, scr, scr)
    BY DEF Alike
  <2> QED BY <1>1, <1>2, <1>3, <2>1
<1>5. ASSUME NEW i \in 1 .. n, i - 1 \in P PROVE i \in P
  <2>1. i \in 0 .. n /\ Alike(X, same, p[i - 1], q[i - 1]) /\ fx[i] \in Drawings
    BY <1>1, <1>5
  <2>2. Alike(X, same, Paint(sel, acc, p[i - 1], fx[i]), Paint(new, acc2, q[i - 1], fx[i]))
    BY <2>1, PaintAlike
  <2> QED BY <1>2, <1>3, <2>1, <2>2
<1>6. n \in P
  <2> HIDE DEF P
  <2> QED BY <1>1, <1>4, <1>5, Turns
<1> QED BY <1>2, <1>3, <1>6

\* What painting needs of a state, and the state painted to show these
\* pull-downs and rows.
Drawer(S) ==
    /\ S.acc \in Seq(Apps) /\ S.fx \in Seq(Drawings)
    /\ screen \in Screens

Paints(S, P, R) == After(S) \in Screens /\ Shows(S, After(S), P, R)

\* Two states select the same but for the objects X.
Same(S, T, X) == T.bar = S.bar /\ Chosen(T) \ X = Chosen(S) \ X

\* The effects before the last one, painted with what is selected after it.
LEMMA PaintedBefore ==
    ASSUME NEW S, NEW T, Drawer(S), NEW X, Same(S, T, X), NEW P, NEW R, Paints(S, P, R),
           T.acc = S.acc
    PROVE  LET q == Painted(Chosen(T), T.acc, screen, S.fx)
           IN  /\ Alike(X, TRUE, After(S), q)
               /\ Chosen(S) \in SUBSET (Titles \X Nat) /\ Chosen(T) \in SUBSET (Titles \X Nat)
<1>1. Chosen(S) \in SUBSET (Titles \X Nat) /\ Chosen(T) \in SUBSET (Titles \X Nat)
  BY DEF Chosen
<1>2. /\ S.acc \in Seq(Apps) /\ S.fx \in Seq(Drawings) /\ screen \in Screens
      /\ Chosen(S) \ X = Chosen(T) \ X
  BY DEF Drawer, Same
<1> DEFINE a == S.acc
           fx == S.fx
           sel == Chosen(S)
           new == Chosen(T)
<1>3. /\ a \in Seq(Apps) /\ fx \in Seq(Drawings) /\ sel \ X = new \ X
      /\ sel \in SUBSET (Titles \X Nat) /\ new \in SUBSET (Titles \X Nat)
  BY <1>1, <1>2
<1> HIDE DEF a, fx, sel, new
<1>4. Alike(X, TRUE, Painted(sel, a, screen, fx), Painted(new, a, screen, fx))
  <2>1. TRUE \in BOOLEAN /\ (TRUE => a = a)
    OBVIOUS
  <2> QED BY <1>2, <1>3, <2>1, PaintedAlike
<1> QED BY <1>1, <1>4 DEF After, a, fx, sel, new

\* One row is drawn again.
LEMMA RowPaint ==
    ASSUME NEW S, NEW T, Drawer(S), NEW t \in Titles, NEW k \in Nat \ {0},
           T.fx = Append(S.fx, [do |-> "row", t |-> t, k |-> k]), T.acc = S.acc,
           Same(S, T, {<<t, k>>}), NEW P, NEW R, Paints(S, P, R)
    PROVE  Paints(T, P, (R \ {<<t, k>>}) \cup ({<<t, k>>} \cap Chosen(T)))
<1> DEFINE e == [do |-> "row", t |-> t, k |-> k]
           p == After(S)
           q == Painted(Chosen(T), T.acc, screen, S.fx)
           new == Chosen(T)
           o == <<t, k>>
<1>1. Alike({o}, TRUE, p, q) /\ new \in SUBSET (Titles \X Nat)
  BY PaintedBefore
<1>2. /\ p \in Screens /\ p.pulled = P /\ p.rows = R /\ (DeskTitle \in P => p.names = S.acc)
      /\ S.bar # NoApp => p.titles = {u \in Titles : <<u, 0>> \in Chosen(S)}
  BY DEF Paints, Shows
<1>3. e \in Drawings /\ e.do = "row" /\ e.t = t /\ e.k = k
  BY DEF Drawings
<1>4. After(T) = Paint(new, T.acc, q, e)
  BY <1>3, PaintedMore DEF After, Drawer
<1>5. After(T) \in Screens
  BY <1>1, <1>3, <1>4, PaintTyped DEF Alike, Drawer
<1> HIDE DEF q, new
<1>6. /\ After(T).pulled = q.pulled /\ After(T).names = q.names /\ After(T).titles = q.titles
      /\ After(T).rows = (q.rows \ {o}) \cup ({o} \cap new)
  BY <1>1, <1>3, <1>4 DEF Paint, Alike, Screens
<1> HIDE DEF p, e
<1>7. q.pulled = P /\ (DeskTitle \in P => q.names = S.acc) /\ q.rows \ {o} = R \ {o}
  BY <1>1, <1>2 DEF Alike, Screens
<1>8. ASSUME S.bar # NoApp PROVE q.titles = {u \in Titles : <<u, 0>> \in new}
  <2>1. \A u \in Titles : <<u, 0>> # o
    OBVIOUS
  <2>2. \A u \in Titles : u \in p.titles <=> u \in q.titles
    BY <1>1, <2>1 DEF Alike
  <2>3. \A u \in Titles : <<u, 0>> \in Chosen(S) <=> <<u, 0>> \in new
    BY <2>1 DEF Same, new
  <2>4. p.titles \subseteq Titles /\ q.titles \subseteq Titles
    BY <1>1 DEF Alike, Screens
  <2> QED BY <1>2, <1>8, <2>2, <2>3, <2>4
<1>9. T.bar = S.bar
  BY DEF Same
<1> QED BY <1>5, <1>6, <1>7, <1>8, <1>9 DEF Paints, Shows, new

\* One title is drawn again.
LEMMA TitlePaint ==
    ASSUME NEW S, NEW T, Drawer(S), NEW t \in Titles,
           T.fx = Append(S.fx, [do |-> "title", t |-> t, k |-> 0]), T.acc = S.acc,
           Same(S, T, {<<t, 0>>}), NEW P, NEW R, Paints(S, P, R)
    PROVE  Paints(T, P, R)
<1> DEFINE e == [do |-> "title", t |-> t, k |-> 0]
           p == After(S)
           q == Painted(Chosen(T), T.acc, screen, S.fx)
           new == Chosen(T)
           o == <<t, 0>>
<1>1. Alike({o}, TRUE, p, q) /\ new \in SUBSET (Titles \X Nat)
  BY PaintedBefore
<1>2. /\ p \in Screens /\ p.pulled = P /\ p.rows = R /\ (DeskTitle \in P => p.names = S.acc)
      /\ S.bar # NoApp => p.titles = {u \in Titles : <<u, 0>> \in Chosen(S)}
  BY DEF Paints, Shows
<1>3. e \in Drawings /\ e.do = "title" /\ e.t = t
  BY DEF Drawings
<1>4. After(T) = Paint(new, T.acc, q, e)
  BY <1>3, PaintedMore DEF After, Drawer
<1>5. After(T) \in Screens
  BY <1>1, <1>3, <1>4, PaintTyped DEF Alike, Drawer
<1> HIDE DEF q, new
<1>6. /\ After(T).pulled = q.pulled /\ After(T).names = q.names /\ After(T).rows = q.rows
      /\ After(T).titles = (q.titles \ {t}) \cup {u \in {t} : <<u, 0>> \in new}
  BY <1>1, <1>3, <1>4 DEF Paint, Alike, Screens
<1> HIDE DEF p, e
<1>7. q.pulled = P /\ (DeskTitle \in P => q.names = S.acc)
  BY <1>1, <1>2 DEF Alike, Screens
<1>a. q.rows = R
  <2>1. p.rows \subseteq Titles \X (Nat \ {0}) /\ q.rows \subseteq Titles \X (Nat \ {0})
    BY <1>1 DEF Alike, Screens
  <2>2. \A r \in Titles \X (Nat \ {0}) : r \notin {o}
    OBVIOUS
  <2>3. \A r \in Titles \X (Nat \ {0}) : r \in p.rows <=> r \in q.rows
    BY <1>1, <2>2 DEF Alike
  <2> QED BY <1>2, <2>1, <2>3
<1>8. ASSUME S.bar # NoApp PROVE After(T).titles = {u \in Titles : <<u, 0>> \in new}
  <2>1. \A u \in Titles : u # t => <<u, 0>> # o
    OBVIOUS
  <2>2. \A u \in Titles : u # t => (u \in p.titles <=> u \in q.titles)
    BY <1>1, <2>1 DEF Alike
  <2>3. \A u \in Titles : u # t => (<<u, 0>> \in Chosen(S) <=> <<u, 0>> \in new)
    BY <2>1 DEF Same, new
  <2>4. p.titles \subseteq Titles /\ q.titles \subseteq Titles
    BY <1>1 DEF Alike, Screens
  <2> QED BY <1>2, <1>6, <1>8, <2>2, <2>3, <2>4
<1>9. T.bar = S.bar
  BY DEF Same
<1> QED BY <1>5, <1>6, <1>7, <1>a, <1>8, <1>9 DEF Paints, Shows, new

\* Nothing that is drawn changes.
LEMMA SamePaint ==
    ASSUME NEW S, NEW T, T.fx = S.fx, T.acc = S.acc, Same(S, T, {}),
           NEW P, NEW R, Paints(S, P, R)
    PROVE  Paints(T, P, R)
BY DEF Paints, Shows, After, Same

\* The accessories change and no Desk pull-down is on the screen.
LEMMA AccPaint ==
    ASSUME NEW S, NEW T, Drawer(S), T.fx = S.fx, T.acc \in Seq(Apps), Same(S, T, {}),
           NEW P, NEW R, Paints(S, P, R), DeskTitle \notin P
    PROVE  Paints(T, P, R)
<1> DEFINE fx == S.fx
           a == S.acc
           b == T.acc
           sel == Chosen(S)
<1>1. /\ a \in Seq(Apps) /\ b \in Seq(Apps) /\ fx \in Seq(Drawings) /\ screen \in Screens
      /\ sel \in SUBSET (Titles \X Nat) /\ sel \ {} = sel \ {} /\ Chosen(T) = sel
      /\ FALSE \in BOOLEAN /\ (FALSE => a = b)
  BY DEF Drawer, Chosen, Same
<1> HIDE DEF fx, a, b, sel
<1>2. Alike({}, FALSE, Painted(sel, a, screen, fx), Painted(sel, b, screen, fx))
  BY <1>1, PaintedAlike
<1>3. Alike({}, FALSE, After(S), After(T))
  BY <1>1, <1>2 DEF After, fx, a, b, sel
<1>4. /\ After(S) \in Screens /\ After(S).pulled = P /\ After(S).rows = R
      /\ S.bar # NoApp => After(S).titles = {t \in Titles : <<t, 0>> \in Chosen(S)}
  BY DEF Paints, Shows
<1> DEFINE p == After(S)
           q == After(T)
<1>5. /\ Alike({}, FALSE, p, q) /\ p \in Screens /\ p.pulled = P /\ p.rows = R
      /\ S.bar # NoApp => p.titles = {t \in Titles : <<t, 0>> \in Chosen(S)}
  BY <1>3, <1>4
<1>6. T.bar = S.bar /\ Chosen(T) = Chosen(S)
  BY DEF Same
<1> HIDE DEF p, q
<1>7. q \in Screens /\ q.pulled = P
  BY <1>5 DEF Alike
<1>8. q.rows = R /\ q.titles = p.titles
  BY <1>5, <1>7 DEF Alike, Screens
<1> QED BY <1>5, <1>6, <1>7, <1>8 DEF Paints, Shows, q

\* A pull-down opens: its title is drawn, and its box with all of its rows.
LEMMA PullPaint ==
    ASSUME NEW S, NEW T, Drawer(S), NEW t \in Titles,
           T.fx = Append(Append(Append(S.fx, [do |-> "title", t |-> t, k |-> 0]),
                                [do |-> "save", t |-> t, k |-> 0]),
                         [do |-> "pull", t |-> t, k |-> 0]),
           T.acc = S.acc, Same(S, T, {t} \X Nat), Paints(S, {}, {})
    PROVE  Paints(T, {t}, {r \in Chosen(T) : r[1] = t /\ r[2] # 0})
<1> DEFINE e1 == [do |-> "title", t |-> t, k |-> 0]
           e2 == [do |-> "save", t |-> t, k |-> 0]
           e3 == [do |-> "pull", t |-> t, k |-> 0]
           f1 == Append(S.fx, e1)
           f2 == Append(f1, e2)
           p == After(S)
           new == Chosen(T)
           q == Painted(new, T.acc, screen, S.fx)
           q1 == Paint(new, T.acc, q, e1)
           X == {t} \X Nat
<1>1. Alike(X, TRUE, p, q) /\ new \in SUBSET (Titles \X Nat)
  BY PaintedBefore
<1>2. /\ p \in Screens /\ p.pulled = {} /\ p.rows = {}
      /\ S.bar # NoApp => p.titles = {u \in Titles : <<u, 0>> \in Chosen(S)}
  BY DEF Paints, Shows
<1>3. e1 \in Drawings /\ e2 \in Drawings /\ e3 \in Drawings
  BY DEF Drawings
<1>4. S.fx \in Seq(Drawings) /\ f1 \in Seq(Drawings) /\ f2 \in Seq(Drawings)
  BY <1>3 DEF Drawer
<1>5. After(T) = Paint(new, T.acc, q1, e3)
  <2>1. After(T) = Painted(new, T.acc, screen, Append(f2, e3))
    BY DEF After
  <2> HIDE DEF f1, f2, e1, e2, e3, new
  <2>2. Painted(new, T.acc, screen, Append(f2, e3)) = Paint(new, T.acc, Painted(new, T.acc, screen, f2), e3)
    BY <1>3, <1>4, PaintedMore
  <2>3. Painted(new, T.acc, screen, f2) = Paint(new, T.acc, Painted(new, T.acc, screen, f1), e2)
    BY <1>3, <1>4, PaintedMore DEF f2
  <2>4. Painted(new, T.acc, screen, f1) = q1
    BY <1>3, <1>4, PaintedMore DEF f1
  <2>5. Paint(new, T.acc, q1, e2) = q1
    BY DEF Paint, e2
  <2> QED BY <2>1, <2>2, <2>3, <2>4, <2>5
<1> HIDE DEF q, new, p
<1>6. q \in Screens /\ q1 \in Screens
  BY <1>1, <1>3, PaintTyped DEF Alike, Drawer
<1>7. q1.pulled = q.pulled /\ q1.rows = q.rows /\ q1.titles = (q.titles \ {t}) \cup {u \in {t} : <<u, 0>> \in new}
  BY <1>6 DEF Paint, Screens
<1>s. e3.do = "pull" /\ e3.t = t
  OBVIOUS
<1> HIDE DEF q1, e1, e2, e3
<1>8. After(T) \in Screens
  BY <1>1, <1>3, <1>5, <1>6, PaintTyped DEF Drawer
<1>9. /\ After(T).pulled = q1.pulled \cup {t} /\ After(T).titles = q1.titles
      /\ After(T).rows = {r \in q1.rows : r[1] # t} \cup {r \in new : r[1] = t /\ r[2] # 0}
      /\ t = DeskTitle => After(T).names = T.acc
  <2>1. /\ After(T).pulled = q1.pulled \cup {e3.t} /\ After(T).titles = q1.titles
        /\ After(T).rows = {r \in q1.rows : r[1] # e3.t} \cup {r \in new : r[1] = e3.t /\ r[2] # 0}
        /\ e3.t = DeskTitle => After(T).names = T.acc
    BY <1>5, <1>6, <1>s DEF Paint, Screens
  <2> QED BY <1>s, <2>1
<1>10. q.pulled = {} /\ {r \in q.rows : r[1] # t} = {}
  <2>1. q.pulled = {}
    BY <1>1, <1>2 DEF Alike
  <2>2. q.rows \subseteq Titles \X (Nat \ {0})
    BY <1>6 DEF Screens
  <2>3. \A r \in Titles \X (Nat \ {0}) : r[1] # t => r \notin X
    OBVIOUS
  <2>4. \A r \in Titles \X (Nat \ {0}) : r[1] # t => (r \in p.rows <=> r \in q.rows)
    BY <1>1, <2>3 DEF Alike
  <2> QED BY <1>2, <2>1, <2>2, <2>4
<1>11. ASSUME S.bar # NoApp PROVE q1.titles = {u \in Titles : <<u, 0>> \in new}
  <2>1. \A u \in Titles : u # t => <<u, 0>> \notin X
    OBVIOUS
  <2>2. \A u \in Titles : u # t => (u \in p.titles <=> u \in q.titles)
    BY <1>1, <2>1 DEF Alike
  <2>3. \A u \in Titles : u # t => (<<u, 0>> \in Chosen(S) <=> <<u, 0>> \in new)
    BY <2>1 DEF Same, new
  <2>4. p.titles \subseteq Titles /\ q.titles \subseteq Titles
    BY <1>1 DEF Alike, Screens
  <2> QED BY <1>2, <1>7, <1>11, <2>2, <2>3, <2>4
<1>12. T.bar = S.bar
  BY DEF Same
<1>13. After(T).pulled = {t} /\ After(T).rows = {r \in new : r[1] = t /\ r[2] # 0}
  BY <1>7, <1>9, <1>10
<1> QED BY <1>8, <1>9, <1>11, <1>12, <1>13 DEF Paints, Shows, new

\* The pull-down is painted over, and the bar with all of its titles.
LEMMA RestorePaint ==
    ASSUME NEW S, NEW T, Drawer(S), NEW t \in Titles,
           \/ T.fx = Append(S.fx, [do |-> "restore", t |-> t, k |-> 0])
           \/ T.fx = Append(Append(S.fx, [do |-> "title", t |-> t, k |-> 0]),
                            [do |-> "restore", t |-> t, k |-> 0]),
           T.acc = S.acc, Same(S, T, {t} \X Nat),
           NEW P \in SUBSET {t}, NEW R \in SUBSET ({t} \X Nat), Paints(S, P, R)
    PROVE  Paints(T, {}, {})
<1>f. PICK fx : /\ (fx = S.fx \/ fx = Append(S.fx, [do |-> "title", t |-> t, k |-> 0]))
                 /\ T.fx = Append(fx, [do |-> "restore", t |-> t, k |-> 0])
  OBVIOUS
<1> DEFINE e1 == [do |-> "title", t |-> t, k |-> 0]
           e2 == [do |-> "restore", t |-> t, k |-> 0]
           p == After(S)
           new == Chosen(T)
           q == Painted(new, T.acc, screen, S.fx)
           q1 == Painted(new, T.acc, screen, fx)
           X == {t} \X Nat
<1>1. Alike(X, TRUE, p, q) /\ new \in SUBSET (Titles \X Nat)
  BY PaintedBefore
<1>2. p \in Screens /\ p.pulled = P /\ p.rows = R
  BY DEF Paints, Shows
<1>3. e1 \in Drawings /\ e2 \in Drawings
  BY DEF Drawings
<1>4. S.fx \in Seq(Drawings) /\ Append(S.fx, e1) \in Seq(Drawings) /\ fx \in Seq(Drawings)
  <2>1. S.fx \in Seq(Drawings) /\ (fx = S.fx \/ fx = Append(S.fx, e1))
    BY <1>f DEF Drawer
  <2>2. e1 \in Drawings
    BY <1>3
  <2> DEFINE f == Append(S.fx, e1)
  <2> HIDE DEF e1
  <2>3. f \in Seq(Drawings)
    BY <2>1, <2>2
  <2>4. fx = S.fx \/ fx = f
    BY <2>1
  <2> QED BY <2>1, <2>3, <2>4
<1>5. After(T) = Paint(new, T.acc, q1, e2)
  <2>1. After(T) = Painted(new, T.acc, screen, Append(fx, e2))
    BY <1>f DEF After
  <2> HIDE DEF e1, e2, new
  <2> QED BY <1>3, <1>4, <2>1, PaintedMore
<1>6. fx # S.fx => q1 = Paint(new, T.acc, q, e1)
  <2>1. fx # S.fx => fx = Append(S.fx, e1)
    BY <1>f
  <2>2. S.fx \in Seq(Drawings) /\ e1 \in Drawings
    BY <1>3, <1>4
  <2> HIDE DEF e1, e2, new
  <2>3. Painted(new, T.acc, screen, Append(S.fx, e1)) = Paint(new, T.acc, Painted(new, T.acc, screen, S.fx), e1)
    BY <2>2, PaintedMore
  <2> QED BY <2>1, <2>3
<1>7. fx = S.fx => q1 = q
  OBVIOUS
<1> HIDE DEF q, new, p, q1
<1>8. q \in Screens /\ q1 \in Screens
  BY <1>1, <1>3, <1>6, <1>7, PaintTyped DEF Alike, Drawer
<1>9. q1.pulled = q.pulled /\ q1.rows = q.rows
  BY <1>6, <1>7, <1>8 DEF Paint, Screens
<1>s. e2.do = "restore" /\ e2.t = t
  OBVIOUS
<1> HIDE DEF e1, e2
<1>10. After(T) \in Screens
  BY <1>1, <1>3, <1>5, <1>8, PaintTyped DEF Drawer
<1>11. /\ After(T).pulled = q1.pulled \ {t} /\ After(T).rows = {r \in q1.rows : r[1] # t}
       /\ After(T).titles = {u \in Titles : <<u, 0>> \in new}
  <2>1. /\ After(T).pulled = q1.pulled \ {e2.t} /\ After(T).rows = {r \in q1.rows : r[1] # e2.t}
        /\ After(T).titles = {u \in Titles : <<u, 0>> \in new}
    BY <1>5, <1>8, <1>s DEF Paint, Screens
  <2> QED BY <1>s, <2>1
<1>12. q.pulled = P /\ {r \in q.rows : r[1] # t} = {}
  <2>1. q.pulled = P
    BY <1>1, <1>2 DEF Alike
  <2>2. q.rows \subseteq Titles \X (Nat \ {0})
    BY <1>8 DEF Screens
  <2>3. \A r \in Titles \X (Nat \ {0}) : r[1] # t => r \notin X
    OBVIOUS
  <2>4. \A r \in Titles \X (Nat \ {0}) : r[1] # t => (r \in p.rows <=> r \in q.rows)
    BY <1>1, <2>3 DEF Alike
  <2>5. \A r \in R : r[1] = t
    OBVIOUS
  <2> QED BY <1>2, <2>1, <2>2, <2>4, <2>5
<1>13. After(T).pulled = {} /\ After(T).rows = {}
  BY <1>9, <1>11, <1>12
<1> QED BY <1>10, <1>11, <1>13 DEF Paints, Shows, new

----------------------------------------------------------------------------
(* The manager *)

\* What a painting rests on, besides the state of the manager.
Ground == live \subseteq Apps /\ screen \in Screens

\* All but the tracking of a menu, its highlight and the effects.
Rest(S, T) == T.acc = S.acc /\ T.bar = S.bar /\ T.all = S.all

\* T is S with the object of row k, the title for 0, of title t rewritten: in
\* the Desk tree for a row of the Desk, or else in the tree of the owner.
Wrote(S, T, t, k, state) ==
    /\ Len(T.desk) = Len(S.desk)
    /\ \A j \in 1 .. Len(S.desk) :
          T.desk[j] = IF t = DeskTitle /\ j = k THEN state ELSE S.desk[j]
    /\ \A a \in Apps, o \in Objects :
          T.marks[a][o] = IF a = S.m.owner /\ o = <<t, k>> /\ ~(t = DeskTitle /\ k # 0)
                          THEN state ELSE S.marks[a][o]

\* An object is there to be written.
There(S, t, k) == t \in Titles /\ (k = 0 \/ k \in 1 .. RowsOf(S, t))

\* The numbers of rows, and the objects.
LEMMA ObjectsIs ==
    /\ DeskTitle \in Titles /\ Titles \subseteq Nat
    /\ \A t \in Titles : Rows[t] \in Nat /\ <<t, 0>> \in Objects
    /\ \A t \in Titles : \A k \in 0 .. Rows[t] : <<t, k>> \in Objects
    /\ \A o \in Objects : o[1] \in Titles /\ o[2] \in 0 .. Rows[o[1]] /\ o = <<o[1], o[2]>>
    /\ Objects \subseteq Titles \X Nat
    /\ <<DeskTitle, 1>> \in Objects /\ <<DeskTitle, 2>> \in Objects
<1>1. \A t \in Titles : Rows[t] \in Nat \ {0}
  BY MenuAssumption DEF Titles
<1>2. DeskTitle \in Titles /\ Titles \subseteq Nat
  BY MenuAssumption DEF Titles, DeskTitle
<1>3. \A t \in Titles : \A k \in 0 .. Rows[t] : <<t, k>> \in Objects
  BY DEF Objects
<1>4. ASSUME NEW o \in Objects
      PROVE  o[1] \in Titles /\ o[2] \in 0 .. Rows[o[1]] /\ o = <<o[1], o[2]>>
  <2>1. PICK t \in Titles : o \in {t} \X (0 .. Rows[t])
    BY DEF Objects
  <2> QED BY <2>1
<1>5. Objects \subseteq Titles \X Nat
  BY <1>1, <1>4
<1>6. 0 \in 0 .. Rows[DeskTitle] /\ 1 \in 0 .. Rows[DeskTitle] /\ 2 \in 0 .. Rows[DeskTitle]
  BY MenuAssumption DEF DeskTitle
<1>7. \A t \in Titles : Rows[t] \in Nat /\ <<t, 0>> \in Objects
  BY <1>1, <1>3
<1>8. <<DeskTitle, 1>> \in Objects /\ <<DeskTitle, 2>> \in Objects
  BY <1>2, <1>3, <1>6
<1> QED BY <1>2, <1>3, <1>4, <1>5, <1>7, <1>8

\* The fields of a state of the manager.
LEMMA HandledIs ==
    ASSUME NEW S \in Handled
    PROVE  /\ S = [m |-> S.m, marks |-> S.marks, desk |-> S.desk, acc |-> S.acc,
                   bar |-> S.bar, fx |-> S.fx, all |-> S.all, msg |-> S.msg]
           /\ S.m \in Managers /\ S.marks \in Trees /\ S.desk \in Seq(SUBSET Flags)
           /\ S.acc \in Seq(live) /\ S.bar \in Apps \cup {NoApp} /\ S.fx \in Seq(Drawings)
           /\ S.all \in BOOLEAN /\ S.msg \in Notes \cup {None}
BY DEF Handled

\* A state of the manager can be painted.
LEMMA HandledDraws ==
    ASSUME NEW S \in Handled, Ground
    PROVE  Drawer(S) /\ Len(S.fx) \in Nat
<1>1. S.acc \in Seq(live) /\ S.fx \in Seq(Drawings) /\ live \subseteq Apps /\ screen \in Screens
  BY HandledIs DEF Ground
<1>2. S.acc \in Seq(Apps)
  BY <1>1
<1> QED BY <1>1, <1>2, LenProperties DEF Drawer

\* An effect that has room is the last of the list.
LEMMA EffectIs ==
    ASSUME NEW S \in Handled, NEW do, NEW t, NEW k, [do |-> do, t |-> t, k |-> k] \in Drawings,
           Len(S.fx) < DrawEffects
    PROVE  LET T == Effect(S, do, t, k)
           IN  /\ T \in Handled /\ T.m = S.m /\ T.marks = S.marks /\ T.desk = S.desk
               /\ Rest(S, T) /\ T.msg = S.msg
               /\ T.fx = Append(S.fx, [do |-> do, t |-> t, k |-> k])
               /\ Len(T.fx) = Len(S.fx) + 1
<1> DEFINE T == Effect(S, do, t, k)
           e == [do |-> do, t |-> t, k |-> k]
           f == Append(S.fx, e)
<1>1. S.fx \in Seq(Drawings) /\ e \in Drawings
  BY HandledIs
<1>2. f \in Seq(Drawings) /\ Len(f) = Len(S.fx) + 1
  <2> HIDE DEF e
  <2> QED BY <1>1, AppendProperties
<1>3. Len(S.fx) \in Nat
  BY <1>1, LenProperties
<1>4. T = [S EXCEPT !.fx = f]
  BY <1>3 DEF Effect, DrawEffects
<1> HIDE DEF T, f, e
<1>5. /\ T \in Handled /\ T.m = S.m /\ T.marks = S.marks /\ T.desk = S.desk
      /\ Rest(S, T) /\ T.msg = S.msg /\ T.fx = f
  BY <1>2, <1>4 DEF Handled, Rest
<1> QED BY <1>2, <1>5 DEF T, f, e

\* A title is written in the tree of the owner.
LEMMA WriteTitleIs ==
    ASSUME NEW S \in Handled, S.m.owner \in Apps, NEW t \in Titles, NEW state \in SUBSET Flags
    PROVE  LET T == WriteTitle(S, t, state)
           IN  /\ T \in Handled /\ T.m = S.m /\ Rest(S, T) /\ T.msg = S.msg /\ T.fx = S.fx
               /\ Wrote(S, T, t, 0, state)
<1> DEFINE T == WriteTitle(S, t, state)
           a == S.m.owner
           o == <<t, 0>>
           M == [S.marks EXCEPT ![a][o] = state]
<1>1. S.marks \in [Apps -> [Objects -> SUBSET Flags]] /\ a \in Apps /\ o \in Objects
  BY HandledIs, ObjectsIs DEF Trees
<1>2. T = [S EXCEPT !.marks = M]
  BY HandledIs DEF WriteTitle
<1>3. M \in Trees /\ \A b \in Apps, x \in Objects :
                        M[b][x] = IF b = a /\ x = o THEN state ELSE S.marks[b][x]
  <2> HIDE DEF a, o
  <2> QED BY <1>1 DEF Trees
<1>4. /\ T \in Handled /\ T.m = S.m /\ T.desk = S.desk /\ T.fx = S.fx
      /\ Rest(S, T) /\ T.msg = S.msg /\ T.marks = M
  <2> HIDE DEF M, T
  <2> QED BY <1>2, <1>3 DEF Handled, Rest
<1> HIDE DEF M, T
<1>5. Wrote(S, T, t, 0, state)
  BY <1>3, <1>4 DEF Wrote
<1> QED BY <1>4, <1>5 DEF T

\* A row of the open pull-down is written.
LEMMA WriteRowIs ==
    ASSUME NEW S \in Handled, S.m.owner \in Apps, S.m.title \in Titles,
           NEW k \in 1 .. RowCount(S), NEW state \in SUBSET Flags
    PROVE  LET T == WriteRow(S, k, state)
           IN  /\ T \in Handled /\ T.m = S.m /\ Rest(S, T) /\ T.msg = S.msg /\ T.fx = S.fx
               /\ Wrote(S, T, S.m.title, k, state)
<1> DEFINE T == WriteRow(S, k, state)
           t == S.m.title
<1>0. S.desk \in Seq(SUBSET Flags) /\ k # 0
  BY HandledIs
<1>1. CASE InDesk(S)
  <2> DEFINE d == [S.desk EXCEPT ![k] = state]
  <2>1. T = [S EXCEPT !.desk = d]
    BY <1>1, HandledIs DEF WriteRow
  <2>2. k \in 1 .. Len(S.desk) /\ t = DeskTitle
    BY <1>1 DEF RowCount, InDesk
  <2>3. d \in Seq(SUBSET Flags) /\ Len(d) = Len(S.desk)
        /\ \A j \in 1 .. Len(S.desk) : d[j] = IF j = k THEN state ELSE S.desk[j]
    BY <1>0, <2>2
  <2>4. /\ T \in Handled /\ T.m = S.m /\ T.desk = d /\ T.fx = S.fx
        /\ Rest(S, T) /\ T.msg = S.msg /\ T.marks = S.marks
    <3> HIDE DEF d, T
    <3> QED BY <2>1, <2>3 DEF Handled, Rest
  <2> HIDE DEF d, T
  <2>5. Wrote(S, T, t, k, state)
    BY <1>0, <2>2, <2>3, <2>4 DEF Wrote
  <2> QED BY <2>4, <2>5 DEF T
<1>2. CASE ~InDesk(S)
  <2> DEFINE a == S.m.owner
             o == <<t, k>>
             M == [S.marks EXCEPT ![a][o] = state]
  <2>1. k \in 0 .. Rows[t] /\ t # DeskTitle
    BY <1>2 DEF RowCount, InDesk
  <2>2. S.marks \in [Apps -> [Objects -> SUBSET Flags]] /\ a \in Apps /\ o \in Objects
    BY <2>1, HandledIs, ObjectsIs DEF Trees
  <2>3. T = [S EXCEPT !.marks = M]
    BY <1>2, HandledIs DEF WriteRow
  <2>4. M \in Trees /\ \A b \in Apps, x \in Objects :
                          M[b][x] = IF b = a /\ x = o THEN state ELSE S.marks[b][x]
    <3> HIDE DEF a, o
    <3> QED BY <2>2 DEF Trees
  <2>5. /\ T \in Handled /\ T.m = S.m /\ T.desk = S.desk /\ T.fx = S.fx
        /\ Rest(S, T) /\ T.msg = S.msg /\ T.marks = M
    <3> HIDE DEF M, T
    <3> QED BY <2>3, <2>4 DEF Handled, Rest
  <2> HIDE DEF M, T
  <2>6. Wrote(S, T, t, k, state)
    BY <2>1, <2>4, <2>5 DEF Wrote
  <2> QED BY <2>5, <2>6 DEF T
<1> QED BY <1>1, <1>2

\* One object more is selected, or less, where the painting looks.
LEMMA WroteSame ==
    ASSUME NEW S \in Handled, NEW T \in Handled, S.m.owner \in Apps, S.bar = S.m.owner,
           T.bar = S.bar, NEW t, NEW k \in Nat, There(S, t, k), NEW state,
           Wrote(S, T, t, k, state)
    PROVE  Same(S, T, {<<t, k>>}) /\ (<<t, k>> \in Chosen(T) <=> "sel" \in state)
<1>1. /\ t \in Titles /\ (k = 0 \/ k \in 1 .. RowsOf(S, t))
      /\ Len(S.desk) \in Nat /\ Len(T.desk) = Len(S.desk)
  BY HandledIs, LenProperties DEF There, Wrote
<1>2. /\ \A j \in 1 .. Len(S.desk) :
            T.desk[j] = IF t = DeskTitle /\ j = k THEN state ELSE S.desk[j]
      /\ \A o \in Objects :
            T.marks[S.bar][o] = IF o = <<t, k>> /\ ~(t = DeskTitle /\ k # 0)
                                THEN state ELSE S.marks[S.bar][o]
      /\ S.bar \in Apps
  BY DEF Wrote
<1>3. S.bar # NoApp
  BY <1>2, MenuAssumption
<1>4. ASSUME NEW o \in Titles \X Nat, o # <<t, k>> PROVE o \in Chosen(T) <=> o \in Chosen(S)
  <2>1. CASE o[1] = DeskTitle /\ o[2] # 0
    <3>1. o[2] <= Len(S.desk) => T.desk[o[2]] = S.desk[o[2]]
      <4>1. o[1] = t /\ o[2] = k => o = <<t, k>>
        OBVIOUS
      <4>2. o[2] <= Len(S.desk) => o[2] \in 1 .. Len(S.desk)
        BY <1>1, <2>1
      <4> QED BY <1>2, <1>4, <2>1, <4>1, <4>2
    <3> QED BY <1>1, <2>1, <3>1 DEF Chosen
  <2>2. CASE ~(o[1] = DeskTitle /\ o[2] # 0)
    <3>1. o \in Objects => T.marks[S.bar][o] = S.marks[S.bar][o]
      BY <1>2, <1>4
    <3> QED BY <2>2, <3>1 DEF Chosen
  <2> QED BY <2>1, <2>2
<1>5. Chosen(S) \subseteq Titles \X Nat /\ Chosen(T) \subseteq Titles \X Nat
  BY DEF Chosen
<1>6. <<t, k>> \in Chosen(T) <=> "sel" \in state
  <2>0. <<t, k>> \in Titles \X Nat /\ <<t, k>>[1] = t /\ <<t, k>>[2] = k
    BY <1>1
  <2>1. CASE t = DeskTitle /\ k # 0
    <3>1. k \in 1 .. Len(S.desk)
      BY <1>1, <2>1 DEF RowsOf
    <3>2. T.desk[k] = state /\ k <= Len(T.desk)
      BY <1>1, <1>2, <2>1, <3>1
    <3> QED BY <2>0, <2>1, <3>2 DEF Chosen
  <2>2. CASE ~(t = DeskTitle /\ k # 0)
    <3>0. Rows[t] \in Nat /\ (k # 0 => RowsOf(S, t) = Rows[t])
      BY <1>1, <2>2, ObjectsIs DEF RowsOf
    <3>1. k \in 0 .. Rows[t]
      BY <1>1, <3>0
    <3>2. <<t, k>> \in Objects
      BY <1>1, <3>1, ObjectsIs
    <3> QED BY <1>2, <1>3, <2>0, <2>2, <3>2 DEF Chosen
  <2> QED BY <2>1, <2>2
<1> QED BY <1>4, <1>5, <1>6 DEF Same

\* No row is selected.
Clear(S) ==
    /\ \A k \in 1 .. Len(S.desk) : "sel" \notin S.desk[k]
    /\ \A a \in Apps, o \in Objects : o[2] # 0 => "sel" \notin S.marks[a][o]

\* Without a tracked row none is selected.
LEMMA LitClear ==
    ASSUME NEW S, Lit(S), ~(S.m.tracking /\ S.m.item # 0)
    PROVE  Clear(S)
<1>1. \A k \in 1 .. Len(S.desk) : ~Tracked(S, <<DeskTitle, k>>)
  BY DEF Tracked
<1>2. \A o \in Objects : o[2] # 0 => ~Tracked(S, o)
  BY DEF Tracked
<1> QED BY <1>1, <1>2 DEF Lit, Clear

\* The tracked row is set back.
LEMMA WroteClear ==
    ASSUME NEW S \in Handled, NEW T \in Handled, Worked(S), Lit(S), S.m.tracking,
           S.m.item # 0, Wrote(S, T, S.m.title, S.m.item, S.m.itemBase)
    PROVE  Clear(T)
<1> DEFINE t == S.m.title
           i == S.m.item
           b == S.m.itemBase
<1>1. /\ Len(T.desk) = Len(S.desk) /\ "sel" \notin b
      /\ \A j \in 1 .. Len(S.desk) : T.desk[j] = IF t = DeskTitle /\ j = i THEN b ELSE S.desk[j]
      /\ \A a \in Apps, o \in Objects :
            T.marks[a][o] = IF a = S.m.owner /\ o = <<t, i>> /\ ~(t = DeskTitle /\ i # 0)
                            THEN b ELSE S.marks[a][o]
  BY DEF Wrote, Lit
<1>2. /\ \A k \in 1 .. Len(S.desk) : "sel" \in S.desk[k] => <<DeskTitle, k>> = <<t, i>>
      /\ \A a \in Apps, o \in Objects :
            o[2] # 0 /\ "sel" \in S.marks[a][o] => o = <<t, i>> /\ a = S.m.owner /\ o[1] # DeskTitle
  BY DEF Lit, Tracked
<1> HIDE DEF t, i, b
<1>3. \A k \in 1 .. Len(S.desk) : "sel" \notin T.desk[k]
  BY <1>1, <1>2
<1>4. ASSUME NEW a \in Apps, NEW o \in Objects, o[2] # 0 PROVE "sel" \notin T.marks[a][o]
  BY <1>1, <1>2, <1>4
<1> QED BY <1>1, <1>3, <1>4 DEF Clear

\* One row is highlighted.
LEMMA WroteLit ==
    ASSUME NEW S \in Handled, NEW T \in Handled, Clear(S), S.m.tracking, S.m.title \in Titles,
           S.m.owner \in Apps, NEW k, k = S.m.item, k \in 1 .. RowCount(S), T.m = S.m,
           "sel" \notin S.m.itemBase, NEW state, "sel" \in state, Wrote(S, T, S.m.title, k, state)
    PROVE  Lit(T)
<1> DEFINE t == S.m.title
<1>1. /\ Len(T.desk) = Len(S.desk) /\ t \in Titles /\ k # 0 /\ k \in 1 .. RowCount(S)
      /\ \A j \in 1 .. Len(S.desk) : T.desk[j] = IF t = DeskTitle /\ j = k THEN state ELSE S.desk[j]
      /\ \A a \in Apps, o \in Objects :
            T.marks[a][o] = IF a = S.m.owner /\ o = <<t, k>> /\ ~(t = DeskTitle /\ k # 0)
                            THEN state ELSE S.marks[a][o]
  <2>1. k # 0
    OBVIOUS
  <2> QED BY <2>1 DEF Wrote
<1>2. "sel" \in RowState(T, k)
  <2>1. CASE t = DeskTitle
    BY <1>1, <2>1 DEF RowState, RowCount, InDesk
  <2>2. CASE t # DeskTitle
    <3>0. k \in 0 .. Rows[t]
      BY <1>1, <2>2, ObjectsIs DEF RowCount, InDesk
    <3>1. <<t, k>> \in Objects
      BY <1>1, <3>0, ObjectsIs
    <3> QED BY <1>1, <2>2, <3>1 DEF RowState, InDesk
  <2> QED BY <2>1, <2>2
<1>3. \A x : Tracked(T, x) <=> x = <<t, k>>
  BY DEF Tracked
<1>4. /\ \A j \in 1 .. Len(T.desk) : "sel" \in T.desk[j] => Tracked(T, <<DeskTitle, j>>)
      /\ \A a \in Apps, o \in Objects :
            o[2] # 0 /\ "sel" \in T.marks[a][o] => Tracked(T, o) /\ a = T.m.owner /\ o[1] # DeskTitle
  <2>1. /\ \A j \in 1 .. Len(S.desk) : "sel" \notin S.desk[j]
        /\ \A a \in Apps, o \in Objects : o[2] # 0 => "sel" \notin S.marks[a][o]
    BY DEF Clear
  <2> QED BY <1>1, <1>3, <2>1
<1> QED BY <1>2, <1>4 DEF Lit

\* The rows of effects are there, still or again.
LEMMA DrawableMore ==
    ASSUME NEW S \in Handled, NEW T, Drawable(S), Len(T.desk) = Len(S.desk), NEW e,
           T.fx = Append(S.fx, e), e.do = "row" => e.k \in 1 .. RowsOf(S, e.t)
    PROVE  Drawable(T)
<1>1. /\ Len(T.fx) = Len(S.fx) + 1 /\ T.fx[Len(S.fx) + 1] = e /\ Len(S.fx) \in Nat
      /\ \A i \in 1 .. Len(S.fx) : T.fx[i] = S.fx[i]
  BY HandledIs, AppendProperties, LenProperties
<1>2. \A t : RowsOf(T, t) = RowsOf(S, t)
  BY DEF RowsOf
<1>3. ASSUME NEW i \in 1 .. Len(T.fx), T.fx[i].do = "row"
      PROVE  T.fx[i].k \in 1 .. RowsOf(T, T.fx[i].t)
  <2>1. CASE i = Len(S.fx) + 1
    BY <1>1, <1>2, <1>3, <2>1
  <2>2. CASE i # Len(S.fx) + 1
    <3>1. i \in 1 .. Len(S.fx)
      BY <1>1, <2>2
    <3> QED BY <1>1, <1>2, <1>3, <3>1 DEF Drawable
  <2> QED BY <2>1, <2>2
<1> QED BY <1>3 DEF Drawable

\* What a screen that follows the manager shows.
Painting(S) == screen.refused \/ Paints(S, Pulled(S), LitRows(S))

\* The tracking and the titles of the trees are those before.
Steady(S, T) ==
    /\ Rest(S, T) /\ T.msg = S.msg /\ Len(T.desk) = Len(S.desk)
    /\ \A a \in Apps, t \in Titles : T.marks[a][<<t, 0>>] = S.marks[a][<<t, 0>>]

\* A row that is written leaves the titles as they are.
LEMMA WroteSteady ==
    ASSUME NEW S, NEW T, NEW t, NEW k \in Nat \ {0}, NEW state, Wrote(S, T, t, k, state),
           Rest(S, T), T.msg = S.msg
    PROVE  Steady(S, T)
<1>1. \A u \in Titles : <<u, 0>> \in Objects /\ <<u, 0>> # <<t, k>>
  BY ObjectsIs
<1> QED BY <1>1 DEF Wrote, Steady

\* The numbers of rows stay with the title and the rows of the Desk.
LEMMA RowsAre ==
    ASSUME NEW S, NEW T, Len(T.desk) = Len(S.desk), T.m.title = S.m.title
    PROVE  RowCount(T) = RowCount(S) /\ RowCount(S) = RowsOf(S, S.m.title)
           /\ (InDesk(T) <=> InDesk(S))
BY DEF RowCount, InDesk, RowsOf

\* The highlight of the tracked row goes.
LEMMA RowOff ==
    ASSUME NEW S, Ground, Good(S), Painting(S), S.m.tracking, S.m.item # 0,
           Len(S.fx) < DrawEffects
    PROVE  LET W == WriteRow(S, S.m.item, S.m.itemBase)
               T == Effect(W, "row", S.m.title, S.m.item)
           IN  /\ T \in Handled /\ T.m = S.m /\ Steady(S, T) /\ Clear(T) /\ Drawable(T)
               /\ Len(T.fx) = Len(S.fx) + 1
               /\ screen.refused \/ Paints(T, {S.m.title}, {})
<1> DEFINE t == S.m.title
           i == S.m.item
           b == S.m.itemBase
           W == WriteRow(S, i, b)
           e == [do |-> "row", t |-> t, k |-> i]
           T == Effect(W, "row", t, i)
<1>1. /\ S \in Handled /\ Worked(S) /\ Lit(S) /\ Drawable(S)
      /\ t \in Titles /\ i \in 1 .. RowCount(S) /\ S.m.owner \in Apps /\ S.m.owner = S.bar
      /\ b \in SUBSET Flags /\ i \in Nat /\ "sel" \notin b
  <2>1. /\ S \in Handled /\ Worked(S) /\ Lit(S) /\ Drawable(S)
        /\ t \in Titles /\ i \in 0 .. RowCount(S) /\ S.m.owner \in Apps /\ S.m.owner = S.bar
    BY DEF Good, Worked
  <2>2. b \in SUBSET Flags /\ i \in Nat
    BY <2>1, HandledIs DEF Managers
  <2> QED BY <2>1, <2>2 DEF Lit
<1>2. /\ W \in Handled /\ W.m = S.m /\ Rest(S, W) /\ W.msg = S.msg /\ W.fx = S.fx
      /\ Wrote(S, W, t, i, b)
  BY <1>1, WriteRowIs
<1>3. e \in Drawings /\ e.do = "row" /\ e.t = t /\ e.k = i
  BY <1>1 DEF Drawings
<1> HIDE DEF W, t, i, b
<1>4. /\ T \in Handled /\ T.m = W.m /\ T.marks = W.marks /\ T.desk = W.desk
      /\ Rest(W, T) /\ T.msg = W.msg /\ T.fx = Append(W.fx, e) /\ Len(T.fx) = Len(W.fx) + 1
  BY <1>2, <1>3, EffectIs
<1> HIDE DEF T
<1>5. Wrote(S, T, t, i, b)
  BY <1>2, <1>4 DEF Wrote
<1>6. Rest(S, T) /\ T.m = S.m /\ T.msg = S.msg /\ T.fx = Append(S.fx, e) /\ Len(T.fx) = Len(S.fx) + 1
  BY <1>2, <1>4 DEF Rest
<1>7. i \in Nat \ {0}
  BY <1>1
<1>8. Steady(S, T)
  BY <1>5, <1>6, <1>7, WroteSteady
<1>9. Clear(T)
  BY <1>1, <1>4, <1>5, WroteClear DEF t, i, b
<1>10. i \in 1 .. RowsOf(S, t)
  BY <1>1 DEF RowCount, InDesk, RowsOf, t
<1>11. Drawable(T)
  <2>1. Len(T.desk) = Len(S.desk)
    BY <1>5 DEF Wrote
  <2>2. e.do = "row" => e.k \in 1 .. RowsOf(S, e.t)
    BY <1>3, <1>10
  <2> HIDE DEF e
  <2> QED BY <1>1, <1>6, <2>1, <2>2, DrawableMore
<1>12. screen.refused \/ Paints(T, {t}, {})
  <2>1. Same(S, T, {<<t, i>>}) /\ <<t, i>> \notin Chosen(T)
    <3>1. There(S, t, i) /\ T.bar = S.bar
      BY <1>1, <1>6, <1>10 DEF There, Rest
    <3> QED BY <1>1, <1>4, <1>5, <3>1, WroteSame
  <2>2. SUFFICES ASSUME ~screen.refused PROVE Paints(T, {t}, {})
    OBVIOUS
  <2>3. Paints(S, {t}, {<<t, i>>})
    BY <2>2 DEF Painting, Pulled, LitRows, t, i
  <2>4. Drawer(S)
    BY <1>1, HandledDraws
  <2>5. T.acc = S.acc
    BY <1>6 DEF Rest
  <2>6. Paints(T, {t}, ({<<t, i>>} \ {<<t, i>>}) \cup ({<<t, i>>} \cap Chosen(T)))
    BY <1>1, <1>6, <1>7, <2>1, <2>3, <2>4, <2>5, RowPaint
  <2>7. ({<<t, i>>} \ {<<t, i>>}) \cup ({<<t, i>>} \cap Chosen(T)) = {}
    BY <2>1
  <2> QED BY <2>6, <2>7
<1> QED BY <1>4, <1>6, <1>8, <1>9, <1>11, <1>12 DEF T, W, t, i, b

\* The state of a row is a set of flags.
LEMMA RowStateIs ==
    ASSUME NEW S \in Handled, S.m.owner \in Apps, S.m.title \in Titles,
           NEW k \in 1 .. RowCount(S)
    PROVE  RowState(S, k) \in SUBSET Flags /\ (Clear(S) => "sel" \notin RowState(S, k))
<1>1. S.desk \in Seq(SUBSET Flags) /\ S.marks \in Trees
  BY HandledIs
<1>2. CASE InDesk(S)
  <2>1. k \in 1 .. Len(S.desk) /\ RowState(S, k) = S.desk[k]
    BY <1>2 DEF RowCount, RowState
  <2> QED BY <1>1, <2>1 DEF Clear
<1>3. CASE ~InDesk(S)
  <2>1. k \in 0 .. Rows[S.m.title] /\ k # 0
    BY <1>3 DEF RowCount
  <2>2. <<S.m.title, k>> \in Objects
    BY <2>1, ObjectsIs
  <2>3. RowState(S, k) = S.marks[S.m.owner][<<S.m.title, k>>]
    BY <1>3 DEF RowState
  <2> DEFINE o == <<S.m.title, k>>
  <2>4. o \in Objects /\ o[2] # 0
    BY <2>1, <2>2
  <2>5. S.marks[S.m.owner][o] \in SUBSET Flags
    BY <1>1, <2>4 DEF Trees
  <2>6. Clear(S) => "sel" \notin S.marks[S.m.owner][o]
    BY <2>4 DEF Clear
  <2> QED BY <2>3, <2>5, <2>6
<1> QED BY <1>2, <1>3

\* The highlight of a menu whose highlight is at row k.
AtRow(m, k, base) == [m EXCEPT !.item = k, !.itemBase = base]

\* The state of the manager with another menu.
LEMMA MenuIs ==
    ASSUME NEW S \in Handled, NEW m \in Managers, NEW T, T = [S EXCEPT !.m = m]
    PROVE  /\ T \in Handled /\ T.m = m /\ T.marks = S.marks /\ T.desk = S.desk
           /\ Rest(S, T) /\ T.msg = S.msg /\ T.fx = S.fx
BY DEF Handled, Rest

\* Nothing but the menu changes, and its bar does not.
LEMMA MenuPaint ==
    ASSUME NEW S, NEW T, T.marks = S.marks, T.desk = S.desk, Rest(S, T), T.fx = S.fx,
           NEW P, NEW R, Paints(S, P, R)
    PROVE  Paints(T, P, R)
<1>1. Same(S, T, {}) /\ T.acc = S.acc
  BY DEF Same, Chosen, Rest
<1> QED BY <1>1, SamePaint

\* A row is highlighted when none is.
LEMMA RowOn ==
    ASSUME NEW S \in Handled, Ground, Worked(S), Clear(S), Drawable(S), S.m.tracking,
           screen.refused \/ Paints(S, {S.m.title}, {}),
           NEW k \in 1 .. RowCount(S), Len(S.fx) < DrawEffects
    PROVE  LET base == RowState(S, k)
               V == [S EXCEPT !.m.item = k, !.m.itemBase = base]
               T == Effect(WriteRow(V, k, base \cup {"sel"}), "row", S.m.title, k)
           IN  /\ Good(T) /\ Painting(T) /\ T.m = AtRow(S.m, k, base) /\ Steady(S, T)
               /\ Len(T.fx) = Len(S.fx) + 1
<1> DEFINE base == RowState(S, k)
           V == [S EXCEPT !.m.item = k, !.m.itemBase = base]
           state == base \cup {"sel"}
           W == WriteRow(V, k, state)
           t == S.m.title
           e == [do |-> "row", t |-> t, k |-> k]
           T == Effect(W, "row", t, k)
<1>1. /\ t \in Titles /\ S.m.owner \in Apps /\ S.m.owner = S.bar /\ S.m.active
      /\ InDesk(S) => Len(S.desk) = 2 + Len(S.acc)
  BY DEF Worked
<1>2. base \in SUBSET Flags /\ "sel" \notin base /\ state \in SUBSET Flags
  <2>1. base \in SUBSET Flags /\ "sel" \notin base
    BY <1>1, RowStateIs
  <2> HIDE DEF base
  <2> QED BY <2>1 DEF Flags
<1>3. k \in Nat \ {0}
  OBVIOUS
<1> HIDE DEF base
<1>4. /\ V \in Handled /\ V.m = AtRow(S.m, k, base) /\ V.marks = S.marks /\ V.desk = S.desk
      /\ Rest(S, V) /\ V.msg = S.msg /\ V.fx = S.fx
  <2>1. S.m \in Managers
    BY HandledIs
  <2>2. V = [S EXCEPT !.m = AtRow(S.m, k, base)]
    BY <2>1, HandledIs DEF AtRow
  <2>3. AtRow(S.m, k, base) \in Managers
    BY <1>2, <1>3, <2>1 DEF AtRow, Managers
  <2> HIDE DEF V
  <2> QED BY <2>2, <2>3, MenuIs
<1>5. /\ V.m.item = k /\ V.m.itemBase = base /\ V.m.title = t /\ V.m.owner = S.m.owner
      /\ V.m.tracking /\ V.m.active
  <2>1. S.m \in Managers
    BY HandledIs
  <2> HIDE DEF V
  <2> QED BY <1>1, <1>4, <2>1 DEF AtRow, Managers
<1> HIDE DEF V
<1>6. RowCount(V) = RowCount(S) /\ RowsOf(V, t) = RowCount(S) /\ Len(V.desk) = Len(S.desk)
  BY <1>4, <1>5, RowsAre
<1>7. k \in 1 .. RowCount(V)
  BY <1>6
<1> HIDE DEF state
<1>8. /\ W \in Handled /\ W.m = V.m /\ Rest(V, W) /\ W.msg = V.msg /\ W.fx = V.fx
      /\ Wrote(V, W, t, k, state)
  BY <1>1, <1>2, <1>4, <1>5, <1>7, WriteRowIs
<1>9. e \in Drawings /\ e.do = "row" /\ e.t = t /\ e.k = k
  BY <1>1, <1>3 DEF Drawings
<1> HIDE DEF W, t
<1>10. /\ T \in Handled /\ T.m = W.m /\ T.marks = W.marks /\ T.desk = W.desk
       /\ Rest(W, T) /\ T.msg = W.msg /\ T.fx = Append(W.fx, e) /\ Len(T.fx) = Len(W.fx) + 1
  <2>1. Len(W.fx) < DrawEffects
    BY <1>4, <1>8
  <2> QED BY <1>8, <1>9, <2>1, EffectIs
<1> HIDE DEF T, e
<1>11. Wrote(V, T, t, k, state)
  BY <1>8, <1>10 DEF Wrote
<1>12. /\ Rest(V, T) /\ Rest(S, T) /\ T.m = V.m /\ T.msg = S.msg /\ T.fx = Append(V.fx, e)
       /\ Len(T.fx) = Len(S.fx) + 1
  BY <1>4, <1>8, <1>10 DEF Rest
<1>13. Steady(S, T)
  <2>1. Steady(V, T)
    BY <1>3, <1>4, <1>11, <1>12, WroteSteady
  <2> QED BY <1>4, <1>12, <2>1 DEF Steady
<1>14. Lit(T)
  <2>1. Clear(V)
    BY <1>4 DEF Clear
  <2>2. "sel" \in state
    BY DEF state
  <2> QED BY <1>1, <1>2, <1>4, <1>5, <1>7, <1>10, <1>11, <1>12, <2>1, <2>2, WroteLit DEF t
<1>15. Len(T.desk) = Len(S.desk)
  BY <1>13 DEF Steady
<1>16. Worked(T)
  <2>1. RowCount(T) = RowCount(S) /\ (InDesk(T) <=> InDesk(S))
    BY <1>5, <1>12, <1>15, RowsAre DEF t
  <2>2. T.bar = S.bar /\ T.acc = S.acc
    BY <1>12 DEF Rest
  <2>3. T.m.item \in 0 .. RowCount(T) /\ T.m.title \in Titles /\ T.m.active /\ T.m.owner = S.m.owner
    BY <1>1, <1>5, <1>12, <2>1
  <2> QED BY <1>1, <1>15, <2>1, <2>2, <2>3 DEF Worked
<1>17. Drawable(T)
  <2>1. Drawable(V)
    BY <1>4 DEF Drawable, RowsOf
  <2>2. e.do = "row" => e.k \in 1 .. RowsOf(V, e.t)
    BY <1>6, <1>9
  <2>3. Len(T.desk) = Len(V.desk)
    BY <1>6, <1>15
  <2> QED BY <1>4, <1>12, <2>1, <2>2, <2>3, DrawableMore
<1>18. Painting(T)
  <2>1. SUFFICES ASSUME ~screen.refused PROVE Paints(T, Pulled(T), LitRows(T))
    BY DEF Painting
  <2>2. Pulled(T) = {t} /\ LitRows(T) = {<<t, k>>}
    BY <1>5, <1>12 DEF Pulled, LitRows
  <2>3. Paints(V, {t}, {})
    BY <1>4, <2>1, MenuPaint DEF t
  <2>4. Same(V, T, {<<t, k>>}) /\ <<t, k>> \in Chosen(T)
    <3>1. There(V, t, k)
      BY <1>1, <1>6 DEF There, t
    <3>2. V.m.owner \in Apps /\ V.bar = V.m.owner /\ T.bar = V.bar /\ "sel" \in state
      BY <1>1, <1>4, <1>5, <1>12 DEF Rest, state
    <3> QED BY <1>3, <1>4, <1>10, <1>11, <3>1, <3>2, WroteSame
  <2>5. Drawer(V) /\ T.acc = V.acc /\ t \in Titles
    BY <1>1, <1>4, <1>12, HandledDraws DEF Rest, t
  <2>6. Paints(T, {t}, ({} \ {<<t, k>>}) \cup ({<<t, k>>} \cap Chosen(T)))
    BY <1>3, <1>12, <2>3, <2>4, <2>5, RowPaint DEF e
  <2>7. ({} \ {<<t, k>>}) \cup ({<<t, k>>} \cap Chosen(T)) = {<<t, k>>}
    BY <2>4
  <2> QED BY <2>2, <2>6, <2>7
<1>19. Good(T)
  BY <1>10, <1>14, <1>16, <1>17 DEF Good
<1>20. T.m = AtRow(S.m, k, base)
  BY <1>4, <1>12
<1> QED BY <1>12, <1>13, <1>18, <1>19, <1>20 DEF T, W, V, state, base, t

\* The highlight of an open pull-down is moved.
Turned(S, T, k) ==
    /\ Good(T) /\ Painting(T) /\ Steady(S, T)
    /\ T.m = AtRow(S.m, k, T.m.itemBase)

\* What the highlight does not touch.
LEMMA AtRowIs ==
    ASSUME NEW m \in Managers, NEW k \in Nat, NEW base \in SUBSET Flags
    PROVE  /\ AtRow(m, k, base) \in Managers
           /\ AtRow(m, k, base).active = m.active /\ AtRow(m, k, base).owner = m.owner
           /\ AtRow(m, k, base).button = m.button /\ AtRow(m, k, base).tracking = m.tracking
           /\ AtRow(m, k, base).title = m.title /\ AtRow(m, k, base).titleBase = m.titleBase
           /\ AtRow(m, k, base).item = k /\ AtRow(m, k, base).itemBase = base
           /\ AtRow(m, k, base).drag = m.drag /\ AtRow(m, k, base).latched = m.latched
BY DEF AtRow, Managers

\* Without a change of the item there is none of the menu.
LEMMA AtRowSame ==
    ASSUME NEW m \in Managers
    PROVE  AtRow(m, m.item, m.itemBase) = m
BY DEF AtRow, Managers

\* SetItem moves the highlight: the row before is set back, the row after is
\* selected, and both are drawn.
LEMMA SetItemIs ==
    ASSUME NEW S, Ground, Good(S), Painting(S), S.m.tracking, NEW k \in 0 .. RowCount(S),
           Len(S.fx) + 1 < DrawEffects
    PROVE  Turned(S, SetItem(S, k), k) /\ Len(SetItem(S, k).fx) <= Len(S.fx) + 2
           /\ (S.m.item = 0 => Len(SetItem(S, k).fx) <= Len(S.fx) + 1)
           /\ (S.m.item = k => SetItem(S, k) = S)
<1> DEFINE i == S.m.item
           t == S.m.title
           off == IF i = 0 THEN S ELSE Effect(WriteRow(S, i, S.m.itemBase), "row", t, i)
           base == RowState(off, k)
           on == [off EXCEPT !.m.item = k, !.m.itemBase = base]
           none == [off EXCEPT !.m.item = 0, !.m.itemBase = {}]
           T == SetItem(S, k)
<1>0. /\ S \in Handled /\ Worked(S) /\ Lit(S) /\ Drawable(S)
      /\ t \in Titles /\ i \in 0 .. RowCount(S) /\ S.m \in Managers /\ Len(S.fx) \in Nat
      /\ S.m.itemBase \in SUBSET Flags
  <2>1. /\ S \in Handled /\ Worked(S) /\ Lit(S) /\ Drawable(S)
        /\ t \in Titles /\ i \in 0 .. RowCount(S) /\ S.m \in Managers
    BY HandledIs DEF Good, Worked
  <2> QED BY <2>1, HandledDraws DEF Managers
<1>a. T = IF k = i THEN S
          ELSE IF k = 0 THEN none
          ELSE Effect(WriteRow(on, k, base \cup {"sel"}), "row", t, k)
  BY DEF SetItem
<1>1. CASE k = i
  <2>1. T = S
    BY <1>a, <1>1
  <2> HIDE DEF T
  <2>2. S.m = AtRow(S.m, k, S.m.itemBase)
    BY <1>0, <1>1, AtRowSame
  <2>3. Steady(S, S)
    BY DEF Steady, Rest
  <2> QED BY <1>0, <2>1, <2>2, <2>3 DEF Turned, T
<1>2. CASE k # i
  <2>1. /\ off \in Handled /\ off.m = S.m /\ Steady(S, off) /\ Clear(off) /\ Drawable(off)
        /\ i = 0 => Len(off.fx) = Len(S.fx)
        /\ i # 0 => Len(off.fx) = Len(S.fx) + 1
        /\ screen.refused \/ Paints(off, {t}, {})
    <3>1. CASE i = 0
      <4>1. off = S
        BY <3>1
      <4>2. Clear(S)
        BY <1>0, <3>1, LitClear
      <4>3. Pulled(S) = {t} /\ LitRows(S) = {}
        BY <3>1 DEF Pulled, LitRows
      <4>4. Steady(S, S)
        BY DEF Steady, Rest
      <4> HIDE DEF off, t, i
      <4> QED BY <1>0, <3>1, <4>1, <4>2, <4>3, <4>4 DEF Painting
    <3>2. CASE i # 0
      <4> DEFINE X == Effect(WriteRow(S, S.m.item, S.m.itemBase), "row", S.m.title, S.m.item)
      <4>1. off = X
        BY <3>2
      <4>2. /\ X \in Handled /\ X.m = S.m /\ Steady(S, X) /\ Clear(X) /\ Drawable(X)
            /\ Len(X.fx) = Len(S.fx) + 1
            /\ screen.refused \/ Paints(X, {S.m.title}, {})
        <5>1. S.m.item # 0 /\ Len(S.fx) < DrawEffects
          BY <1>0, <3>2 DEF DrawEffects
        <5> QED BY <5>1, RowOff
      <4> HIDE DEF off, X
      <4> QED BY <3>2, <4>1, <4>2
    <3> QED BY <3>1, <3>2
  <2> HIDE DEF off
  <2>2. RowCount(off) = RowCount(S) /\ (InDesk(off) <=> InDesk(S)) /\ off.bar = S.bar
        /\ off.acc = S.acc /\ Len(off.desk) = Len(S.desk)
    BY <2>1, RowsAre DEF Steady, Rest
  <2>3. Worked(off)
    BY <1>0, <2>1, <2>2 DEF Worked
  <2>4. CASE k = 0
    <3>1. T = none
      BY <1>a, <1>2, <2>4
    <3> DEFINE m == AtRow(S.m, 0, {})
    <3>2. m \in Managers /\ m.tracking /\ m.item = 0 /\ m.title = t /\ m.itemBase = {}
          /\ m.owner = S.m.owner /\ m.active = S.m.active
      BY <1>0, AtRowIs
    <3>3. none = [off EXCEPT !.m = m]
      BY <1>0, <2>1, HandledIs DEF AtRow
    <3> HIDE DEF m, none
    <3>4. /\ none \in Handled /\ none.m = m /\ none.marks = off.marks /\ none.desk = off.desk
          /\ Rest(off, none) /\ none.msg = off.msg /\ none.fx = off.fx
      BY <2>1, <3>2, <3>3, MenuIs
    <3>5. Clear(none) /\ Drawable(none)
      BY <2>1, <3>4 DEF Clear, Drawable, RowsOf
    <3>6. Lit(none)
      BY <3>2, <3>4, <3>5 DEF Clear, Lit
    <3>7. Worked(none)
      <4>1. RowCount(none) = RowCount(off) /\ (InDesk(none) <=> InDesk(off)) /\ none.bar = off.bar
            /\ none.acc = off.acc /\ none.desk = off.desk
        BY <2>1, <3>2, <3>4, RowsAre DEF Rest, t
      <4>2. none.m.item \in 0 .. RowCount(none)
        BY <1>2, <2>4, <2>2, <3>2, <3>4, <4>1
      <4> QED BY <2>1, <2>3, <3>2, <3>4, <4>1, <4>2 DEF Worked
    <3>8. Painting(none)
      <4>1. Pulled(none) = {t} /\ LitRows(none) = {}
        BY <3>2, <3>4 DEF Pulled, LitRows
      <4>2. Paints(off, {t}, {}) => Paints(none, {t}, {})
        BY <3>4, MenuPaint
      <4> QED BY <2>1, <4>1, <4>2 DEF Painting
    <3>9. Steady(S, none)
      BY <2>1, <3>4 DEF Steady, Rest
    <3>10. Good(none)
      BY <3>4, <3>5, <3>6, <3>7 DEF Good
    <3>11. none.m = AtRow(S.m, 0, none.m.itemBase)
      BY <3>2, <3>4 DEF m
    <3>a. Len(none.fx) <= Len(S.fx) + 1
      <4> DEFINE x == Len(S.fx)
                 y == Len(off.fx)
      <4>1. x \in Nat /\ (y = x \/ y = x + 1) /\ Len(none.fx) = y
        BY <1>0, <2>1, <3>4
      <4> HIDE DEF x, y
      <4>2. y <= x + 1
        BY <4>1
      <4> QED BY <4>1, <4>2 DEF x
    <3>12. Turned(S, none, 0)
      BY <3>8, <3>9, <3>10, <3>11 DEF Turned
    <3>13. Len(none.fx) <= Len(S.fx) + 2
      BY <1>0, <3>a
    <3> QED BY <1>2, <2>4, <3>a, <3>1, <3>12, <3>13
  <2>5. CASE k # 0
    <3> DEFINE R == Effect(WriteRow(on, k, base \cup {"sel"}), "row", off.m.title, k)
    <3>1. T = R
      BY <1>a, <1>2, <2>1, <2>5
    <3>a. \E x \in Nat : x = Len(S.fx) /\ x + 1 < 8 /\ (Len(off.fx) = x \/ Len(off.fx) = x + 1)
                         /\ (i = 0 => Len(off.fx) = x)
      BY <1>0, <2>1 DEF DrawEffects
    <3>2. /\ Good(R) /\ Painting(R) /\ R.m = AtRow(off.m, k, base) /\ Steady(off, R)
          /\ Len(R.fx) = Len(off.fx) + 1
      <4>1. k \in 1 .. RowCount(off)
        BY <2>2, <2>5
      <4>2. Len(off.fx) < DrawEffects
        BY <3>a DEF DrawEffects
      <4>3. off.m.tracking /\ (screen.refused \/ Paints(off, {off.m.title}, {}))
        BY <2>1
      <4> QED BY <2>1, <2>3, <4>1, <4>2, <4>3, RowOn
    <3>3. R.m.itemBase = base
      <4>1. base \in SUBSET Flags
        <5>1. k \in 1 .. RowCount(off) /\ off.m.owner \in Apps /\ off.m.title \in Titles
          BY <1>0, <2>1, <2>2, <2>5 DEF Worked
        <5> QED BY <2>1, <5>1, RowStateIs
      <4> HIDE DEF base, R
      <4> QED BY <1>0, <2>1, <3>2, <4>1, AtRowIs
    <3> HIDE DEF R, base
    <3>4. Steady(S, R) /\ R.m = AtRow(S.m, k, R.m.itemBase)
      BY <2>1, <3>2, <3>3 DEF Steady, Rest
    <3>5. Len(R.fx) <= Len(S.fx) + 2 /\ (S.m.item = 0 => Len(R.fx) <= Len(S.fx) + 1)
      <4>1. PICK x \in Nat : x = Len(S.fx) /\ (Len(off.fx) = x \/ Len(off.fx) = x + 1)
                              /\ (i = 0 => Len(off.fx) = x)
        BY <3>a
      <4> QED BY <3>2, <4>1
    <3>6. Turned(S, R, k)
      BY <3>2, <3>4 DEF Turned
    <3> QED BY <1>2, <3>1, <3>5, <3>6
  <2> QED BY <2>4, <2>5
<1> QED BY <1>1, <1>2

\* The rows of the Desk are built anew, none of them selected.
LEMMA BuildDeskIs ==
    ASSUME NEW S \in Handled, S.m.active => S.m.owner \in Apps,
           \A a \in Apps : /\ "sel" \notin S.marks[a][<<DeskTitle, 1>>]
                           /\ "sel" \notin S.marks[a][<<DeskTitle, 2>>]
    PROVE  LET T == BuildDesk(S)
           IN  /\ T \in Handled /\ T.m = S.m /\ T.marks = S.marks /\ Rest(S, T)
               /\ T.msg = S.msg /\ T.fx = S.fx
               /\ S.m.active => Len(T.desk) = 2 + Len(S.acc)
               /\ \A j \in 1 .. Len(T.desk) : "sel" \notin T.desk[j]
<1> DEFINE T == BuildDesk(S)
           x == S.marks[S.m.owner][<<DeskTitle, 1>>]
           y == S.marks[S.m.owner][<<DeskTitle, 2>>] \cup {"dis"}
           n == Len(S.acc)
           rest == [i \in 1 .. n |-> {}]
           d == IF S.m.active THEN <<x, y>> \o rest ELSE <<>>
<1>1. T = [S EXCEPT !.desk = d]
  BY HandledIs DEF BuildDesk
<1>2. /\ d \in Seq(SUBSET Flags) /\ (S.m.active => Len(d) = 2 + n)
      /\ \A j \in 1 .. Len(d) : "sel" \notin d[j]
  <2>1. CASE S.m.active
    <3>1. x \in SUBSET Flags /\ "sel" \notin x
      <4>1. S.marks[S.m.owner][<<DeskTitle, 1>>] \in SUBSET Flags
        BY <2>1, HandledIs, ObjectsIs DEF Trees
      <4>2. "sel" \notin S.marks[S.m.owner][<<DeskTitle, 1>>]
        BY <2>1
      <4> QED BY <4>1, <4>2
    <3>2. y \in SUBSET Flags /\ "sel" \notin y
      <4>1. S.marks[S.m.owner][<<DeskTitle, 2>>] \in SUBSET Flags
        BY <2>1, HandledIs, ObjectsIs DEF Trees
      <4>2. "sel" \notin S.marks[S.m.owner][<<DeskTitle, 2>>]
        BY <2>1
      <4> QED BY <4>1, <4>2 DEF Flags
    <3>3. n \in Nat
      BY HandledIs, LenProperties
    <3>4. rest \in Seq(SUBSET Flags) /\ Len(rest) = n /\ \A i \in 1 .. n : rest[i] = {}
      BY <3>3
    <3>5. d = <<x, y>> \o rest
      BY <2>1
    <3> HIDE DEF x, y, rest, d, n
    <3> DEFINE two == <<x, y>>
    <3>6. two \in Seq(SUBSET Flags) /\ Len(two) = 2 /\ two[1] = x /\ two[2] = y
      BY <3>1, <3>2
    <3>7. d = two \o rest
      BY <3>5
    <3> HIDE DEF two
    <3>a. /\ two \o rest \in Seq(SUBSET Flags) /\ Len(two \o rest) = Len(two) + Len(rest)
          /\ \A j \in 1 .. Len(two) + Len(rest) :
                (two \o rest)[j] = IF j <= Len(two) THEN two[j] ELSE rest[j - Len(two)]
      <4> HIDE DEF rest
      <4> DEFINE F == SUBSET Flags
      <4>1. two \in Seq(F) /\ rest \in Seq(F)
        BY <3>4, <3>6
      <4> HIDE DEF F
      <4>2. /\ two \o rest \in Seq(F) /\ Len(two \o rest) = Len(two) + Len(rest)
            /\ \A j \in 1 .. Len(two) + Len(rest) :
                  (two \o rest)[j] = IF j <= Len(two) THEN two[j] ELSE rest[j - Len(two)]
        BY ONLY <4>1, ConcatProperties, Zenon
      <4> QED BY <4>2 DEF F
    <3>8. d \in Seq(SUBSET Flags) /\ Len(d) = 2 + n
      BY <3>a, <3>4, <3>6, <3>7
    <3>9. \A j \in 1 .. Len(d) : d[j] = IF j <= 2 THEN two[j] ELSE rest[j - 2]
      BY <3>a, <3>4, <3>6, <3>7, <3>8
    <3>10. ASSUME NEW j \in 1 .. Len(d) PROVE "sel" \notin d[j]
      <4>1. j \in 1 .. 2 + n
        BY <3>8
      <4>2. CASE j = 1
        BY <3>1, <3>6, <3>9, <4>2
      <4>3. CASE j = 2
        BY <3>2, <3>6, <3>9, <4>3
      <4>4. CASE j # 1 /\ j # 2
        <5>1. j - 2 \in 1 .. n /\ ~(j <= 2)
          BY <3>3, <4>1, <4>4
        <5> QED BY <3>4, <3>9, <5>1
      <4> QED BY <4>2, <4>3, <4>4
    <3> QED BY <3>8, <3>10
  <2>2. CASE ~S.m.active
    <3>1. d = <<>> /\ d \in Seq(SUBSET Flags) /\ Len(d) = 0
      BY <2>2
    <3> HIDE DEF d
    <3> QED BY <2>2, <3>1
  <2> QED BY <2>1, <2>2
<1> HIDE DEF T, d, x, y, rest
<1>3. /\ T \in Handled /\ T.m = S.m /\ T.marks = S.marks /\ Rest(S, T)
      /\ T.msg = S.msg /\ T.fx = S.fx /\ T.desk = d
  BY <1>1, <1>2 DEF Handled, Rest
<1> QED BY <1>2, <1>3 DEF T

\* In a good state the Desk can be built.
LEMMA LitDesk ==
    ASSUME NEW S, Lit(S)
    PROVE  \A a \in Apps : /\ "sel" \notin S.marks[a][<<DeskTitle, 1>>]
                           /\ "sel" \notin S.marks[a][<<DeskTitle, 2>>]
BY ObjectsIs DEF Lit

\* The menu with a pull-down just opened.
Opened(m, t, drag, base) ==
    [Idle(m) EXCEPT !.tracking = TRUE, !.title = t, !.drag = drag, !.titleBase = base]

\* No row is to be drawn.
NoRows(S) == \A i \in 1 .. Len(S.fx) : S.fx[i].do # "row"

\* The menu with no pull-down.
LEMMA IdleIs ==
    ASSUME NEW m \in Managers
    PROVE  /\ Idle(m) \in Managers /\ ~Idle(m).tracking /\ Idle(m).itemBase = {}
           /\ Idle(m).active = m.active /\ Idle(m).owner = m.owner /\ Idle(m).button = m.button
           /\ Idle(m).title = 0 /\ Idle(m).item = 0 /\ Idle(m).titleBase = {}
<1>1. 0 \in 0 .. Len(Rows)
  BY MenuAssumption, LenProperties
<1> QED BY <1>1 DEF Idle, Inactive, Managers

\* The menu with one just opened.
LEMMA OpenedIs ==
    ASSUME NEW m \in Managers, NEW t \in Titles, NEW drag, drag \in BOOLEAN,
           NEW base \in SUBSET Flags, NEW M, M = Opened(m, t, drag, base)
    PROVE  /\ M \in Managers /\ M.tracking /\ M.title = t /\ M.titleBase = base
           /\ M.active = m.active /\ M.owner = m.owner /\ M.button = m.button
           /\ M.item = 0 /\ M.itemBase = {} /\ M.drag = drag
<1>1. t \in 0 .. Len(Rows)
  BY MenuAssumption, LenProperties DEF Titles
<1> DEFINE x == Idle(m)
<1>2. x \in Managers /\ x.itemBase = {} /\ x.item = 0
      /\ x.active = m.active /\ x.owner = m.owner /\ x.button = m.button
  BY IdleIs
<1>3. M = [x EXCEPT !.tracking = TRUE, !.title = t, !.drag = drag, !.titleBase = base]
  BY DEF Opened
<1> HIDE DEF x
<1> QED BY <1>1, <1>2, <1>3 DEF Managers

\* With one effect more there is still no row to be drawn.
LEMMA NoRowsMore ==
    ASSUME NEW S \in Handled, NEW T, NoRows(S), NEW e, T.fx = Append(S.fx, e), e.do # "row"
    PROVE  NoRows(T) /\ Drawable(T)
<1>1. /\ Len(T.fx) = Len(S.fx) + 1 /\ T.fx[Len(S.fx) + 1] = e /\ Len(S.fx) \in Nat
      /\ \A i \in 1 .. Len(S.fx) : T.fx[i] = S.fx[i]
  BY HandledIs, AppendProperties, LenProperties
<1>2. ASSUME NEW i \in 1 .. Len(T.fx) PROVE T.fx[i].do # "row"
  <2>1. i = Len(S.fx) + 1 \/ i \in 1 .. Len(S.fx)
    BY <1>1
  <2> QED BY <1>1, <2>1 DEF NoRows
<1> QED BY <1>2 DEF NoRows, Drawable

\* The pull-down of title t of the owner opens.
Opens(S, T, t, drag) ==
    /\ Good(T) /\ Painting(T) /\ NoRows(T)
    /\ T.m = Opened(S.m, t, drag, TitleState(S, t)) /\ Rest(S, T) /\ T.msg = S.msg
    /\ \A a \in Apps, u \in Titles :
          a # S.m.owner \/ u # t => T.marks[a][<<u, 0>>] = S.marks[a][<<u, 0>>]

\* OpenTitle selects the title, builds the rows of the Desk when it is the
\* Desk's, and leaves the pull-down to be drawn.
LEMMA OpenTitleIs ==
    ASSUME NEW S, Ground, Good(S), Painting(S), NoRows(S), S.m.active, ~S.m.tracking,
           NEW t \in Titles, NEW drag \in BOOLEAN, Len(S.fx) + 2 < DrawEffects
    PROVE  Opens(S, OpenTitle(S, t, drag), t, drag)
           /\ Len(OpenTitle(S, t, drag).fx) = Len(S.fx) + 3
<1> DEFINE a == S.m.owner
           st == TitleState(S, t)
           B == IF t = DeskTitle THEN BuildDesk(S) ELSE S
           m == Opened(S.m, t, drag, st)
           V == [B EXCEPT !.m = m]
           state == st \cup {"sel"}
           W == WriteTitle(V, t, state)
           e1 == [do |-> "title", t |-> t, k |-> 0]
           e2 == [do |-> "save", t |-> t, k |-> 0]
           e3 == [do |-> "pull", t |-> t, k |-> 0]
           F == Effect(W, "title", t, 0)
           G == Effect(F, "save", t, 0)
           T == Effect(G, "pull", t, 0)
<1>0. /\ S \in Handled /\ Worked(S) /\ Lit(S) /\ Drawable(S) /\ S.m \in Managers
      /\ a \in Apps /\ a = S.bar /\ Len(S.fx) \in Nat /\ S.marks \in Trees
  <2>1. S \in Handled /\ Worked(S) /\ Lit(S) /\ Drawable(S)
    BY DEF Good
  <2> QED BY <2>1, HandledIs, HandledDraws DEF Worked
<1>a. OpenTitle(S, t, drag) = T
  BY DEF OpenTitle, Opened
<1>1. st \in SUBSET Flags /\ state \in SUBSET Flags /\ "sel" \in state
  <2>1. st \in SUBSET Flags
    BY <1>0, ObjectsIs DEF TitleState, Trees
  <2> HIDE DEF st
  <2> QED BY <2>1 DEF Flags
<1>2. /\ m \in Managers /\ m.tracking /\ m.title = t /\ m.item = 0 /\ m.itemBase = {}
      /\ m.owner = a /\ m.active
  <2> HIDE DEF st, state, V, B, W, F, G, T
  <2>1. S.m \in Managers /\ st \in SUBSET Flags
    BY <1>0, <1>1
  <2>2. /\ m \in Managers /\ m.tracking /\ m.title = t /\ m.item = 0 /\ m.itemBase = {}
        /\ m.owner = S.m.owner /\ m.active = S.m.active
    <3>1. m = Opened(S.m, t, drag, st)
      OBVIOUS
    <3> HIDE DEF m
    <3> DEFINE x == S.m
    <3>2. x \in Managers /\ m = Opened(x, t, drag, st) /\ st \in SUBSET Flags
      BY <2>1, <3>1
    <3> HIDE DEF x
    <3>3. /\ m \in Managers /\ m.tracking /\ m.title = t /\ m.item = 0 /\ m.itemBase = {}
          /\ m.owner = x.owner /\ m.active = x.active
      BY ONLY <3>2, drag \in BOOLEAN, t \in Titles, OpenedIs
    <3> QED BY <3>3 DEF x
  <2> QED BY <2>2
<1>3. /\ B \in Handled /\ B.m = S.m /\ B.marks = S.marks /\ Rest(S, B) /\ B.msg = S.msg
      /\ B.fx = S.fx /\ (t = DeskTitle => Len(B.desk) = 2 + Len(S.acc))
      /\ t # DeskTitle => B.desk = S.desk
      /\ \A j \in 1 .. Len(B.desk) : "sel" \notin B.desk[j]
  <2>1. CASE t = DeskTitle
    <3> DEFINE X == BuildDesk(S)
    <3>1. /\ X \in Handled /\ X.m = S.m /\ X.marks = S.marks /\ Rest(S, X)
          /\ X.msg = S.msg /\ X.fx = S.fx
          /\ S.m.active => Len(X.desk) = 2 + Len(S.acc)
          /\ \A j \in 1 .. Len(X.desk) : "sel" \notin X.desk[j]
      BY <1>0, LitDesk, BuildDeskIs
    <3>2. B = X
      BY <2>1
    <3> HIDE DEF X, B
    <3> QED BY <2>1, <3>1, <3>2
  <2>2. CASE t # DeskTitle
    <3>1. B = S
      BY <2>2
    <3>2. Clear(S)
      BY <1>0, LitClear
    <3> HIDE DEF B
    <3> QED BY <1>0, <2>2, <3>1, <3>2 DEF Rest, Clear
  <2> QED BY <2>1, <2>2
<1>4. Clear(B)
  <2>1. Clear(S)
    BY <1>0, LitClear
  <2> HIDE DEF B
  <2> QED BY <1>3, <2>1 DEF Clear
<1> HIDE DEF B, m, st, state
<1>5. /\ V \in Handled /\ V.m = m /\ V.marks = B.marks /\ V.desk = B.desk
      /\ Rest(B, V) /\ V.msg = B.msg /\ V.fx = B.fx
  BY <1>2, <1>3, MenuIs
<1> HIDE DEF V
<1>6. /\ W \in Handled /\ W.m = V.m /\ Rest(V, W) /\ W.msg = V.msg /\ W.fx = V.fx
      /\ Wrote(V, W, t, 0, state)
  BY <1>0, <1>1, <1>2, <1>5, WriteTitleIs
<1> HIDE DEF W
<1>7. e1 \in Drawings /\ e2 \in Drawings /\ e3 \in Drawings
      /\ e1.do # "row" /\ e2.do # "row" /\ e3.do # "row"
  BY DEF Drawings
<1>8. W.fx = S.fx /\ Len(W.fx) < DrawEffects /\ Len(W.fx) + 1 < DrawEffects
      /\ Len(W.fx) + 1 + 1 < DrawEffects
  BY <1>0, <1>3, <1>5, <1>6 DEF DrawEffects
<1>9. /\ F \in Handled /\ F.m = W.m /\ F.marks = W.marks /\ F.desk = W.desk
      /\ Rest(W, F) /\ F.msg = W.msg /\ F.fx = Append(W.fx, e1) /\ Len(F.fx) = Len(W.fx) + 1
  BY <1>6, <1>7, <1>8, EffectIs
<1> HIDE DEF F
<1>10. /\ G \in Handled /\ G.m = F.m /\ G.marks = F.marks /\ G.desk = F.desk
       /\ Rest(F, G) /\ G.msg = F.msg /\ G.fx = Append(F.fx, e2) /\ Len(G.fx) = Len(F.fx) + 1
  BY <1>7, <1>8, <1>9, EffectIs
<1> HIDE DEF G
<1>11. /\ T \in Handled /\ T.m = G.m /\ T.marks = G.marks /\ T.desk = G.desk
       /\ Rest(G, T) /\ T.msg = G.msg /\ T.fx = Append(G.fx, e3) /\ Len(T.fx) = Len(G.fx) + 1
  BY <1>7, <1>8, <1>9, <1>10, EffectIs
<1> HIDE DEF T
<1>12. /\ T.m = m /\ T.marks = W.marks /\ T.desk = W.desk /\ Rest(S, T) /\ T.msg = S.msg
       /\ T.fx = Append(Append(Append(S.fx, e1), e2), e3)
  <2> HIDE DEF e1, e2, e3
  <2> QED BY <1>3, <1>5, <1>6, <1>8, <1>9, <1>10, <1>11 DEF Rest
<1>13. Len(T.fx) = Len(S.fx) + 3
  BY <1>0, <1>8, <1>9, <1>10, <1>11
<1>14. NoRows(T) /\ Drawable(T)
  <2> HIDE DEF e1, e2, e3
  <2>1. NoRows(W)
    BY <1>8 DEF NoRows
  <2>2. NoRows(F)
    BY <1>6, <1>7, <1>9, <2>1, NoRowsMore
  <2>3. NoRows(G)
    BY <1>7, <1>9, <1>10, <2>2, NoRowsMore
  <2> QED BY <1>7, <1>10, <1>11, <2>3, NoRowsMore
<1>15. /\ Len(W.desk) = Len(B.desk)
       /\ \A j \in 1 .. Len(B.desk) : W.desk[j] = B.desk[j]
       /\ \A b \in Apps, o \in Objects :
             W.marks[b][o] = IF b = a /\ o = <<t, 0>> THEN state ELSE S.marks[b][o]
  <2>1. \A j \in 1 .. Len(B.desk) : ~(j = 0)
    OBVIOUS
  <2> QED BY <1>2, <1>3, <1>5, <1>6, <2>1 DEF Wrote
<1>16. Clear(T)
  <2>1. ASSUME NEW j \in 1 .. Len(T.desk) PROVE "sel" \notin T.desk[j]
    BY <1>3, <1>12, <1>15, <2>1
  <2>2. ASSUME NEW b \in Apps, NEW o \in Objects, o[2] # 0 PROVE "sel" \notin T.marks[b][o]
    <3>1. o # <<t, 0>>
      BY <2>2
    <3>2. Clear(S)
      BY <1>0, LitClear
    <3> QED BY <1>12, <1>15, <2>2, <3>1, <3>2 DEF Clear
  <2> QED BY <2>1, <2>2 DEF Clear
<1>17. Lit(T)
  <2>1. T.m.itemBase = {} /\ T.m.item = 0
    BY <1>2, <1>12
  <2> QED BY <1>16, <2>1 DEF Lit, Clear
<1>18. Worked(T)
  <2>1. T.bar = S.bar /\ T.acc = S.acc
    BY <1>12 DEF Rest
  <2>2. InDesk(T) => Len(T.desk) = 2 + Len(T.acc)
    BY <1>2, <1>3, <1>12, <1>15, <2>1 DEF InDesk
  <2>3. RowCount(T) \in Nat
    <3>1. Len(T.desk) \in Nat /\ Rows[t] \in Nat
      BY <1>11, HandledIs, LenProperties, ObjectsIs
    <3> QED BY <1>2, <1>12, <3>1 DEF RowCount, InDesk
  <2>4. T.m.item \in 0 .. RowCount(T)
    BY <1>2, <1>12, <2>3
  <2> QED BY <1>0, <1>2, <1>12, <2>1, <2>2, <2>4 DEF Worked
<1>19. Painting(T)
  <2>1. SUFFICES ASSUME ~screen.refused PROVE Paints(T, Pulled(T), LitRows(T))
    BY DEF Painting
  <2>2. Pulled(T) = {t} /\ LitRows(T) = {}
    BY <1>2, <1>12 DEF Pulled, LitRows
  <2>3. Paints(S, {}, {})
    BY <2>1 DEF Painting, Pulled, LitRows
  <2>4. Same(S, T, {t} \X Nat)
    <3>1. T.bar = S.bar
      BY <1>12 DEF Rest
    <3>2. ASSUME NEW o \in Titles \X Nat, o \notin {t} \X Nat
          PROVE  o \in Chosen(T) <=> o \in Chosen(S)
      <4>1. o[1] # t
        BY <3>2
      <4>2. CASE o[1] = DeskTitle /\ o[2] # 0
        <5>1. B.desk = S.desk /\ Len(T.desk) = Len(S.desk) /\ Len(S.desk) \in Nat
          BY <1>0, <1>3, <1>12, <1>15, <4>1, <4>2, HandledIs, LenProperties
        <5>2. o[2] <= Len(S.desk) => T.desk[o[2]] = S.desk[o[2]]
          <6>1. o[2] <= Len(S.desk) => o[2] \in 1 .. Len(S.desk)
            BY <4>2, <5>1
          <6> QED BY <1>12, <1>15, <5>1, <6>1
        <5> QED BY <4>2, <5>1, <5>2 DEF Chosen
      <4>3. CASE ~(o[1] = DeskTitle /\ o[2] # 0)
        <5>1. o \in Objects => \A b \in Apps : T.marks[b][o] = S.marks[b][o]
          BY <1>12, <1>15, <4>1
        <5>2. S.bar \in Apps
          BY <1>0
        <5> QED BY <3>1, <4>3, <5>1, <5>2 DEF Chosen
      <4> QED BY <4>2, <4>3
    <3>3. Chosen(S) \subseteq Titles \X Nat /\ Chosen(T) \subseteq Titles \X Nat
      BY DEF Chosen
    <3> QED BY <3>1, <3>2, <3>3 DEF Same
  <2>5. Drawer(S) /\ T.acc = S.acc
    BY <1>0, <1>12, HandledDraws DEF Rest
  <2>6. Paints(T, {t}, {r \in Chosen(T) : r[1] = t /\ r[2] # 0})
    BY <1>12, <2>3, <2>4, <2>5, PullPaint
  <2>7. {r \in Chosen(T) : r[1] = t /\ r[2] # 0} = {}
    <3>1. SUFFICES ASSUME NEW r \in Chosen(T), r[2] # 0 PROVE FALSE
      OBVIOUS
    <3>2. r \in Titles \X Nat
      BY DEF Chosen
    <3>3. CASE r[1] = DeskTitle
      <4>1. r[2] <= Len(T.desk) /\ "sel" \in T.desk[r[2]] /\ Len(T.desk) \in Nat
        BY <1>11, <3>1, <3>3, HandledIs, LenProperties DEF Chosen
      <4>2. r[2] \in 1 .. Len(T.desk)
        BY <3>1, <3>2, <4>1
      <4> QED BY <1>16, <4>1, <4>2 DEF Clear
    <3>4. CASE r[1] # DeskTitle
      <4>1. r \in Objects /\ "sel" \in T.marks[T.bar][r] /\ T.bar # NoApp
        BY <3>1, <3>4 DEF Chosen
      <4>2. T.bar \in Apps
        BY <1>11, <4>1, HandledIs
      <4> QED BY <1>16, <3>1, <4>1, <4>2 DEF Clear
    <3> QED BY <3>3, <3>4
  <2> QED BY <2>2, <2>6, <2>7
<1>20. ASSUME NEW b \in Apps, NEW u \in Titles, b # a \/ u # t
       PROVE  T.marks[b][<<u, 0>>] = S.marks[b][<<u, 0>>]
  <2>1. <<u, 0>> \in Objects /\ (u # t => <<u, 0>> # <<t, 0>>)
    BY ObjectsIs
  <2> QED BY <1>12, <1>15, <1>20, <2>1
<1>21. Good(T)
  BY <1>11, <1>14, <1>17, <1>18 DEF Good
<1>22. T.m = Opened(S.m, t, drag, TitleState(S, t))
  BY <1>12 DEF m, st
<1>23. Opens(S, T, t, drag)
  BY <1>12, <1>14, <1>19, <1>20, <1>21, <1>22 DEF Opens
<1> QED BY <1>a, <1>13, <1>23 DEF T, G, F, W, V, B, m, st, state

\* A state on the way from one pull-down to none: no row is selected.
Bare(S) ==
    /\ S \in Handled /\ Clear(S) /\ Drawable(S) /\ S.m.owner \in Apps /\ S.m.owner = S.bar

\* All but the tree, the Desk and the effects.
Kept(S, T) == T.m = S.m /\ Rest(S, T) /\ T.msg = S.msg /\ Len(T.desk) = Len(S.desk)

\* Of the titles only t of the owner is another, now in this state.
Retitled(S, T, t, state) ==
    \A a \in Apps, u \in Titles :
        T.marks[a][<<u, 0>>] = IF a = S.m.owner /\ u = t THEN state ELSE S.marks[a][<<u, 0>>]

\* Two changes of what is selected, one after the other.
LEMMA SameJoin ==
    ASSUME NEW S, NEW T, NEW U, NEW X, NEW Y, Same(S, T, X), Same(T, U, Y), Y \subseteq X
    PROVE  Same(S, U, X)
BY DEF Same

\* Nothing else is selected.
LEMMA SameIs ==
    ASSUME NEW S, NEW T, T.marks = S.marks, T.desk = S.desk, T.bar = S.bar
    PROVE  Same(S, T, {}) /\ Chosen(T) = Chosen(S)
BY DEF Same, Chosen

\* A title is written.
LEMMA BareTitle ==
    ASSUME NEW S, Bare(S), NEW t \in Titles, NEW state \in SUBSET Flags
    PROVE  LET T == WriteTitle(S, t, state)
           IN  /\ Bare(T) /\ Kept(S, T) /\ T.fx = S.fx
               /\ Same(S, T, {<<t, 0>>}) /\ Retitled(S, T, t, state)
<1> DEFINE T == WriteTitle(S, t, state)
<1>0. S \in Handled /\ Clear(S) /\ Drawable(S) /\ S.m.owner \in Apps /\ S.m.owner = S.bar
  BY DEF Bare
<1>1. /\ T \in Handled /\ T.m = S.m /\ Rest(S, T) /\ T.msg = S.msg /\ T.fx = S.fx
      /\ Wrote(S, T, t, 0, state)
  BY <1>0, WriteTitleIs
<1> HIDE DEF T
<1>2. Same(S, T, {<<t, 0>>})
  <2>1. There(S, t, 0) /\ T.bar = S.bar /\ 0 \in Nat
    BY <1>1 DEF There, Rest
  <2> QED BY <1>0, <1>1, <2>1, WroteSame
<1>3. /\ Len(T.desk) = Len(S.desk)
      /\ \A j \in 1 .. Len(S.desk) : T.desk[j] = S.desk[j]
      /\ \A a \in Apps, o \in Objects :
            T.marks[a][o] = IF a = S.m.owner /\ o = <<t, 0>> THEN state ELSE S.marks[a][o]
  BY <1>1 DEF Wrote
<1>4. Clear(T)
  <2>1. \A o \in Objects : o[2] # 0 => o # <<t, 0>>
    OBVIOUS
  <2> QED BY <1>0, <1>3, <2>1 DEF Clear
<1>5. Drawable(T)
  BY <1>0, <1>1, <1>3 DEF Drawable, RowsOf
<1>6. Retitled(S, T, t, state)
  <2>1. \A u \in Titles : <<u, 0>> \in Objects /\ (<<u, 0>> = <<t, 0>> <=> u = t)
    BY ObjectsIs
  <2> QED BY <1>3, <2>1 DEF Retitled
<1>7. Bare(T) /\ Kept(S, T)
  BY <1>0, <1>1, <1>3, <1>4, <1>5 DEF Bare, Kept, Rest
<1> QED BY <1>1, <1>2, <1>6, <1>7 DEF T

\* A title, or the whole pull-down, is to be drawn.
LEMMA BareEffect ==
    ASSUME NEW S, Bare(S), NEW do, NEW t, NEW e, e = [do |-> do, t |-> t, k |-> 0],
           e \in Drawings, do # "row", Len(S.fx) < DrawEffects
    PROVE  LET T == Effect(S, do, t, 0)
           IN  /\ Bare(T) /\ Kept(S, T) /\ T.fx = Append(S.fx, e) /\ Len(T.fx) = Len(S.fx) + 1
               /\ T.marks = S.marks /\ T.desk = S.desk /\ Same(S, T, {})
<1> DEFINE T == Effect(S, do, t, 0)
<1>0. S \in Handled /\ Clear(S) /\ Drawable(S) /\ S.m.owner \in Apps /\ S.m.owner = S.bar
  BY DEF Bare
<1>1. /\ T \in Handled /\ T.m = S.m /\ T.marks = S.marks /\ T.desk = S.desk
      /\ Rest(S, T) /\ T.msg = S.msg /\ T.fx = Append(S.fx, e) /\ Len(T.fx) = Len(S.fx) + 1
  BY <1>0, EffectIs
<1>2. e.do # "row"
  OBVIOUS
<1> HIDE DEF T
<1>3. Clear(T)
  BY <1>0, <1>1 DEF Clear
<1>4. Drawable(T)
  <2>1. Len(T.desk) = Len(S.desk) /\ (e.do = "row" => e.k \in 1 .. RowsOf(S, e.t))
    BY <1>1, <1>2
  <2> QED BY <1>0, <1>1, <2>1, DrawableMore
<1>5. Same(S, T, {})
  BY <1>1, SameIs DEF Rest
<1>6. Bare(T) /\ Kept(S, T)
  BY <1>0, <1>1, <1>3, <1>4 DEF Bare, Kept, Rest
<1> QED BY <1>1, <1>5, <1>6 DEF T

\* The tracked row as it was before, not drawn.
RowBack(S) == IF S.m.item = 0 THEN S ELSE WriteRow(S, S.m.item, S.m.itemBase)

\* The tracked row is set back, and nothing else.
LEMMA RowBackIs ==
    ASSUME NEW S, Good(S), S.m.tracking
    PROVE  LET T == RowBack(S)
           IN  /\ Bare(T) /\ Kept(S, T) /\ T.fx = S.fx /\ Same(S, T, {S.m.title} \X Nat)
               /\ \A a \in Apps, u \in Titles : T.marks[a][<<u, 0>>] = S.marks[a][<<u, 0>>]
<1> DEFINE t == S.m.title
           i == S.m.item
           b == S.m.itemBase
           T == RowBack(S)
<1>1. /\ S \in Handled /\ Worked(S) /\ Lit(S) /\ Drawable(S)
      /\ t \in Titles /\ i \in 0 .. RowCount(S) /\ S.m.owner \in Apps /\ S.m.owner = S.bar
      /\ b \in SUBSET Flags /\ i \in Nat
  <2>1. /\ S \in Handled /\ Worked(S) /\ Lit(S) /\ Drawable(S)
        /\ t \in Titles /\ i \in 0 .. RowCount(S) /\ S.m.owner \in Apps /\ S.m.owner = S.bar
    BY DEF Good, Worked
  <2>2. b \in SUBSET Flags /\ i \in Nat
    BY <2>1, HandledIs DEF Managers
  <2> QED BY <2>1, <2>2
<1>2. CASE i = 0
  <2>1. T = S
    BY <1>2 DEF RowBack
  <2>2. Clear(S)
    BY <1>1, <1>2, LitClear
  <2>3. Same(S, S, {t} \X Nat)
    BY DEF Same
  <2> HIDE DEF T
  <2> QED BY <1>1, <2>1, <2>2, <2>3 DEF Bare, Kept, Rest, T
<1>3. CASE i # 0
  <2>1. T = WriteRow(S, i, b) /\ i \in 1 .. RowCount(S) /\ i \in Nat \ {0}
    BY <1>1, <1>3 DEF RowBack
  <2> HIDE DEF T, b, i, t
  <2>2. /\ T \in Handled /\ T.m = S.m /\ Rest(S, T) /\ T.msg = S.msg /\ T.fx = S.fx
        /\ Wrote(S, T, t, i, b)
    BY <1>1, <2>1, WriteRowIs DEF t
  <2>3. Steady(S, T)
    BY <2>1, <2>2, WroteSteady
  <2>4. Clear(T)
    BY <1>1, <1>3, <2>2, WroteClear DEF t, i, b
  <2>5. Same(S, T, {<<t, i>>})
    <3>1. There(S, t, i) /\ T.bar = S.bar
      <4>1. RowCount(S) = RowsOf(S, t)
        BY DEF RowCount, RowsOf, InDesk, t
      <4> QED BY <1>1, <2>1, <2>2, <4>1 DEF There, Rest
    <3> QED BY <1>1, <2>2, <3>1, WroteSame
  <2>6. Same(S, T, {t} \X Nat)
    BY <1>1, <2>5 DEF Same
  <2>7. Drawable(T)
    BY <1>1, <2>2, <2>3 DEF Drawable, RowsOf, Steady
  <2>8. Bare(T) /\ Kept(S, T)
    BY <1>1, <2>2, <2>3, <2>4, <2>7 DEF Bare, Kept, Steady, Rest
  <2> QED BY <2>2, <2>3, <2>6, <2>8 DEF Steady, T, t
<1> QED BY <1>2, <1>3

\* The pull-down is gone from the manager.
LEMMA Shut ==
    ASSUME NEW S, Bare(S), NEW T, T = [S EXCEPT !.m = Idle(@)],
           screen.refused \/ Paints(S, {}, {})
    PROVE  /\ Good(T) /\ Painting(T) /\ T.m = Idle(S.m) /\ Rest(S, T) /\ T.msg = S.msg
           /\ T.fx = S.fx /\ T.marks = S.marks
<1>0. S \in Handled /\ Clear(S) /\ Drawable(S) /\ S.m.owner \in Apps /\ S.m.owner = S.bar
      /\ S.m \in Managers
  BY HandledIs DEF Bare
<1> DEFINE m == Idle(S.m)
<1>1. m \in Managers /\ ~m.tracking /\ m.itemBase = {} /\ m.active = S.m.active
      /\ m.owner = S.m.owner /\ m.item = 0
  BY <1>0, IdleIs
<1>2. T = [S EXCEPT !.m = m]
  BY <1>0, HandledIs
<1> HIDE DEF m
<1>3. /\ T \in Handled /\ T.m = m /\ T.marks = S.marks /\ T.desk = S.desk
      /\ Rest(S, T) /\ T.msg = S.msg /\ T.fx = S.fx
  <2>1. S \in Handled /\ m \in Managers
    BY <1>0, <1>1
  <2> QED BY ONLY <1>2, <2>1, MenuIs
<1>4. Worked(T)
  BY <1>0, <1>1, <1>3 DEF Worked, Rest
<1>5. Clear(T) /\ Drawable(T)
  BY <1>0, <1>3 DEF Clear, Drawable, RowsOf
<1>6. Lit(T)
  BY <1>1, <1>3, <1>5 DEF Lit, Clear
<1>7. Painting(T)
  <2>1. Pulled(T) = {} /\ LitRows(T) = {}
    BY <1>1, <1>3 DEF Pulled, LitRows
  <2>2. Paints(S, {}, {}) => Paints(T, {}, {})
    BY <1>3, MenuPaint
  <2> QED BY <2>1, <2>2 DEF Painting
<1>8. Good(T)
  BY <1>3, <1>4, <1>5, <1>6 DEF Good
<1> QED BY <1>3, <1>7, <1>8 DEF m

\* The pull-down of title t is closed, on row k or on none.
Closes(S, T, k) ==
    LET t == S.m.title
    IN  /\ Good(T) /\ Painting(T) /\ T.m = Idle(S.m) /\ Rest(S, T)
        /\ \A a \in Apps, u \in Titles :
              a # S.m.owner \/ u # t => T.marks[a][<<u, 0>>] = S.marks[a][<<u, 0>>]
        /\ k = 0 => T.msg = S.msg
        /\ \/ "sel" \notin T.marks[S.m.owner][<<t, 0>>]
           \/ "sel" \in S.m.titleBase
           \/ T.msg # None /\ T.msg.to = S.m.owner /\ T.msg.type = "selected" /\ T.msg.t = t

\* The pull-down is to be painted over.
LEMMA UnpullIs ==
    ASSUME NEW S, Ground, Good(S), Painting(S), S.m.tracking, Len(S.fx) < DrawEffects
    PROVE  LET T == Unpull(S)
           IN  /\ Bare(T) /\ Kept(S, T) /\ Same(S, T, {S.m.title} \X Nat)
               /\ T.fx = Append(S.fx, [do |-> "restore", t |-> S.m.title, k |-> 0])
               /\ Len(T.fx) = Len(S.fx) + 1
               /\ \A a \in Apps, u \in Titles : T.marks[a][<<u, 0>>] = S.marks[a][<<u, 0>>]
<1> DEFINE t == S.m.title
           B == RowBack(S)
           e == [do |-> "restore", t |-> t, k |-> 0]
           T == Effect(B, "restore", t, 0)
<1>0. t \in Titles
  BY DEF Good, Worked
<1>1. Unpull(S) = T
  BY DEF Unpull, RowBack
<1>2. /\ Bare(B) /\ Kept(S, B) /\ B.fx = S.fx /\ Same(S, B, {t} \X Nat)
      /\ \A a \in Apps, u \in Titles : B.marks[a][<<u, 0>>] = S.marks[a][<<u, 0>>]
  BY RowBackIs
<1>3. e \in Drawings
  BY <1>0 DEF Drawings
<1> HIDE DEF B
<1>4. /\ Bare(T) /\ Kept(B, T) /\ T.fx = Append(B.fx, e) /\ Len(T.fx) = Len(B.fx) + 1
      /\ T.marks = B.marks /\ T.desk = B.desk /\ Same(B, T, {})
  <2>1. Len(B.fx) < DrawEffects /\ "restore" # "row" /\ e = [do |-> "restore", t |-> t, k |-> 0]
    BY <1>2
  <2> QED BY <1>2, <1>3, <2>1, BareEffect
<1> HIDE DEF T
<1>5. Same(S, T, {t} \X Nat)
  BY <1>2, <1>4, SameJoin
<1>6. Kept(S, T)
  BY <1>2, <1>4 DEF Kept, Rest
<1>7. T.fx = Append(S.fx, e) /\ Len(T.fx) = Len(S.fx) + 1
  BY <1>2, <1>4
<1> QED BY <1>1, <1>2, <1>4, <1>5, <1>6, <1>7

\* With the pull-down painted over, nothing is pulled down.
LEMMA UnpullPaint ==
    ASSUME NEW S, Ground, Good(S), Painting(S), S.m.tracking, NEW T, Rest(S, T),
           T.fx = Append(S.fx, [do |-> "restore", t |-> S.m.title, k |-> 0]),
           Same(S, T, {S.m.title} \X Nat)
    PROVE  screen.refused \/ Paints(T, {}, {})
<1>1. SUFFICES ASSUME ~screen.refused PROVE Paints(T, {}, {})
  OBVIOUS
<1> DEFINE t == S.m.title
           P == Pulled(S)
           R == LitRows(S)
           fx == S.fx
<1>2. S \in Handled /\ t \in Titles /\ S.m.item \in Nat
  BY HandledIs DEF Good, Worked, Managers
<1>3. Paints(S, P, R)
  BY <1>1 DEF Painting
<1>4. P \in SUBSET {t} /\ R \in SUBSET ({t} \X Nat)
  BY <1>2 DEF Pulled, LitRows
<1>5. Drawer(S) /\ T.acc = S.acc
  BY <1>2, HandledDraws DEF Rest
<1>6. fx = S.fx /\ T.fx = Append(fx, [do |-> "restore", t |-> t, k |-> 0]) /\ Same(S, T, {t} \X Nat)
  OBVIOUS
<1> HIDE DEF t, P, R, fx
<1> QED BY <1>2, <1>3, <1>4, <1>5, <1>6, RestorePaint

\* The pull-down is painted over, and its title drawn in this state.
LEMMA UnlitIs ==
    ASSUME NEW S, Ground, Good(S), Painting(S), S.m.tracking, Len(S.fx) + 1 < DrawEffects,
           NEW state \in SUBSET Flags
    PROVE  LET t == S.m.title
               T == Effect(WriteTitle(Unpull(S), t, state), "title", t, 0)
           IN  /\ Bare(T) /\ Kept(S, T) /\ Retitled(S, T, t, state)
               /\ Len(T.fx) <= Len(S.fx) + 2
               /\ screen.refused \/ Paints(T, {}, {})
<1> DEFINE t == S.m.title
           B == Unpull(S)
           W == WriteTitle(B, t, state)
           e == [do |-> "title", t |-> t, k |-> 0]
           T == Effect(W, "title", t, 0)
<1>0. t \in Titles /\ S \in Handled /\ Len(S.fx) \in Nat
  BY HandledDraws DEF Good, Worked
<1>1. /\ Bare(B) /\ Kept(S, B) /\ Same(S, B, {t} \X Nat)
      /\ B.fx = Append(S.fx, [do |-> "restore", t |-> t, k |-> 0])
      /\ Len(B.fx) = Len(S.fx) + 1
      /\ \A a \in Apps, u \in Titles : B.marks[a][<<u, 0>>] = S.marks[a][<<u, 0>>]
  <2>1. Len(S.fx) < DrawEffects
    BY <1>0 DEF DrawEffects
  <2> QED BY <2>1, UnpullIs
<1> HIDE DEF B
<1>2. screen.refused \/ Paints(B, {}, {})
  BY <1>1, UnpullPaint DEF Kept
<1>3. /\ Bare(W) /\ Kept(B, W) /\ W.fx = B.fx
      /\ Same(B, W, {<<t, 0>>}) /\ Retitled(B, W, t, state)
  BY <1>0, <1>1, BareTitle
<1> HIDE DEF W
<1>4. e \in Drawings
  BY <1>0 DEF Drawings
<1>5. /\ Bare(T) /\ Kept(W, T) /\ T.fx = Append(W.fx, e) /\ Len(T.fx) = Len(W.fx) + 1
      /\ T.marks = W.marks /\ T.desk = W.desk /\ Same(W, T, {})
  <2>1. Len(W.fx) < DrawEffects
    BY <1>0, <1>1, <1>3
  <2>2. "title" # "row" /\ e = [do |-> "title", t |-> t, k |-> 0]
    OBVIOUS
  <2> QED BY <1>3, <1>4, <2>1, <2>2, BareEffect
<1> HIDE DEF T
<1>6. Kept(S, T) /\ Kept(B, T)
  BY <1>1, <1>3, <1>5 DEF Kept, Rest
<1>7. Retitled(S, T, t, state)
  <2>1. B.m = S.m /\ T.marks = W.marks
    BY <1>1, <1>5 DEF Kept
  <2>2. ASSUME NEW a \in Apps, NEW u \in Titles
        PROVE  T.marks[a][<<u, 0>>] = IF a = S.m.owner /\ u = t THEN state ELSE S.marks[a][<<u, 0>>]
    <3>1. W.marks[a][<<u, 0>>] = IF a = B.m.owner /\ u = t THEN state ELSE B.marks[a][<<u, 0>>]
      BY <1>3 DEF Retitled
    <3>2. B.marks[a][<<u, 0>>] = S.marks[a][<<u, 0>>]
      BY <1>1
    <3> QED BY <2>1, <3>1, <3>2
  <2> QED BY <2>2 DEF Retitled
<1>8. Len(T.fx) <= Len(S.fx) + 2
  BY <1>0, <1>1, <1>3, <1>5
<1>9. screen.refused \/ Paints(T, {}, {})
  <2>1. Same(B, T, {<<t, 0>>})
    BY <1>3, <1>5, SameJoin
  <2>2. Drawer(B) /\ T.acc = B.acc
    BY <1>1, <1>6, HandledDraws DEF Bare, Kept, Rest
  <2>3. T.fx = Append(B.fx, [do |-> "title", t |-> t, k |-> 0])
    BY <1>3, <1>5
  <2> QED BY <1>0, <1>2, <2>1, <2>2, <2>3, TitlePaint
<1> QED BY <1>5, <1>6, <1>7, <1>8, <1>9 DEF T, W, B, t

\* A message is left.
LEMMA MessageIs ==
    ASSUME NEW S, Bare(S), NEW to, NEW type, NEW t, NEW k, NEW e,
           e = [to |-> to, type |-> type, t |-> t, k |-> k], e \in Notes
    PROVE  LET T == Message(S, to, type, t, k)
           IN  /\ Bare(T) /\ T.m = S.m /\ Rest(S, T) /\ T.fx = S.fx /\ T.marks = S.marks
               /\ T.desk = S.desk /\ T.msg = e
               /\ \A P, R : Paints(S, P, R) => Paints(T, P, R)
<1> DEFINE T == Message(S, to, type, t, k)
<1>0. S \in Handled /\ Clear(S) /\ Drawable(S) /\ S.m.owner \in Apps /\ S.m.owner = S.bar
  BY DEF Bare
<1>1. T = [S EXCEPT !.msg = e]
  BY DEF Message
<1> HIDE DEF T
<1>2. /\ T \in Handled /\ T.m = S.m /\ Rest(S, T) /\ T.fx = S.fx /\ T.marks = S.marks
      /\ T.desk = S.desk /\ T.msg = e
  BY <1>0, <1>1 DEF Handled, Rest
<1>3. Bare(T)
  BY <1>0, <1>2 DEF Bare, Clear, Drawable, RowsOf, Rest
<1>4. \A P, R : Paints(S, P, R) => Paints(T, P, R)
  BY <1>2, MenuPaint
<1> QED BY <1>2, <1>3, <1>4 DEF T

\* Close takes the pull-down away, sets its title back, and leaves it selected
\* only with a message to the owner.
LEMMA CloseIs ==
    ASSUME NEW S, Ground, Good(S), Painting(S), S.m.tracking, Len(S.fx) + 1 < DrawEffects,
           NEW k \in 0 .. RowCount(S)
    PROVE  Closes(S, Close(S, k), k) /\ Len(Close(S, k).fx) <= Len(S.fx) + 2
<1> DEFINE t == S.m.title
           a == S.m.owner
           base == S.m.titleBase
           bare == Unpull(S)
           unlit(state) == Effect(WriteTitle(bare, t, state), "title", t, 0)
           opened == unlit(base \ {"sel"})
           told == Message(opened, S.acc[k - DeskFixed + 1], "open", t, k)
           row == IF InDesk(S) THEN 1 ELSE k
           lit == WriteTitle(bare, t, base \cup {"sel"})
           chosen == Message(lit, a, "selected", t, row)
           done == IF k = 0 THEN unlit(base)
                   ELSE IF InDesk(S) /\ k >= DeskFixed
                   THEN IF k - DeskFixed < Len(S.acc) THEN told ELSE opened
                   ELSE chosen
           T == [done EXCEPT !.m = Idle(@)]
<1>0. /\ S \in Handled /\ t \in Titles /\ a \in Apps /\ base \in SUBSET Flags
      /\ S.m \in Managers /\ Len(S.fx) \in Nat /\ S.acc \in Seq(live) /\ live \subseteq Apps
  <2>1. S \in Handled /\ t \in Titles /\ a \in Apps /\ S.m \in Managers /\ S.acc \in Seq(live)
    BY HandledIs DEF Good, Worked
  <2> QED BY <2>1, HandledDraws DEF Managers, Ground
<1>a. Close(S, k) = T
  BY DEF Close
<1>b. base \ {"sel"} \in SUBSET Flags /\ base \cup {"sel"} \in SUBSET Flags
  BY <1>0 DEF Flags
\* The end of each of the cases.
<1>1. ASSUME NEW D, NEW state, Bare(D), D.m = S.m, Rest(S, D), Len(D.fx) <= Len(S.fx) + 2,
             Retitled(S, D, t, state), screen.refused \/ Paints(D, {}, {}),
             k = 0 => D.msg = S.msg,
             \/ "sel" \notin state
             \/ "sel" \in base
             \/ D.msg # None /\ D.msg.to = a /\ D.msg.type = "selected" /\ D.msg.t = t,
             NEW X, X = [D EXCEPT !.m = Idle(@)]
      PROVE  Closes(S, X, k) /\ Len(X.fx) <= Len(S.fx) + 2
  <2>1. /\ Good(X) /\ Painting(X) /\ X.m = Idle(D.m) /\ Rest(D, X) /\ X.msg = D.msg
        /\ X.fx = D.fx /\ X.marks = D.marks
    BY <1>1, Shut
  <2>2. Rest(S, X) /\ X.m = Idle(S.m)
    BY <1>1, <2>1 DEF Rest
  <2>3. \A b \in Apps, u \in Titles :
           b # a \/ u # t => X.marks[b][<<u, 0>>] = S.marks[b][<<u, 0>>]
    BY <1>1, <2>1 DEF Retitled
  <2>4. X.marks[a][<<t, 0>>] = state
    BY <1>0, <1>1, <2>1 DEF Retitled
  <2> HIDE DEF T, done
  <2> QED BY <1>1, <2>1, <2>2, <2>3, <2>4 DEF Closes
<1> HIDE DEF T
<1>2. CASE k = 0
  <2> DEFINE D == unlit(base)
  <2>1. /\ Bare(D) /\ Kept(S, D) /\ Retitled(S, D, t, base)
        /\ Len(D.fx) <= Len(S.fx) + 2 /\ (screen.refused \/ Paints(D, {}, {}))
    BY <1>0, UnlitIs
  <2>2. T = [D EXCEPT !.m = Idle(@)]
    BY <1>2 DEF T
  <2> HIDE DEF D
  <2>3. D.m = S.m /\ Rest(S, D) /\ D.msg = S.msg
    BY <2>1 DEF Kept
  <2> HIDE DEF base, a, t
  <2>4. "sel" \notin base \/ "sel" \in base
    OBVIOUS
  <2>5. Closes(S, T, k) /\ Len(T.fx) <= Len(S.fx) + 2
    BY <1>1, <2>1, <2>2, <2>3, <2>4
  <2> QED BY <1>a, <2>5
<1>3. CASE k # 0 /\ InDesk(S) /\ k >= DeskFixed
  <2>1. /\ Bare(opened) /\ Kept(S, opened) /\ Retitled(S, opened, t, base \ {"sel"})
        /\ Len(opened.fx) <= Len(S.fx) + 2 /\ (screen.refused \/ Paints(opened, {}, {}))
    BY <1>0, <1>b, UnlitIs
  <2>2. T = [(IF k - DeskFixed < Len(S.acc) THEN told ELSE opened) EXCEPT !.m = Idle(@)]
    BY <1>3 DEF T
  <2>3. opened.m = S.m /\ Rest(S, opened) /\ opened.msg = S.msg /\ "sel" \notin base \ {"sel"}
    BY <2>1 DEF Kept
  <2> DEFINE n == k - DeskFixed + 1
             e == [to |-> S.acc[n], type |-> "open", t |-> t, k |-> k]
  <2>4. CASE k - DeskFixed < Len(S.acc)
    <3>1. e \in Notes
      <4>1. Len(S.acc) \in Nat
        BY <1>0, LenProperties
      <4>2. n \in 1 .. Len(S.acc) /\ k \in Nat
        BY <1>3, <2>4, <4>1 DEF DeskFixed
      <4>3. S.acc[n] \in Apps
        BY <1>0, <4>2
      <4> HIDE DEF n
      <4> QED BY <1>0, <4>2, <4>3 DEF Notes
    <3> HIDE DEF opened
    <3>2. /\ Bare(told) /\ told.m = opened.m /\ Rest(opened, told) /\ told.fx = opened.fx
          /\ told.marks = opened.marks /\ told.desk = opened.desk
          /\ \A P, R : Paints(opened, P, R) => Paints(told, P, R)
      BY <2>1, <3>1, MessageIs
    <3>3. T = [told EXCEPT !.m = Idle(@)]
      BY <2>2, <2>4
    <3> HIDE DEF told
    <3>4. /\ told.m = S.m /\ Rest(S, told) /\ Len(told.fx) <= Len(S.fx) + 2
          /\ Retitled(S, told, t, base \ {"sel"}) /\ (screen.refused \/ Paints(told, {}, {}))
      <4>1. told.m = S.m /\ Len(told.fx) <= Len(S.fx) + 2
        BY <2>1, <2>3, <3>2
      <4>2. Rest(S, told)
        BY <2>3, <3>2 DEF Rest
      <4>3. screen.refused \/ Paints(told, {}, {})
        BY <2>1, <3>2
      <4>4. Retitled(S, told, t, base \ {"sel"})
        <5> DEFINE st == base \ {"sel"}
        <5>1. Retitled(S, opened, t, st) /\ told.marks = opened.marks
          BY <2>1, <3>2
        <5> HIDE DEF st, t
        <5>2. Retitled(S, told, t, st)
          BY ONLY <5>1 DEF Retitled
        <5> QED BY <5>2 DEF st
      <4> QED BY <4>1, <4>2, <4>3, <4>4
    <3> DEFINE st == base \ {"sel"}
    <3>5. "sel" \notin st /\ Retitled(S, told, t, st)
      BY <3>4
    <3> HIDE DEF st, base, a, t
    <3>6. k = 0 => told.msg = S.msg
      BY <1>3
    <3>7. Closes(S, T, k) /\ Len(T.fx) <= Len(S.fx) + 2
      BY <1>1, <3>2, <3>3, <3>4, <3>5, <3>6
    <3> QED BY <1>a, <3>7
  <2>5. CASE ~(k - DeskFixed < Len(S.acc))
    <3>1. T = [opened EXCEPT !.m = Idle(@)]
      BY <2>2, <2>5
    <3> DEFINE st == base \ {"sel"}
    <3>2. "sel" \notin st /\ Retitled(S, opened, t, st)
      BY <2>1
    <3> HIDE DEF opened
    <3> HIDE DEF st, base, a, t
    <3>3. Closes(S, T, k) /\ Len(T.fx) <= Len(S.fx) + 2
      BY <1>1, <2>1, <2>3, <3>1, <3>2
    <3> QED BY <1>a, <3>3
  <2> QED BY <2>4, <2>5
<1>4. CASE k # 0 /\ ~(InDesk(S) /\ k >= DeskFixed)
  <2> DEFINE st == base \cup {"sel"}
             e == [to |-> a, type |-> "selected", t |-> t, k |-> row]
  <2>1. /\ Bare(bare) /\ Kept(S, bare) /\ Same(S, bare, {t} \X Nat)
        /\ bare.fx = Append(S.fx, [do |-> "restore", t |-> t, k |-> 0])
        /\ Len(bare.fx) = Len(S.fx) + 1
        /\ \A b \in Apps, u \in Titles : bare.marks[b][<<u, 0>>] = S.marks[b][<<u, 0>>]
    <3>1. Len(S.fx) < DrawEffects
      BY <1>0 DEF DrawEffects
    <3> QED BY <3>1, UnpullIs
  <2>2. T = [chosen EXCEPT !.m = Idle(@)]
    BY <1>4 DEF T
  <2> HIDE DEF bare
  <2>3. /\ Bare(lit) /\ Kept(bare, lit) /\ lit.fx = bare.fx
        /\ Same(bare, lit, {<<t, 0>>}) /\ Retitled(bare, lit, t, st)
    BY <1>0, <1>b, <2>1, BareTitle
  <2>4. e \in Notes
    <3>1. row \in Nat
      OBVIOUS
    <3> HIDE DEF row
    <3> QED BY <1>0, <3>1 DEF Notes
  <2> HIDE DEF lit, row
  <2>5. /\ Bare(chosen) /\ chosen.m = lit.m /\ Rest(lit, chosen) /\ chosen.fx = lit.fx
        /\ chosen.marks = lit.marks /\ chosen.desk = lit.desk /\ chosen.msg = e
        /\ \A P, R : Paints(lit, P, R) => Paints(chosen, P, R)
    BY <2>3, <2>4, MessageIs
  <2> HIDE DEF chosen
  <2>6. /\ chosen.m = S.m /\ Rest(S, chosen) /\ Len(chosen.fx) <= Len(S.fx) + 2
        /\ Retitled(S, chosen, t, st) /\ Rest(S, lit)
    <3>1. chosen.m = S.m /\ Len(chosen.fx) <= Len(S.fx) + 2 /\ bare.m = S.m
      BY <1>0, <2>1, <2>3, <2>5 DEF Kept
    <3>2. Rest(S, chosen) /\ Rest(S, lit)
      BY <2>1, <2>3, <2>5 DEF Kept, Rest
    <3>3. Retitled(S, chosen, t, st)
      <4>1. ASSUME NEW b \in Apps, NEW u \in Titles
            PROVE  chosen.marks[b][<<u, 0>>] = IF b = S.m.owner /\ u = t THEN st ELSE S.marks[b][<<u, 0>>]
        <5>1. lit.marks[b][<<u, 0>>] = IF b = bare.m.owner /\ u = t THEN st ELSE bare.marks[b][<<u, 0>>]
          BY <2>3 DEF Retitled
        <5>2. bare.marks[b][<<u, 0>>] = S.marks[b][<<u, 0>>] /\ chosen.marks = lit.marks
          BY <2>1, <2>5
        <5> HIDE DEF st, a
        <5> QED BY <3>1, <5>1, <5>2
      <4> HIDE DEF st
      <4> QED BY <4>1 DEF Retitled
    <3> QED BY <3>1, <3>2, <3>3
  <2>7. screen.refused \/ Paints(chosen, {}, {})
    <3>1. Same(S, lit, {t} \X Nat)
      <4>1. {<<t, 0>>} \subseteq {t} \X Nat
        OBVIOUS
      <4> QED BY <2>1, <2>3, <4>1, SameJoin
    <3>2. screen.refused \/ Paints(lit, {}, {})
      BY <2>1, <2>3, <2>6, <3>1, UnpullPaint
    <3> QED BY <2>5, <3>2
  <2>8. chosen.msg # None /\ chosen.msg.to = a /\ chosen.msg.type = "selected" /\ chosen.msg.t = t
    <3>1. chosen.msg.to = a /\ chosen.msg.type = "selected" /\ chosen.msg.t = t
      BY <2>5
    <3>2. None.to = NoApp /\ a # NoApp
      BY <1>0, MenuAssumption DEF None
    <3> QED BY <3>1, <3>2
  <2> HIDE DEF st, base, a, t
  <2>9. k = 0 => chosen.msg = S.msg
    BY <1>4
  <2>10. Closes(S, T, k) /\ Len(T.fx) <= Len(S.fx) + 2
    BY <1>1, <2>2, <2>5, <2>6, <2>7, <2>8, <2>9
  <2> QED BY <1>a, <2>10
<1> QED BY <1>2, <1>3, <1>4

\* The least and the greatest are members, when there is one.
LEMMA LeastIs ==
    ASSUME NEW n \in Nat, NEW E \in SUBSET (1 .. n)
    PROVE  /\ Least(E) \in E \cup {0} /\ Least(E) \in 0 .. n
           /\ Greatest(E) \in E \cup {0} /\ Greatest(E) \in 0 .. n
<1>1. CASE E = {}
  BY <1>1 DEF Least, Greatest
<1>2. CASE E # {}
  <2>1. \E k \in E : \A j \in E : k <= j
    <3>1. E \in SUBSET Nat
      OBVIOUS
    <3>2. IsFiniteSet(E)
      <4>1. IsFiniteSet(1 .. n)
        BY FS_Interval
      <4> QED BY <4>1, FS_Subset
    <3> QED BY <1>2, <3>1, <3>2, LeastMember
  <2>2. \E k \in E : \A j \in E : j <= k
    <3>1. E \in SUBSET (0 .. n)
      OBVIOUS
    <3> QED BY <1>2, <3>1, GreatestMember
  <2>3. Least(E) \in E
    BY <1>2, <2>1 DEF Least
  <2>4. Greatest(E) \in E
    BY <1>2, <2>2 DEF Greatest
  <2>5. \A x \in E : x \in 0 .. n
    OBVIOUS
  <2> QED BY ONLY <2>3, <2>4, <2>5
<1> QED BY <1>1, <1>2

\* The pull-down of another title opens in place of that of old.
Switched(S, T, t) ==
    /\ Good(T) /\ Painting(T) /\ Rest(S, T) /\ T.msg = S.msg
    /\ T.m.tracking /\ T.m.title = t /\ T.m.active = S.m.active /\ T.m.owner = S.m.owner
    /\ T.m.button = S.m.button
    /\ T.m.titleBase = S.marks[S.m.owner][<<t, 0>>]
    /\ T.marks[S.m.owner][<<S.m.title, 0>>] = S.m.titleBase
    /\ \A a \in Apps, u \in Titles :
          a # S.m.owner \/ (u # t /\ u # S.m.title) =>
              T.marks[a][<<u, 0>>] = S.marks[a][<<u, 0>>]

\* SwitchTitle puts the old title back, has its pull-down painted over, and
\* opens the other.
LEMMA SwitchTitleIs ==
    ASSUME NEW S, Ground, Good(S), Painting(S), S.m.tracking, S.fx = <<>>,
           NEW t \in Titles, t # S.m.title, NEW keyboard \in BOOLEAN
    PROVE  LET T == SwitchTitle(S, t, keyboard)
           IN  /\ Switched(S, T, t) /\ Len(T.fx) <= 6
               /\ ~keyboard => Len(T.fx) = 5 /\ T.m.item = 0
<1> DEFINE old == S.m.title
           a == S.m.owner
           base == S.m.titleBase
           B == RowBack(S)
           W == WriteTitle(B, old, base)
           e1 == [do |-> "title", t |-> old, k |-> 0]
           e2 == [do |-> "restore", t |-> old, k |-> 0]
           dark == Effect(W, "title", old, 0)
           R == Effect(dark, "restore", old, 0)
           gone == [R EXCEPT !.m = Idle(@)]
           open == OpenTitle(gone, t, FALSE)
           k == Least(EnabledRows(open))
           T == IF keyboard THEN SetItem(open, k) ELSE open
<1>0. /\ S \in Handled /\ old \in Titles /\ a \in Apps /\ base \in SUBSET Flags /\ S.m.active
      /\ S.m \in Managers /\ t # 0
  <2>1. S \in Handled /\ old \in Titles /\ a \in Apps /\ S.m.active
    BY DEF Good, Worked
  <2>2. S.m \in Managers
    BY <2>1, HandledIs
  <2>3. t # 0
    BY DEF Titles
  <2> QED BY <2>1, <2>2, <2>3 DEF Managers
<1>a. SwitchTitle(S, t, keyboard) = T
  BY <1>0 DEF SwitchTitle, RowBack
<1> HIDE DEF T
<1>1. /\ Bare(B) /\ Kept(S, B) /\ B.fx = S.fx /\ Same(S, B, {old} \X Nat)
      /\ \A b \in Apps, u \in Titles : B.marks[b][<<u, 0>>] = S.marks[b][<<u, 0>>]
  BY RowBackIs
<1> HIDE DEF B
<1>2. /\ Bare(W) /\ Kept(B, W) /\ W.fx = B.fx
      /\ Same(B, W, {<<old, 0>>}) /\ Retitled(B, W, old, base)
  BY <1>0, <1>1, BareTitle
<1> HIDE DEF W
<1>3. e1 \in Drawings /\ e2 \in Drawings
  BY <1>0 DEF Drawings
<1>4. /\ Bare(dark) /\ Kept(W, dark) /\ dark.fx = Append(W.fx, e1) /\ Len(dark.fx) = Len(W.fx) + 1
      /\ dark.marks = W.marks /\ dark.desk = W.desk /\ Same(W, dark, {})
  <2>1. Len(W.fx) < DrawEffects
    BY <1>1, <1>2 DEF DrawEffects
  <2>2. "title" # "row" /\ e1 = [do |-> "title", t |-> old, k |-> 0]
    OBVIOUS
  <2> QED BY <1>2, <1>3, <2>1, <2>2, BareEffect
<1>5. Len(dark.fx) = 1
  BY <1>1, <1>2, <1>4
<1> HIDE DEF dark
<1>6. /\ Bare(R) /\ Kept(dark, R) /\ R.fx = Append(dark.fx, e2) /\ Len(R.fx) = Len(dark.fx) + 1
      /\ R.marks = dark.marks /\ R.desk = dark.desk /\ Same(dark, R, {})
  <2>1. Len(dark.fx) < DrawEffects
    BY <1>5 DEF DrawEffects
  <2>2. "restore" # "row" /\ e2 = [do |-> "restore", t |-> old, k |-> 0]
    OBVIOUS
  <2> QED BY <1>3, <1>4, <2>1, <2>2, BareEffect
<1> HIDE DEF R
<1>7. Len(R.fx) = 2
  BY <1>5, <1>6
<1>8. Kept(S, R)
  BY <1>1, <1>2, <1>4, <1>6 DEF Kept, Rest
<1>9. Same(S, R, {old} \X Nat)
  <2>1. {<<old, 0>>} \subseteq {old} \X Nat
    OBVIOUS
  <2>2. Same(S, W, {old} \X Nat)
    BY <1>1, <1>2, <2>1, SameJoin
  <2>3. Same(S, dark, {old} \X Nat)
    BY <1>4, <2>2, SameJoin
  <2> QED BY <1>6, <2>3, SameJoin
<1>10. \A b \in Apps, u \in Titles :
          R.marks[b][<<u, 0>>] = IF b = a /\ u = old THEN base ELSE S.marks[b][<<u, 0>>]
  <2>1. R.marks = W.marks /\ B.m = S.m
    BY <1>1, <1>4, <1>6 DEF Kept
  <2>2. ASSUME NEW b \in Apps, NEW u \in Titles
        PROVE  R.marks[b][<<u, 0>>] = IF b = a /\ u = old THEN base ELSE S.marks[b][<<u, 0>>]
    <3>1. W.marks[b][<<u, 0>>] = IF b = B.m.owner /\ u = old THEN base ELSE B.marks[b][<<u, 0>>]
      BY <1>2 DEF Retitled
    <3> QED BY <1>1, <2>1, <3>1
  <2> QED BY <2>2
<1>11. screen.refused \/ Paints(R, {}, {})
  <2>1. SUFFICES ASSUME ~screen.refused PROVE Paints(R, {}, {})
    OBVIOUS
  <2> DEFINE P == Pulled(S)
             L == LitRows(S)
             fx == Append(S.fx, e1)
  <2>2. Paints(S, P, L)
    BY <2>1 DEF Painting
  <2>3. P \in SUBSET {old} /\ L \in SUBSET ({old} \X Nat)
    BY <1>0 DEF Pulled, LitRows, Managers
  <2>4. Drawer(S) /\ R.acc = S.acc
    BY <1>0, <1>8, HandledDraws DEF Kept, Rest
  <2>5. fx = Append(S.fx, [do |-> "title", t |-> old, k |-> 0])
        /\ R.fx = Append(fx, [do |-> "restore", t |-> old, k |-> 0])
    BY <1>1, <1>2, <1>4, <1>6
  <2> HIDE DEF P, L, fx, old
  <2>6. R.fx = Append(Append(S.fx, [do |-> "title", t |-> old, k |-> 0]),
                      [do |-> "restore", t |-> old, k |-> 0])
    BY <2>5
  <2>7. old \in Titles
    BY <1>0
  <2> QED BY ONLY <1>9, <2>2, <2>3, <2>4, <2>6, <2>7, RestorePaint
<1>12. gone = [R EXCEPT !.m = Idle(@)]
  OBVIOUS
<1> HIDE DEF gone
<1>13. /\ Good(gone) /\ Painting(gone) /\ gone.m = Idle(R.m) /\ Rest(R, gone) /\ gone.msg = R.msg
       /\ gone.fx = R.fx /\ gone.marks = R.marks
  BY <1>6, <1>11, <1>12, Shut
<1>14. /\ gone.m.active /\ ~gone.m.tracking /\ gone.m.owner = a /\ gone.m.button = S.m.button
       /\ gone.m \in Managers
  <2>1. gone.m = Idle(S.m)
    BY <1>8, <1>13 DEF Kept
  <2> DEFINE x == S.m
             i == Idle(x)
  <2>2. x \in Managers
    BY <1>0
  <2>3. gone.m = i /\ x.active /\ a = x.owner
    BY <1>0, <2>1
  <2> HIDE DEF x
  <2>4. i \in Managers /\ ~i.tracking /\ i.active = x.active /\ i.owner = x.owner /\ i.button = x.button
    BY <2>2, IdleIs
  <2> HIDE DEF i
  <2> QED BY <2>3, <2>4 DEF x
<1>15. NoRows(gone)
  <2>1. NoRows(S)
    BY DEF NoRows
  <2>2. B \in Handled /\ NoRows(W) /\ W \in Handled
    BY <1>1, <1>2, <2>1 DEF NoRows, Bare
  <2>3. e1.do # "row" /\ e2.do # "row" /\ dark \in Handled
    BY <1>4 DEF Bare
  <2> HIDE DEF e1, e2
  <2>4. NoRows(dark)
    BY <1>4, <2>2, <2>3, NoRowsMore
  <2>5. NoRows(R)
    BY <1>6, <2>3, <2>4, NoRowsMore
  <2> QED BY <1>13, <2>5 DEF NoRows
<1>16. Opens(gone, open, t, FALSE) /\ Len(open.fx) = 5
  <2>1. Len(gone.fx) = 2
    BY <1>7, <1>13
  <2>2. Len(gone.fx) + 2 < DrawEffects
    BY <2>1 DEF DrawEffects
  <2>3. Opens(gone, open, t, FALSE) /\ Len(open.fx) = Len(gone.fx) + 3
    <3>1. FALSE \in BOOLEAN
      OBVIOUS
    <3> QED BY <1>13, <1>14, <1>15, <2>2, <3>1, OpenTitleIs
  <2> HIDE DEF open, gone
  <2>4. Len(open.fx) = 5
    BY <2>1, <2>3
  <2>5. Opens(gone, open, t, FALSE)
    BY ONLY <2>3
  <2> QED BY ONLY <2>4, <2>5
<1> HIDE DEF open
<1>17. Switched(S, open, t) /\ open.m.item = 0
  <2> DEFINE st == TitleState(gone, t)
  <2>1. /\ Good(open) /\ Painting(open) /\ Rest(gone, open) /\ open.msg = gone.msg
        /\ open.m = Opened(gone.m, t, FALSE, st)
        /\ \A b \in Apps, u \in Titles :
              b # gone.m.owner \/ u # t => open.marks[b][<<u, 0>>] = gone.marks[b][<<u, 0>>]
    BY <1>16 DEF Opens
  <2>2. st = S.marks[a][<<t, 0>>]
    BY <1>0, <1>10, <1>13, <1>14 DEF TitleState
  <2>3. st \in SUBSET Flags
    BY <1>0, <2>2, HandledIs, ObjectsIs DEF Trees
  <2> DEFINE g == gone.m
             M == open.m
             d == FALSE
  <2>4. g \in Managers /\ M = Opened(g, t, d, st) /\ d \in BOOLEAN
    BY <1>14, <2>1
  <2> HIDE DEF g, M, st, d
  <2>5. /\ M \in Managers /\ M.tracking /\ M.title = t /\ M.titleBase = st
        /\ M.active = g.active /\ M.owner = g.owner /\ M.button = g.button
        /\ M.item = 0
    BY ONLY <2>3, <2>4, t \in Titles, OpenedIs
  <2>6. Rest(S, open) /\ open.msg = S.msg
    BY <1>8, <1>13, <2>1 DEF Kept, Rest
  <2>7. open.marks[a][<<old, 0>>] = base
    <3>1. open.marks[a][<<old, 0>>] = gone.marks[a][<<old, 0>>]
      BY <1>0, <2>1
    <3> QED BY <1>0, <1>10, <1>13, <3>1
  <2>8. ASSUME NEW b \in Apps, NEW u \in Titles, b # a \/ (u # t /\ u # old)
        PROVE  open.marks[b][<<u, 0>>] = S.marks[b][<<u, 0>>]
    <3>1. open.marks[b][<<u, 0>>] = gone.marks[b][<<u, 0>>]
      BY <1>14, <2>1, <2>8
    <3> QED BY <1>10, <1>13, <2>8, <3>1
  <2>9. M.active = S.m.active /\ M.owner = a /\ M.button = S.m.button
    BY <1>0, <1>14, <2>5 DEF g
  <2> QED BY <2>1, <2>2, <2>5, <2>6, <2>7, <2>8, <2>9 DEF Switched, M
<1>18. CASE ~keyboard
  <2>1. T = open
    BY <1>18 DEF T
  <2>2. SwitchTitle(S, t, keyboard) = open
    BY <1>a, <2>1
  <2>3. Len(open.fx) = 5 /\ Len(open.fx) <= 6 /\ open.m.item = 0 /\ Switched(S, open, t)
    BY <1>16, <1>17
  <2> QED BY ONLY <2>2, <2>3
<1>19. CASE keyboard
  <2>1. T = SetItem(open, k)
    BY <1>19 DEF T
  <2>2. Good(open) /\ Painting(open) /\ open.m.tracking /\ open.m.title = t /\ open.m.owner = a
    BY <1>17 DEF Switched
  <2>3. k \in 0 .. RowCount(open)
    <3>1. RowCount(open) \in Nat
      <4>1. Len(open.desk) \in Nat /\ Rows[t] \in Nat
        BY <2>2, HandledIs, LenProperties, ObjectsIs DEF Good
      <4> QED BY <2>2, <4>1 DEF RowCount
    <3>2. EnabledRows(open) \in SUBSET (1 .. RowCount(open))
      BY DEF EnabledRows
    <3> QED BY <3>1, <3>2, LeastIs
  <2>4. Turned(open, SetItem(open, k), k) /\ Len(SetItem(open, k).fx) <= 6
    <3> HIDE DEF k
    <3>1. Len(open.fx) + 1 < DrawEffects
      BY <1>16 DEF DrawEffects
    <3>2. Turned(open, SetItem(open, k), k) /\ (open.m.item = 0 => Len(SetItem(open, k).fx) <= Len(open.fx) + 1)
      BY <2>2, <2>3, <3>1, SetItemIs
    <3> QED BY <1>16, <1>17, <3>2
  <2> HIDE DEF k
  <2> DEFINE U == SetItem(open, k)
  <2>5. /\ Good(U) /\ Painting(U) /\ Steady(open, U)
        /\ U.m = AtRow(open.m, k, U.m.itemBase)
    BY <2>4 DEF Turned
  <2>6. /\ U.m.tracking = open.m.tracking /\ U.m.title = open.m.title /\ U.m.active = open.m.active
        /\ U.m.owner = open.m.owner /\ U.m.button = open.m.button
        /\ U.m.titleBase = open.m.titleBase
    <3> DEFINE x == open.m
               y == U.m.itemBase
               z == U.m
    <3>1. x \in Managers
      BY <2>2, HandledIs DEF Good
    <3>2. y \in SUBSET Flags
      BY <2>5, HandledIs DEF Good, Managers
    <3>3. k \in Nat /\ z = AtRow(x, k, y)
      <4>1. z = AtRow(x, k, y)
        BY <2>5
      <4> QED BY <2>3, <4>1
    <3> HIDE DEF x, y, z
    <3>4. /\ z.tracking = x.tracking /\ z.title = x.title /\ z.active = x.active
          /\ z.owner = x.owner /\ z.button = x.button /\ z.titleBase = x.titleBase
      BY ONLY <3>1, <3>2, <3>3, AtRowIs
    <3> QED BY <3>4 DEF x, z
  <2> HIDE DEF U
  <2>7. Switched(S, U, t)
    <3>1. Rest(S, U) /\ U.msg = S.msg
      BY <1>17, <2>5 DEF Switched, Steady, Rest
    <3>2. \A b \in Apps, u \in Titles : U.marks[b][<<u, 0>>] = open.marks[b][<<u, 0>>]
      BY <2>5 DEF Steady
    <3>3. U.marks[a][<<old, 0>>] = base
      BY <1>0, <1>17, <3>2 DEF Switched
    <3>4. \A b \in Apps, u \in Titles :
             b # a \/ (u # t /\ u # old) => U.marks[b][<<u, 0>>] = S.marks[b][<<u, 0>>]
      BY <1>17, <3>2 DEF Switched
    <3>5. /\ U.m.tracking /\ U.m.title = t /\ U.m.active = S.m.active /\ U.m.owner = a
          /\ U.m.button = S.m.button /\ U.m.titleBase = S.marks[a][<<t, 0>>]
      BY <1>17, <2>6 DEF Switched
    <3> QED BY <2>5, <3>1, <3>3, <3>4, <3>5 DEF Switched
  <2> QED BY <1>a, <1>19, <2>1, <2>4, <2>7 DEF U
<1> QED BY <1>18, <1>19

\* The owner has been told of title t, when it is left selected that was not
\* selected before its pull-down opened.
Told(S, t) ==
    /\ S.m.tracking /\ S.m.title = t => "sel" \notin S.m.titleBase
    /\ ~(S.m.tracking /\ S.m.title = t) =>
         \/ "sel" \notin S.marks[S.m.owner][<<t, 0>>]
         \/ /\ S.msg # None /\ S.msg.to = S.m.owner
            /\ S.msg.type = "selected" /\ S.msg.t = t

\* What every step of the manager does.
Stepped(S, T) ==
    /\ Good(T) /\ Painting(T) /\ Rest(S, T)
    /\ T.m.owner = S.m.owner /\ T.m.active = S.m.active
    /\ \A t \in Titles : Told(S, t) => Told(T, t)

\* Steps one after the other.
LEMMA SteppedJoin ==
    ASSUME NEW S, NEW T, NEW U, Stepped(S, T), Stepped(T, U)
    PROVE  Stepped(S, U)
BY DEF Stepped, Rest

\* No step.
LEMMA SteppedSame ==
    ASSUME NEW S, Good(S), Painting(S)
    PROVE  Stepped(S, S)
BY DEF Stepped, Rest

\* A move of the highlight is a step.
LEMMA TurnedStep ==
    ASSUME NEW S, Good(S), NEW k \in Nat, NEW T, Turned(S, T, k), S.m.tracking
    PROVE  /\ Stepped(S, T) /\ T.m.tracking /\ T.m.title = S.m.title /\ T.m.item = k
           /\ T.msg = S.msg
<1> DEFINE x == S.m
           z == T.m
           b == T.m.itemBase
<1>1. /\ Good(T) /\ Painting(T) /\ Steady(S, T) /\ z = AtRow(x, k, b)
  BY DEF Turned
<1>2. x \in Managers /\ b \in SUBSET Flags
  BY <1>1, HandledIs DEF Good, Managers
<1> HIDE DEF x, z, b
<1>3. /\ z.tracking = x.tracking /\ z.title = x.title /\ z.active = x.active
      /\ z.owner = x.owner /\ z.titleBase = x.titleBase /\ z.item = k
  BY ONLY <1>1, <1>2, k \in Nat, AtRowIs
<1>4. S.m.owner \in Apps /\ x.tracking /\ x.owner \in Apps
  BY DEF Good, Worked, x
<1>5. \A a \in Apps, t \in Titles : T.marks[a][<<t, 0>>] = S.marks[a][<<t, 0>>]
  BY <1>1 DEF Steady
<1>6. Rest(S, T) /\ T.msg = S.msg
  BY <1>1 DEF Steady
<1>7. ASSUME NEW t \in Titles, Told(S, t) PROVE Told(T, t)
  <2>1. T.marks[x.owner][<<t, 0>>] = S.marks[x.owner][<<t, 0>>]
    BY <1>4, <1>5
  <2> QED BY <1>3, <1>4, <1>6, <1>7, <2>1 DEF Told, x, z
<1>8. Stepped(S, T)
  BY <1>1, <1>3, <1>6, <1>7 DEF Stepped, x, z
<1> QED BY <1>3, <1>4, <1>6, <1>8 DEF x, z

\* Another pull-down instead of the open one is a step.
LEMMA SwitchedStep ==
    ASSUME NEW S, Good(S), NEW t \in Titles, NEW T, Switched(S, T, t), S.m.tracking,
           t # S.m.title, S.msg = None
    PROVE  Stepped(S, T) /\ T.m.tracking /\ T.m.title = t /\ T.msg = None
<1>1. S.m.owner \in Apps /\ S.m.title \in Titles
  BY DEF Good, Worked
<1>2. /\ Good(T) /\ Painting(T) /\ Rest(S, T) /\ T.msg = S.msg
      /\ T.m.tracking /\ T.m.title = t /\ T.m.active = S.m.active /\ T.m.owner = S.m.owner
      /\ T.m.titleBase = S.marks[S.m.owner][<<t, 0>>]
      /\ T.marks[S.m.owner][<<S.m.title, 0>>] = S.m.titleBase
      /\ \A u \in Titles : u # t /\ u # S.m.title =>
              T.marks[S.m.owner][<<u, 0>>] = S.marks[S.m.owner][<<u, 0>>]
  BY <1>1 DEF Switched
<1>3. ASSUME NEW u \in Titles, Told(S, u) PROVE Told(T, u)
  <2>1. CASE u = t
    <3>1. "sel" \notin S.marks[S.m.owner][<<u, 0>>]
      BY <1>3, <2>1 DEF Told
    <3> QED BY <1>2, <2>1, <3>1 DEF Told
  <2>2. CASE u = S.m.title
    <3>1. "sel" \notin S.m.titleBase
      BY <1>3, <2>2 DEF Told
    <3> QED BY <1>2, <2>2, <3>1 DEF Told
  <2>3. CASE u # t /\ u # S.m.title
    <3>1. "sel" \notin S.marks[S.m.owner][<<u, 0>>]
      BY <1>3, <2>3 DEF Told
    <3> QED BY <1>2, <2>3, <3>1 DEF Told
  <2> QED BY <2>1, <2>2, <2>3
<1> QED BY <1>2, <1>3 DEF Stepped

\* The first pull-down is a step.
LEMMA OpensStep ==
    ASSUME NEW S, Good(S), NEW t \in Titles, NEW drag, drag \in BOOLEAN, NEW T,
           Opens(S, T, t, drag), S.m.active, ~S.m.tracking, S.msg = None
    PROVE  /\ Stepped(S, T) /\ T.m.tracking /\ T.m.title = t /\ T.m.item = 0 /\ T.msg = None
           /\ T.m.button = S.m.button
<1> DEFINE x == S.m
           z == T.m
           b == TitleState(S, t)
<1>1. /\ S \in Handled /\ S.m.owner \in Apps /\ x \in Managers
      /\ z = Opened(x, t, drag, b) /\ b = S.marks[S.m.owner][<<t, 0>>]
  BY HandledIs DEF Good, Worked, Opens, TitleState
<1>2. b \in SUBSET Flags
  BY <1>1, HandledIs, ObjectsIs DEF Trees
<1> HIDE DEF x, z, b
<1>3. /\ z.tracking /\ z.title = t /\ z.titleBase = b
      /\ z.active = x.active /\ z.owner = x.owner /\ z.item = 0 /\ z.button = x.button
  BY ONLY <1>1, <1>2, t \in Titles, drag \in BOOLEAN, OpenedIs
<1>4. /\ Good(T) /\ Painting(T) /\ Rest(S, T) /\ T.msg = S.msg
      /\ \A u \in Titles : u # t => T.marks[S.m.owner][<<u, 0>>] = S.marks[S.m.owner][<<u, 0>>]
  BY <1>1 DEF Opens
<1>5. ASSUME NEW u \in Titles, Told(S, u) PROVE Told(T, u)
  <2>1. "sel" \notin S.marks[S.m.owner][<<u, 0>>]
    BY <1>5 DEF Told
  <2>2. CASE u = t
    BY <1>1, <1>3, <2>1, <2>2 DEF Told, x, z
  <2>3. CASE u # t
    BY <1>1, <1>3, <1>4, <2>1, <2>3 DEF Told, x, z
  <2> QED BY <2>2, <2>3
<1>6. Stepped(S, T)
  BY <1>3, <1>4, <1>5 DEF Stepped, x, z
<1> QED BY <1>3, <1>4, <1>6 DEF x, z

\* The end of a pull-down is a step.
LEMMA ClosesStep ==
    ASSUME NEW S, Good(S), NEW k, NEW T, Closes(S, T, k), S.m.tracking, S.msg = None
    PROVE  Stepped(S, T) /\ ~T.m.tracking /\ (k = 0 => T.msg = None)
<1> DEFINE x == S.m
           z == T.m
           t == S.m.title
<1>1. /\ S.m.owner \in Apps /\ t \in Titles /\ x \in Managers /\ z = Idle(x)
  BY HandledIs DEF Good, Worked, Closes
<1> HIDE DEF x, z
<1>2. ~z.tracking /\ z.active = x.active /\ z.owner = x.owner
  BY <1>1, IdleIs
<1>3. /\ Good(T) /\ Painting(T) /\ Rest(S, T) /\ (k = 0 => T.msg = S.msg)
      /\ \A u \in Titles : u # t => T.marks[S.m.owner][<<u, 0>>] = S.marks[S.m.owner][<<u, 0>>]
      /\ \/ "sel" \notin T.marks[S.m.owner][<<t, 0>>]
         \/ "sel" \in S.m.titleBase
         \/ T.msg # None /\ T.msg.to = S.m.owner /\ T.msg.type = "selected" /\ T.msg.t = t
  BY <1>1 DEF Closes
<1>4. ASSUME NEW u \in Titles, Told(S, u) PROVE Told(T, u)
  <2>1. CASE u = t
    BY <1>2, <1>3, <1>4, <2>1 DEF Told, x, z
  <2>2. CASE u # t
    <3>1. "sel" \notin S.marks[S.m.owner][<<u, 0>>]
      BY <1>4, <2>2 DEF Told
    <3> QED BY <1>2, <1>3, <2>2, <3>1 DEF Told, x, z
  <2> QED BY <2>1, <2>2
<1>5. Stepped(S, T)
  BY <1>2, <1>3, <1>4 DEF Stepped, x, z
<1> QED BY <1>2, <1>3, <1>5 DEF z

\* Two menus with the same pull-down and highlight.
Tracks(m, n) ==
    /\ n.active = m.active /\ n.owner = m.owner /\ n.tracking = m.tracking
    /\ n.title = m.title /\ n.item = m.item
    /\ n.titleBase = m.titleBase /\ n.itemBase = m.itemBase

\* The buttons and the way a pull-down is held open do not matter.
LEMMA TracksStep ==
    ASSUME NEW S, Good(S), Painting(S), NEW m \in Managers, Tracks(S.m, m), NEW T,
           T = [S EXCEPT !.m = m]
    PROVE  Stepped(S, T) /\ T.m = m /\ T.fx = S.fx /\ T.msg = S.msg /\ RowCount(T) = RowCount(S)
<1>0. S \in Handled /\ Worked(S) /\ Lit(S) /\ Drawable(S)
  BY DEF Good
<1>1. /\ T \in Handled /\ T.m = m /\ T.marks = S.marks /\ T.desk = S.desk
      /\ Rest(S, T) /\ T.msg = S.msg /\ T.fx = S.fx
  BY ONLY <1>0, m \in Managers, T = [S EXCEPT !.m = m], MenuIs
<1>2. /\ m.active = S.m.active /\ m.owner = S.m.owner /\ m.tracking = S.m.tracking
      /\ m.title = S.m.title /\ m.item = S.m.item
      /\ m.titleBase = S.m.titleBase /\ m.itemBase = S.m.itemBase
  BY DEF Tracks
<1>3. RowCount(T) = RowCount(S) /\ (InDesk(T) <=> InDesk(S))
  BY <1>1, <1>2, RowsAre
<1>4. Worked(T)
  BY <1>0, <1>1, <1>2, <1>3 DEF Worked, Rest
<1>5. Lit(T)
  <2>1. \A o : Tracked(T, o) <=> Tracked(S, o)
    BY <1>1, <1>2 DEF Tracked
  <2>2. S.m.tracking /\ S.m.item # 0 => "sel" \in RowState(T, T.m.item)
    <3>1. RowState(T, T.m.item) = RowState(S, S.m.item)
      BY <1>1, <1>2 DEF RowState, InDesk
    <3> QED BY <1>0, <3>1 DEF Lit
  <2> QED BY <1>0, <1>1, <1>2, <2>1, <2>2 DEF Lit
<1>6. Drawable(T)
  BY <1>0, <1>1 DEF Drawable, RowsOf
<1>7. Painting(T)
  <2>1. Pulled(T) = Pulled(S) /\ LitRows(T) = LitRows(S)
    BY <1>1, <1>2 DEF Pulled, LitRows
  <2> QED BY <1>1, <2>1, MenuPaint DEF Painting
<1>8. \A t \in Titles : Told(S, t) => Told(T, t)
  BY <1>1, <1>2 DEF Told
<1>9. Stepped(S, T)
  BY <1>1, <1>2, <1>4, <1>5, <1>6, <1>7, <1>8 DEF Stepped, Good
<1> QED BY <1>1, <1>3, <1>9

\* The list of numbers of rows is that of some numbers.
LEMMA RowCountIs ==
    ASSUME NEW S, Good(S), S.m.tracking
    PROVE  /\ RowCount(S) \in Nat /\ S.m.title \in Titles /\ S.m.owner \in Apps
           /\ S.m.item \in 0 .. RowCount(S) /\ S.m \in Managers /\ Len(S.fx) \in Nat
           /\ EnabledRows(S) \in SUBSET (1 .. RowCount(S))
<1>1. S \in Handled /\ S.m.title \in Titles /\ S.m.owner \in Apps /\ S.m.item \in 0 .. RowCount(S)
  BY DEF Good, Worked
<1>2. Len(S.desk) \in Nat /\ Rows[S.m.title] \in Nat /\ Len(S.fx) \in Nat /\ S.m \in Managers
  BY <1>1, HandledIs, LenProperties, ObjectsIs
<1>3. RowCount(S) \in Nat
  BY <1>2 DEF RowCount
<1> QED BY <1>1, <1>2, <1>3 DEF EnabledRows

\* The sample that is pressed at a row, or beside.
LEMMA ArmedIs ==
    ASSUME NEW S, Good(S), Painting(S), NEW item \in Nat, NEW outside, outside \in BOOLEAN,
           NEW T, T = [S EXCEPT !.m.armed = item, !.m.outside = outside]
    PROVE  Stepped(S, T) /\ Tracks(S.m, T.m) /\ T.fx = S.fx /\ T.msg = S.msg /\ RowCount(T) = RowCount(S)
<1> DEFINE x == S.m
           m == [x EXCEPT !.armed = item, !.outside = outside]
<1>1. x \in Managers
  BY HandledIs DEF Good
<1>2. T = [S EXCEPT !.m = m]
  BY HandledIs DEF Good
<1> HIDE DEF x
<1>3. m \in Managers /\ Tracks(x, m)
  BY <1>1 DEF Managers, Tracks
<1> HIDE DEF m
<1>4. Tracks(S.m, m)
  BY <1>3 DEF x
<1>5. Stepped(S, T) /\ T.m = m /\ T.fx = S.fx /\ T.msg = S.msg /\ RowCount(T) = RowCount(S)
  BY ONLY Good(S), Painting(S), <1>2, <1>3, <1>4, TracksStep
<1> QED BY <1>4, <1>5

\* The sample that lets go.
LEMMA LetGoIs ==
    ASSUME NEW S, Good(S), Painting(S), NEW latched, latched \in BOOLEAN,
           NEW T, T = [S EXCEPT !.m.drag = FALSE, !.m.armed = 0, !.m.outside = FALSE,
                                !.m.latched = latched]
    PROVE  Stepped(S, T) /\ Tracks(S.m, T.m) /\ T.fx = S.fx /\ T.msg = S.msg /\ RowCount(T) = RowCount(S)
<1> DEFINE x == S.m
           m == [x EXCEPT !.drag = FALSE, !.armed = 0, !.outside = FALSE, !.latched = latched]
<1>1. x \in Managers
  BY HandledIs DEF Good
<1>2. T = [S EXCEPT !.m = m]
  BY HandledIs DEF Good
<1> HIDE DEF x
<1>3. m \in Managers /\ Tracks(x, m)
  BY <1>1 DEF Managers, Tracks
<1> HIDE DEF m
<1>4. Tracks(S.m, m)
  BY <1>3 DEF x
<1>5. Stepped(S, T) /\ T.m = m /\ T.fx = S.fx /\ T.msg = S.msg /\ RowCount(T) = RowCount(S)
  BY ONLY Good(S), Painting(S), <1>2, <1>3, <1>4, TracksStep
<1> QED BY <1>4, <1>5

\* A step that leaves no message and goes on.
Going(S) == Good(S) /\ Painting(S) /\ S.m.tracking /\ S.msg = None

\* A pull-down that closes after some steps.
LEMMA ClosedAfter ==
    ASSUME NEW S, NEW T, Ground, Stepped(S, T), Going(T), Len(T.fx) + 1 < DrawEffects,
           NEW k \in 0 .. RowCount(T)
    PROVE  Stepped(S, Close(T, k)) /\ ~Close(T, k).m.tracking
<1>1. Good(T) /\ Painting(T) /\ T.m.tracking /\ T.msg = None
  BY DEF Going
<1>2. Closes(T, Close(T, k), k)
  BY <1>1, CloseIs
<1>3. Stepped(T, Close(T, k)) /\ ~Close(T, k).m.tracking
  BY <1>1, <1>2, ClosesStep
<1> QED BY <1>3, SteppedJoin

\* MouseTracking is a step: the sample moves to another title or row, arms
\* what it presses, or closes the pull-down.
LEMMA MouseTrackingIs ==
    ASSUME NEW S, Ground, Going(S), NEW p, NEW down \in BOOLEAN, NEW pressed \in BOOLEAN,
           NEW released \in BOOLEAN, NEW justOpened \in BOOLEAN,
           TitleAt(S, p) \in Titles \cup {0}, p.at = "row" => p.k \in Nat,
           Len(S.fx) <= 3, S.fx = <<>> \/ TitleAt(S, p) \in {0, S.m.title}
    PROVE  Stepped(S, MouseTracking(S, p, down, pressed, released, justOpened))
<1> DEFINE title == TitleAt(S, p)
           moved == IF title = 0 THEN S ELSE SwitchTitle(S, title, FALSE)
           item == RowAt(moved, p)
           lit == SetItem(moved, item)
           within == InPull(lit, p)
           outside == item = 0 /\ title = 0 /\ ~within
           armed == IF pressed /\ ~justOpened
                    THEN [lit EXCEPT !.m.armed = item, !.m.outside = outside]
                    ELSE lit
           picked == item # 0 /\ (armed.m.drag \/ armed.m.armed = item)
           stays == title # 0 \/ within
           left == armed.m.outside \/ armed.m.armed # 0
           latched == armed.m.latched \/ stays
           let_go == [armed EXCEPT !.m.drag = FALSE, !.m.armed = 0,
                         !.m.outside = FALSE, !.m.latched = latched]
           last == IF released THEN let_go ELSE armed
           T == IF released /\ picked THEN Close(armed, item)
                ELSE IF released /\ ~stays /\ left THEN Close(armed, 0)
                ELSE IF ~down /\ ~last.m.latched /\ ~last.m.drag /\ title = 0
                        /\ item = 0 /\ ~within
                THEN Close(last, 0)
                ELSE last
<1>a. MouseTracking(S, p, down, pressed, released, justOpened) = T
  BY DEF MouseTracking
<1>0. Good(S) /\ Painting(S) /\ S.m.tracking /\ S.msg = None
  BY DEF Going
<1>1. title # 0 => p.at = "title"
  BY DEF TitleAt
<1> HIDE DEF T
<1>2. /\ Stepped(S, moved) /\ Going(moved)
      /\ title = 0 => Len(moved.fx) <= 3
      /\ title # 0 /\ moved # S => Len(moved.fx) = 5 /\ moved.m.item = 0
      /\ moved = S => Len(moved.fx) <= 3
  <2>1. CASE title = 0 \/ title = S.m.title
    <3>1. moved = S
      BY <2>1 DEF SwitchTitle
    <3> HIDE DEF moved
    <3> QED BY <1>0, <3>1, SteppedSame
  <2>2. CASE title # 0 /\ title # S.m.title
    <3> DEFINE d == FALSE
               X == SwitchTitle(S, title, d)
    <3>1. moved = X
      BY <2>2
    <3>2. title \in Titles /\ S.fx = <<>> /\ title # S.m.title /\ d \in BOOLEAN /\ ~d
      BY <2>2
    <3> HIDE DEF title, d
    <3>3. Switched(S, X, title) /\ Len(X.fx) = 5 /\ X.m.item = 0
      BY <1>0, <3>2, SwitchTitleIs
    <3> HIDE DEF X, moved
    <3>4. Stepped(S, X) /\ X.m.tracking /\ X.msg = None
      BY <1>0, <3>2, <3>3, SwitchedStep
    <3>5. Good(X) /\ Painting(X)
      BY <3>3 DEF Switched
    <3> QED BY <2>2, <3>1, <3>3, <3>4, <3>5 DEF Going
  <2> QED BY <2>1, <2>2
<1> HIDE DEF moved
<1>3. Good(moved) /\ Painting(moved) /\ moved.m.tracking /\ moved.msg = None
  BY <1>2 DEF Going
<1>4. item \in 0 .. RowCount(moved) /\ item \in Nat /\ (title # 0 => item = 0)
  <2>1. RowCount(moved) \in Nat /\ EnabledRows(moved) \in SUBSET (1 .. RowCount(moved))
    BY <1>3, RowCountIs
  <2>2. item = 0 \/ (item = p.k /\ p.k \in EnabledRows(moved) /\ p.at = "row")
    BY DEF RowAt
  <2> HIDE DEF item, title
  <2> QED BY <1>1, <2>1, <2>2
<1> HIDE DEF item
<1>5. /\ Stepped(moved, lit) /\ lit.m.tracking /\ lit.m.item = item /\ lit.msg = None
      /\ title = 0 => Len(lit.fx) <= 5
      /\ Good(lit) /\ Painting(lit)
  <2>1. CASE Len(moved.fx) <= 3
    <3>1. Len(moved.fx) + 1 < DrawEffects /\ Len(moved.fx) \in Nat
      BY <1>3, <2>1, RowCountIs DEF DrawEffects
    <3>2. Turned(moved, lit, item) /\ Len(lit.fx) <= Len(moved.fx) + 2
      BY <1>3, <1>4, <3>1, SetItemIs
    <3> HIDE DEF lit
    <3>3. Stepped(moved, lit) /\ lit.m.tracking /\ lit.m.item = item /\ lit.msg = None
      BY <1>3, <1>4, <3>2, TurnedStep
    <3>4. Good(lit) /\ Painting(lit)
      BY <3>2 DEF Turned
    <3>5. Len(lit.fx) <= 5
      <4>1. Len(lit.fx) \in Nat
        BY <3>3, <3>4, RowCountIs
      <4> QED BY <2>1, <3>1, <3>2, <4>1
    <3> QED BY <3>3, <3>4, <3>5
  <2>2. CASE ~(Len(moved.fx) <= 3)
    <3>1. title # 0 /\ item = 0 /\ moved.m.item = item /\ Len(moved.fx) = 5
      BY <1>2, <1>4, <2>2
    <3>2. Turned(moved, lit, item)
      <4>1. Len(moved.fx) + 1 < DrawEffects
        BY <3>1 DEF DrawEffects
      <4> QED BY <1>3, <1>4, <4>1, SetItemIs
    <3> HIDE DEF lit
    <3>3. Stepped(moved, lit) /\ lit.m.tracking /\ lit.m.item = item /\ lit.msg = None
      BY <1>3, <1>4, <3>2, TurnedStep
    <3> QED BY <3>1, <3>2, <3>3 DEF Turned
  <2> QED BY <2>1, <2>2
<1> HIDE DEF lit
<1>6. Stepped(S, lit)
  BY <1>2, <1>5, SteppedJoin
<1>7. /\ Stepped(lit, armed) /\ Good(armed) /\ Painting(armed) /\ armed.m.tracking
      /\ armed.m.item = item /\ armed.msg = None /\ armed.fx = lit.fx
  <2>1. CASE pressed /\ ~justOpened
    <3>1. armed = [lit EXCEPT !.m.armed = item, !.m.outside = outside]
      BY <2>1
    <3>2. outside \in BOOLEAN
      OBVIOUS
    <3> HIDE DEF armed, outside
    <3>a. Good(lit) /\ Painting(lit) /\ item \in Nat
      BY <1>4, <1>5
    <3>3. Stepped(lit, armed) /\ Tracks(lit.m, armed.m) /\ armed.fx = lit.fx /\ armed.msg = lit.msg
      BY ONLY <3>a, <3>1, <3>2, ArmedIs
    <3> QED BY <1>5, <3>3 DEF Tracks, Stepped
  <2>2. CASE ~(pressed /\ ~justOpened)
    <3>1. armed = lit
      BY <2>2
    <3> HIDE DEF armed
    <3> QED BY <1>5, <3>1, SteppedSame
  <2> QED BY <2>1, <2>2
<1> HIDE DEF armed
<1>8. Stepped(S, armed) /\ Going(armed)
  BY <1>6, <1>7, SteppedJoin DEF Going
<1>9. latched \in BOOLEAN
  <2>1. armed.m \in Managers
    BY <1>7, RowCountIs
  <2>2. armed.m.latched \in BOOLEAN
    BY <2>1 DEF Managers
  <2> QED BY <2>2
<1>10. /\ Stepped(S, last) /\ Going(last) /\ last.fx = armed.fx
       /\ Good(last)
  <2>1. CASE released
    <3>1. last = let_go
      BY <2>1
    <3>2. let_go = [armed EXCEPT !.m.drag = FALSE, !.m.armed = 0, !.m.outside = FALSE,
                                 !.m.latched = latched]
      OBVIOUS
    <3> HIDE DEF let_go, latched, last
    <3>3. Stepped(armed, let_go) /\ Tracks(armed.m, let_go.m) /\ let_go.fx = armed.fx
          /\ let_go.msg = armed.msg
      BY ONLY <1>7, <1>9, <3>2, LetGoIs
    <3>4. Stepped(S, let_go)
      BY <1>8, <3>3, SteppedJoin
    <3>5. Good(let_go) /\ Painting(let_go)
      BY <3>3 DEF Stepped
    <3> QED BY <1>7, <3>1, <3>3, <3>4, <3>5 DEF Going, Tracks
  <2>2. CASE ~released
    <3>1. last = armed
      BY <2>2
    <3> HIDE DEF last
    <3> QED BY <1>7, <1>8, <3>1
  <2> QED BY <2>1, <2>2
<1> HIDE DEF last
<1>11. title = 0 => Len(armed.fx) + 1 < DrawEffects /\ Len(last.fx) + 1 < DrawEffects
  <2>1. Len(armed.fx) \in Nat
    BY <1>7, RowCountIs
  <2> HIDE DEF title
  <2> QED BY <1>5, <1>7, <1>10, <2>1 DEF DrawEffects
<1>12. CASE released /\ picked
  <2>1. T = Close(armed, item)
    BY <1>12 DEF T
  <2>2. title = 0 /\ item # 0
    BY <1>4, <1>12
  <2>3. item \in 0 .. RowCount(armed)
    BY <1>7, RowCountIs
  <2> HIDE DEF title, picked
  <2>4. Stepped(S, Close(armed, item))
    BY <1>8, <1>11, <2>2, <2>3, ClosedAfter
  <2> QED BY <1>a, <2>1, <2>4
<1>13. CASE ~(released /\ picked) /\ (released /\ ~stays /\ left)
  <2>1. T = Close(armed, 0) /\ title = 0
    BY <1>13 DEF T
  <2>2. 0 \in 0 .. RowCount(armed)
    BY <1>7, RowCountIs
  <2> HIDE DEF title, picked, stays, left
  <2>3. Stepped(S, Close(armed, 0))
    BY <1>8, <1>11, <2>1, <2>2, ClosedAfter
  <2> QED BY <1>a, <2>1, <2>3
<1>14. CASE ~(released /\ picked) /\ ~(released /\ ~stays /\ left)
  <2>1. T = last \/ (T = Close(last, 0) /\ title = 0)
    BY <1>14 DEF T
  <2>2. 0 \in 0 .. RowCount(last)
    BY <1>10, RowCountIs DEF Going
  <2> HIDE DEF title, picked, stays, left
  <2>3. title = 0 => Stepped(S, Close(last, 0))
    BY <1>10, <1>11, <2>2, ClosedAfter
  <2> QED BY <1>a, <1>10, <2>1, <2>3
<1> QED BY <1>12, <1>13, <1>14

\* A title, or a row, found by its letter or as a neighbour is there.
LEMMA NeighbourIs ==
    ASSUME NEW n \in Nat, NEW E \in SUBSET (1 .. n), NEW k
    PROVE  /\ NextOf(E, k) \in E \cup {0} /\ NextOf(E, k) \in 0 .. n
           /\ PreviousOf(E, k) \in E \cup {0} /\ PreviousOf(E, k) \in 0 .. n
<1> DEFINE A == {j \in E : j > k}
           B == {j \in E : j < k}
<1>1. A \in SUBSET (1 .. n) /\ B \in SUBSET (1 .. n) /\ A \subseteq E /\ B \subseteq E
  OBVIOUS
<1>2. NextOf(E, k) = IF k \in E /\ A # {} THEN Least(A) ELSE Least(E)
  BY DEF NextOf
<1>3. PreviousOf(E, k) = IF k \in E /\ B # {} THEN Greatest(B) ELSE Greatest(E)
  BY DEF PreviousOf
<1> HIDE DEF A, B
<1>4. Least(A) \in A \cup {0} /\ Least(A) \in 0 .. n
  BY <1>1, LeastIs
<1>5. Greatest(B) \in B \cup {0} /\ Greatest(B) \in 0 .. n
  BY <1>1, LeastIs
<1>6. Least(E) \in E \cup {0} /\ Least(E) \in 0 .. n /\ Greatest(E) \in E \cup {0}
      /\ Greatest(E) \in 0 .. n
  BY LeastIs
<1> QED BY <1>1, <1>2, <1>3, <1>4, <1>5, <1>6

\* The titles that are enabled are titles.
LEMMA TitlesAre ==
    ASSUME NEW S
    PROVE  /\ Len(Rows) \in Nat /\ Titles = 1 .. Len(Rows)
           /\ EnabledTitles(S) \in SUBSET (1 .. Len(Rows))
<1>1. Len(Rows) \in Nat
  BY MenuAssumption
<1> QED BY <1>1 DEF Titles, EnabledTitles

\* The highlight moves, as a step.
LEMMA ItemStep ==
    ASSUME NEW S, Ground, Going(S), Len(S.fx) + 1 < DrawEffects, NEW k \in 0 .. RowCount(S)
    PROVE  Stepped(S, SetItem(S, k))
<1>1. Good(S) /\ Painting(S) /\ S.m.tracking
  BY DEF Going
<1>2. RowCount(S) \in Nat
  BY <1>1, RowCountIs
<1>3. Turned(S, SetItem(S, k), k)
  BY <1>1, SetItemIs
<1>4. k \in Nat
  BY <1>2
<1> QED BY <1>1, <1>3, <1>4, TurnedStep

\* The pull-down closes, as a step.
LEMMA CloseStep ==
    ASSUME NEW S, Ground, Going(S), Len(S.fx) + 1 < DrawEffects, NEW k \in 0 .. RowCount(S)
    PROVE  Stepped(S, Close(S, k)) /\ ~Close(S, k).m.tracking
<1>1. Stepped(S, S)
  BY SteppedSame DEF Going
<1> QED BY <1>1, ClosedAfter

\* Another pull-down opens, as a step.
LEMMA SwitchStep ==
    ASSUME NEW S, Ground, Going(S), S.fx = <<>>, NEW t \in Titles \cup {0},
           NEW keyboard \in BOOLEAN
    PROVE  Stepped(S, SwitchTitle(S, t, keyboard))
<1>1. Good(S) /\ Painting(S) /\ S.m.tracking /\ S.msg = None
  BY DEF Going
<1>2. CASE t = 0 \/ t = S.m.title
  <2>1. SwitchTitle(S, t, keyboard) = S
    BY <1>2 DEF SwitchTitle
  <2> QED BY <1>1, <2>1, SteppedSame
<1>3. CASE t # 0 /\ t # S.m.title
  <2>1. t \in Titles /\ t # S.m.title
    BY <1>3
  <2>2. Switched(S, SwitchTitle(S, t, keyboard), t)
    BY <1>1, <2>1, SwitchTitleIs
  <2> QED BY <1>1, <2>1, <2>2, SwitchedStep
<1> QED BY <1>2, <1>3

\* The row of a letter is there.
LEMMA ShortcutIs ==
    ASSUME NEW S, Going(S), NEW letter
    PROVE  Shortcut(S, letter) \in 0 .. RowCount(S)
<1> DEFINE A == {k \in 1 .. RowCount(S) :
                  \/ k = 1 /\ RowLetter[DeskTitle][1] = letter
                  \/ k >= DeskFixed
                     /\ AccLetter[S.acc[k - DeskFixed + 1]] = letter}
           B == {k \in EnabledRows(S) : RowLetter[S.m.title][k] = letter}
           C == IF InDesk(S) THEN A ELSE B
<1>1. Shortcut(S, letter) = Least(C)
  BY DEF Shortcut
<1>2. RowCount(S) \in Nat /\ EnabledRows(S) \in SUBSET (1 .. RowCount(S))
  BY RowCountIs DEF Going
<1>3. A \in SUBSET (1 .. RowCount(S)) /\ B \in SUBSET (1 .. RowCount(S))
  BY <1>2
<1> HIDE DEF A, B
<1>4. C \in SUBSET (1 .. RowCount(S))
  BY <1>3
<1> HIDE DEF C
<1> QED BY <1>1, <1>2, <1>4, LeastIs

\* A key is a step of an open pull-down.
LEMMA KeyboardIs ==
    ASSUME NEW S, Ground, Going(S), S.fx = <<>>, NEW key
    PROVE  Stepped(S, Keyboard(S, key))
<1> DEFINE E == EnabledTitles(S)
           R == EnabledRows(S)
           right == NextOf(E, S.m.title)
           left == PreviousOf(E, S.m.title)
           down == NextOf(R, S.m.item)
           up == PreviousOf(R, S.m.item)
           s == Shortcut(S, key)
           keyboard == TRUE
<1>1. Keyboard(S, key) \in {S, Close(S, 0), Close(S, S.m.item), Close(S, s),
                            SwitchTitle(S, right, keyboard), SwitchTitle(S, left, keyboard),
                            SetItem(S, down), SetItem(S, up)}
  BY DEF Keyboard
<1>2. Good(S) /\ Painting(S)
  BY DEF Going
<1>3. RowCount(S) \in Nat /\ S.m.item \in 0 .. RowCount(S)
      /\ R \in SUBSET (1 .. RowCount(S))
  BY <1>2, RowCountIs DEF Going
<1>4. Len(Rows) \in Nat /\ E \in SUBSET (1 .. Len(Rows)) /\ Titles = 1 .. Len(Rows)
  BY TitlesAre
<1> HIDE DEF E, R
<1>5. right \in 0 .. Len(Rows) /\ left \in 0 .. Len(Rows)
  BY <1>4, NeighbourIs
<1>6. right \in Titles \cup {0} /\ left \in Titles \cup {0}
  BY <1>4, <1>5
<1>7. down \in 0 .. RowCount(S) /\ up \in 0 .. RowCount(S)
  BY <1>3, NeighbourIs
<1>8. s \in 0 .. RowCount(S) /\ 0 \in 0 .. RowCount(S)
  BY <1>3, ShortcutIs
<1>9. keyboard \in BOOLEAN /\ Len(S.fx) + 1 < DrawEffects
  BY DEF DrawEffects
<1> HIDE DEF right, left, down, up, s, keyboard
<1>10. /\ Stepped(S, S) /\ Stepped(S, Close(S, 0)) /\ Stepped(S, Close(S, S.m.item))
       /\ Stepped(S, Close(S, s))
  BY <1>2, <1>3, <1>8, <1>9, SteppedSame, CloseStep
<1>11. Stepped(S, SwitchTitle(S, right, keyboard)) /\ Stepped(S, SwitchTitle(S, left, keyboard))
  BY <1>6, <1>9, SwitchStep
<1>12. Stepped(S, SetItem(S, down)) /\ Stepped(S, SetItem(S, up))
  BY <1>7, <1>9, ItemStep
<1> QED BY <1>1, <1>10, <1>11, <1>12

\* A state of a menu with nothing pulled down, and nothing to draw.
Waiting(S) ==
    Good(S) /\ Painting(S) /\ ~S.m.tracking /\ S.m.active /\ S.msg = None /\ S.fx = <<>>

\* A pull-down opens, as a step.
LEMMA OpenStep ==
    ASSUME NEW S, Ground, Waiting(S), NEW t \in Titles, NEW drag \in BOOLEAN
    PROVE  LET T == OpenTitle(S, t, drag)
           IN  Stepped(S, T) /\ Going(T) /\ T.m.title = t /\ Len(T.fx) = 3
<1>1. NoRows(S) /\ Len(S.fx) = 0 /\ Len(S.fx) + 2 < DrawEffects
  BY DEF NoRows, Waiting, DrawEffects
<1>2. Opens(S, OpenTitle(S, t, drag), t, drag) /\ Len(OpenTitle(S, t, drag).fx) = 3
  <2>1. Good(S) /\ Painting(S) /\ S.m.active /\ ~S.m.tracking
    BY DEF Waiting
  <2>2. Opens(S, OpenTitle(S, t, drag), t, drag)
        /\ Len(OpenTitle(S, t, drag).fx) = Len(S.fx) + 3
    BY <1>1, <2>1, OpenTitleIs
  <2> QED BY <1>1, <2>2
<1> DEFINE T == OpenTitle(S, t, drag)
<1> HIDE DEF T
<1>3. Stepped(S, T) /\ T.m.tracking /\ T.m.title = t /\ T.msg = None
  BY <1>2, OpensStep DEF Waiting, T
<1> QED BY <1>2, <1>3 DEF Going, T, Stepped

\* A key that opens a pull-down highlights its first row.
LEMMA OpenByKeyIs ==
    ASSUME NEW S, Ground, Waiting(S), NEW t \in Titles
    PROVE  Stepped(S, OpenByKey(S, t))
<1> DEFINE drag == FALSE
           T == OpenTitle(S, t, drag)
           k == Least(EnabledRows(T))
<1>1. OpenByKey(S, t) = SetItem(T, k)
  BY DEF OpenByKey
<1>2. drag \in BOOLEAN
  OBVIOUS
<1> HIDE DEF drag
<1>3. Stepped(S, T) /\ Going(T) /\ Len(T.fx) = 3
  BY <1>2, OpenStep
<1> HIDE DEF T
<1>4. RowCount(T) \in Nat /\ EnabledRows(T) \in SUBSET (1 .. RowCount(T))
  BY <1>3, RowCountIs DEF Going
<1>5. k \in 0 .. RowCount(T)
  BY <1>4, LeastIs
<1>6. Len(T.fx) + 1 < DrawEffects
  BY <1>3 DEF DrawEffects
<1> HIDE DEF k
<1>7. Stepped(T, SetItem(T, k))
  BY <1>3, <1>5, <1>6, ItemStep
<1> QED BY <1>1, <1>3, <1>7, SteppedJoin

\* The title of a key is a title, or none.
LEMMA TitleForKeyIs ==
    ASSUME NEW S, NEW key
    PROVE  TitleForKey(S, key) \in Titles \cup {0}
<1> DEFINE E == EnabledTitles(S)
           L == {t \in E : TitleLetter[t] = key}
<1>1. TitleForKey(S, key) \in {Least(E), Greatest(E), Least(L)}
  BY DEF TitleForKey
<1>2. Len(Rows) \in Nat /\ E \in SUBSET (1 .. Len(Rows)) /\ Titles = 1 .. Len(Rows)
  BY TitlesAre
<1>3. L \in SUBSET (1 .. Len(Rows))
  BY <1>2
<1> HIDE DEF E, L
<1>4. Least(E) \in 0 .. Len(Rows) /\ Greatest(E) \in 0 .. Len(Rows)
      /\ Least(L) \in 0 .. Len(Rows)
  BY <1>2, <1>3, LeastIs
<1> QED BY <1>1, <1>2, <1>4

\* The places of a sample.
LEMMA PlacesIs ==
    ASSUME NEW p \in Places, NEW S
    PROVE  (p.at = "row" => p.k \in Nat) /\ TitleAt(S, p) \in Titles \cup {0}
           /\ (TitleAt(S, p) # 0 => TitleAt(S, p) = p.t)
<1>1. Titles = 1 .. Len(Rows) /\ EnabledTitles(S) \in SUBSET (1 .. Len(Rows))
  BY TitlesAre
<1>2. \A o \in Objects : o[2] \in Nat
  BY ObjectsIs
<1>3. p.at = "row" => p.k \in Nat
  <2>1. CASE p \in {[at |-> "row", t |-> o[1], k |-> o[2]] : o \in {q \in Objects : q[2] # 0}}
    BY <1>2, <2>1
  <2>2. CASE p \in {[at |-> "row", t |-> DeskTitle, k |-> k] : k \in 1 .. MaxAccessories + 2}
    BY <2>2
  <2>3. CASE p.at # "row"
    BY <2>3
  <2> QED BY <2>1, <2>2, <2>3 DEF Places
<1> QED BY <1>1, <1>3 DEF TitleAt

\* A sample is a step.
LEMMA SampledIs ==
    ASSUME Ground, NEW S, Good(S), Painting(S), S.msg = None, S.fx = <<>>,
           menu.active, S.m.active, S.m.tracking = menu.tracking,
           NEW p, p.at = "row" => p.k \in Nat, TitleAt(S, p) \in Titles \cup {0},
           \A T : TitleAt(T, p) \in {0, p.t},
           NEW down \in BOOLEAN, NEW key, menu.button \in BOOLEAN
    PROVE  Stepped(S, Sampled(S, p, down, key).S)
<1> DEFINE pressed == down /\ ~menu.button
           released == ~down /\ menu.button
           title == TitleAt(S, p)
           opens == ~menu.tracking /\ pressed /\ title # 0
           drag == TRUE
           open == OpenTitle(S, title, drag)
           opened == IF opens THEN open ELSE S
           called == TitleForKey(S, key)
           M == MouseTracking(opened, p, down, pressed, released, opens)
           T == Sampled(S, p, down, key).S
<1>1. T = IF key # NoKey
          THEN IF menu.tracking THEN Keyboard(S, key)
               ELSE IF called = 0 THEN S ELSE OpenByKey(S, called)
          ELSE IF opened.m.tracking THEN M ELSE S
  BY DEF Sampled
<1>2. pressed \in BOOLEAN /\ released \in BOOLEAN /\ opens \in BOOLEAN /\ drag \in BOOLEAN
  BY Zenon
<1>3. Stepped(S, S)
  BY SteppedSame
<1>4. menu.tracking => Going(S)
  BY DEF Going
<1>5. ~menu.tracking => Waiting(S)
  BY DEF Waiting
<1>6. called \in Titles \cup {0}
  BY TitleForKeyIs
<1>7. opened = (IF opens THEN open ELSE S) /\ (opens => ~menu.tracking /\ title # 0)
  OBVIOUS
<1>8. title \in Titles \cup {0} /\ title \in {0, p.t} /\ TitleAt(opened, p) \in {0, p.t}
  OBVIOUS
<1> SUFFICES Stepped(S, T)
  OBVIOUS
<1> HIDE DEF T, called, drag, opens, pressed, released, opened
<1>9. CASE key # NoKey
  <2>1. CASE menu.tracking
    BY <1>1, <1>4, <1>9, <2>1, KeyboardIs
  <2>2. CASE ~menu.tracking
    <3>1. called # 0 => Stepped(S, OpenByKey(S, called))
      BY <1>5, <1>6, <2>2, OpenByKeyIs
    <3> QED BY <1>1, <1>3, <1>9, <2>2, <3>1
  <2> QED BY <2>1, <2>2
<1>10. CASE key = NoKey
  <2>1. CASE opens
    <3>1. title \in Titles /\ opened = open /\ title = p.t
      BY <1>7, <1>8, <2>1
    <3> HIDE DEF title
    <3>2. Stepped(S, open) /\ Going(open) /\ open.m.title = title /\ Len(open.fx) = 3
      BY <1>2, <1>5, <1>7, <2>1, <3>1, OpenStep
    <3> HIDE DEF open
    <3>3. TitleAt(open, p) \in {0, open.m.title}
      BY <1>8, <3>1, <3>2
    <3>4. TitleAt(open, p) \in Titles \cup {0} /\ Len(open.fx) <= 3
      BY <1>8, <3>1, <3>2
    <3>5. Stepped(open, MouseTracking(open, p, down, pressed, released, opens))
      BY <1>2, <3>2, <3>3, <3>4, MouseTrackingIs
    <3>6. Stepped(S, M)
      BY <3>1, <3>2, <3>5, SteppedJoin
    <3> QED BY <1>1, <1>3, <1>10, <3>6
  <2>2. CASE ~opens
    <3>1. opened = S
      BY <1>7, <2>2
    <3>2. Len(S.fx) <= 3
      OBVIOUS
    <3>3. menu.tracking => Stepped(S, MouseTracking(S, p, down, pressed, released, opens))
      BY <1>2, <1>4, <3>2, MouseTrackingIs
    <3>4. menu.tracking => Stepped(S, M)
      BY <3>1, <3>3
    <3>5. T = IF menu.tracking THEN M ELSE S
      BY <1>1, <1>10, <3>1
    <3> QED BY <1>3, <3>4, <3>5
  <2> QED BY <2>1, <2>2
<1> QED BY <1>9, <1>10

\* One row more.
Grown(rows, a, kept, n) == IF rows[n] = a THEN kept ELSE Append(kept, rows[n])

\* The states of the loop of Others over k rows.
OthersLoop(rows, a, k, kept) ==
    /\ kept[0] = <<>>
    /\ \A n \in 1 .. k : kept[n] = Grown(rows, a, kept[n - 1], n)
    /\ Others(rows, a) = kept[k]

\* The loop of Others over the rows.
LEMMA OthersTurns ==
    ASSUME NEW rows, NEW a, NEW k \in Nat, k = Len(rows)
    PROVE  \E kept : OthersLoop(rows, a, k, kept)
<1> DEFINE Turn(f, n) == IF n = 0 THEN <<>> ELSE Grown(rows, a, f[n - 1], n)
           Is(f, t) == f = [n \in 0 .. t |-> Turn(f, n)]
           P == {t \in 0 .. k : \E f : Is(f, t)}
<1>1. 0 \in P
  <2>1. Is([n \in 0 .. 0 |-> <<>>], 0)
    OBVIOUS
  <2>2. 0 \in 0 .. k
    OBVIOUS
  <2> HIDE DEF Is
  <2> QED BY <2>1, <2>2
<1>2. ASSUME NEW t \in 1 .. k, t - 1 \in P PROVE t \in P
  <2>1. PICK f : Is(f, t - 1)
    BY <1>2
  <2> DEFINE g == [n \in 0 .. t |-> IF n = t THEN Turn(f, t) ELSE f[n]]
  <2>2. Is(g, t)
    BY ONLY <2>1, t \in 1 .. k, k \in Nat
  <2>3. t \in 0 .. k
    OBVIOUS
  <2> HIDE DEF Is, g
  <2> QED BY <2>2, <2>3
<1>3. k \in P
  <2> HIDE DEF P
  <2> QED BY <1>1, <1>2, Turns
<1>4. PICK f : Is(f, k)
  BY <1>3
<1>5. Others(rows, a) = (CHOOSE g : Is(g, k))[k]
  BY DEF Others, Grown
<1>6. Is(CHOOSE g : Is(g, k), k)
  <2> HIDE DEF Is
  <2> QED BY <1>4
<1>7. PICK kept : Is(kept, k) /\ Others(rows, a) = kept[k]
  <2> HIDE DEF Is
  <2> QED BY <1>5, <1>6
<1>8. /\ kept[0] = <<>>
      /\ \A n \in 1 .. k : kept[n] = Grown(rows, a, kept[n - 1], n)
  <2>1. \A n \in 1 .. k : n \in 0 .. k /\ n # 0
    OBVIOUS
  <2> QED BY ONLY <1>7, <2>1, k \in Nat
<1> HIDE DEF Is
<1> QED BY <1>7, <1>8 DEF OthersLoop

\* Without a client its rows are gone; without a row of its there is no change.
LEMMA OthersIs ==
    ASSUME NEW S, NEW rows \in Seq(S), NEW a
    PROVE  /\ Others(rows, a) \in Seq(S \ {a})
           /\ a \notin Range(rows) => Others(rows, a) = rows
<1>1. PICK k \in Nat : k = Len(rows)
  OBVIOUS
<1>2. PICK kept : OthersLoop(rows, a, k, kept)
  BY <1>1, OthersTurns
<1>3. \A n \in 1 .. k : rows[n] \in S /\ rows[n] \in Range(rows)
  BY <1>1 DEF Range
<1> DEFINE P == {n \in 0 .. k : /\ kept[n] \in Seq(S \ {a})
                                /\ a \notin Range(rows) => /\ Len(kept[n]) = n
                                     /\ \A j \in 1 .. n : kept[n][j] = rows[j]}
<1>4. 0 \in P
  <2>1. kept[0] = <<>>
    BY <1>2 DEF OthersLoop
  <2>2. kept[0] \in Seq(S \ {a}) /\ Len(kept[0]) = 0 /\ 0 \in 0 .. k
    BY <2>1
  <2>3. \A j \in 1 .. 0 : kept[0][j] = rows[j]
    OBVIOUS
  <2> QED BY <2>2, <2>3
<1>5. ASSUME NEW n \in 1 .. k, n - 1 \in P PROVE n \in P
  <2> DEFINE before == kept[n - 1]
             now == kept[n]
  <2>1. now = IF rows[n] = a THEN before ELSE Append(before, rows[n])
    BY <1>2 DEF OthersLoop, Grown
  <2>2. before \in Seq(S \ {a}) /\ n \in 0 .. k /\ rows[n] \in S
    BY <1>3, <1>5
  <2>3. a \notin Range(rows) => /\ Len(before) = n - 1
                                /\ \A j \in 1 .. n - 1 : before[j] = rows[j]
    BY <1>5
  <2> HIDE DEF before, now, P
  <2>4. CASE rows[n] = a
    <3>1. now = before /\ a \in Range(rows)
      BY <1>3, <2>1, <2>4
    <3> QED BY <2>2, <3>1 DEF now, P
  <2>5. CASE rows[n] # a
    <3>1. now = Append(before, rows[n]) /\ rows[n] \in S \ {a}
      BY <2>1, <2>2, <2>5
    <3>2. now \in Seq(S \ {a}) /\ Len(now) = Len(before) + 1
          /\ (\A j \in 1 .. Len(before) : now[j] = before[j]) /\ now[Len(before) + 1] = rows[n]
      BY <2>2, <3>1
    <3>3. a \notin Range(rows) => Len(now) = n /\ \A j \in 1 .. n : now[j] = rows[j]
      <4> SUFFICES ASSUME a \notin Range(rows)
                   PROVE  Len(now) = n /\ \A j \in 1 .. n : now[j] = rows[j]
        OBVIOUS
      <4>1. Len(before) = n - 1 /\ n - 1 + 1 = n
        BY <2>3
      <4> QED BY <2>3, <3>2, <4>1
    <3> QED BY <2>2, <3>2, <3>3 DEF now, P
  <2> QED BY <2>4, <2>5
<1> DEFINE Q == P
<1>6. k \in Q
  <2> HIDE DEF P
  <2> QED BY <1>4, <1>5, Turns
<1>7. Others(rows, a) = kept[k]
  BY <1>2 DEF OthersLoop
<1>8. a \notin Range(rows) => kept[k] = rows
  <2> SUFFICES ASSUME a \notin Range(rows) PROVE kept[k] = rows
    OBVIOUS
  <2> DEFINE q == kept[k]
  <2>1. q \in Seq(S \ {a}) /\ Len(q) = k /\ \A j \in 1 .. k : q[j] = rows[j]
    BY <1>6
  <2> HIDE DEF q
  <2>2. q \in Seq(S)
    BY <2>1
  <2>3. q = rows
    BY <1>1, <2>1, <2>2
  <2> QED BY <2>3 DEF q
<1> QED BY <1>6, <1>7, <1>8

\* One row less.
LEMMA RemoveAtIs ==
    ASSUME NEW S, NEW rows \in Seq(S), NEW i \in 1 .. Len(rows)
    PROVE  RemoveAt(rows, i) \in Seq(S)
<1>1. SubSeq(rows, 1, i - 1) \in Seq(S) /\ SubSeq(rows, i + 1, Len(rows)) \in Seq(S)
  OBVIOUS
<1> QED BY <1>1 DEF RemoveAt

\* The effects of a pull-down that closes draw no row.
LEMMA CloseNoRows ==
    ASSUME NEW S, Ground, Good(S), Painting(S), S.m.tracking, S.fx = <<>>
    PROVE  NoRows(Close(S, 0))
<1> DEFINE t == S.m.title
           bare == Unpull(S)
           V == WriteTitle(bare, t, S.m.titleBase)
           T == Effect(V, "title", t, 0)
           e == [do |-> "title", t |-> t, k |-> 0]
           r == [do |-> "restore", t |-> t, k |-> 0]
<1>1. Close(S, 0) = [T EXCEPT !.m = Idle(@)]
  BY DEF Close
<1>2. S.m \in Managers /\ t \in Titles /\ S \in Handled
  BY RowCountIs DEF Good
<1>3. S.m.titleBase \in SUBSET Flags
  BY <1>2 DEF Managers
<1>4. Len(S.fx) < DrawEffects /\ Len(S.fx) = 0 /\ NoRows(S)
  BY DEF DrawEffects, NoRows
<1> HIDE DEF T, V, bare, e
<1>5. Bare(bare) /\ bare.fx = Append(S.fx, r) /\ Len(bare.fx) = Len(S.fx) + 1
  BY <1>4, UnpullIs DEF bare
<1>r. r.do # "row" /\ Len(bare.fx) = 1
  BY <1>4, <1>5
<1> HIDE DEF r
<1>6. NoRows(bare)
  BY <1>2, <1>4, <1>5, <1>r, NoRowsMore
<1>7. Bare(V) /\ V.fx = bare.fx
  BY <1>2, <1>3, <1>5, BareTitle DEF V
<1>8. NoRows(V) /\ Len(V.fx) < DrawEffects /\ V \in Handled
  <2>1. NoRows(V)
    BY <1>6, <1>7 DEF NoRows
  <2>2. V \in Handled
    BY <1>7 DEF Bare
  <2>3. Len(V.fx) < DrawEffects
    <3>1. V.fx = bare.fx /\ Len(bare.fx) = 1
      BY <1>r, <1>7
    <3>2. Len(V.fx) = 1
      BY ONLY <3>1
    <3> QED BY ONLY <3>2 DEF DrawEffects
  <2> QED BY <2>1, <2>2, <2>3
<1>9. e = [do |-> "title", t |-> t, k |-> 0] /\ e \in Drawings
  BY <1>2 DEF e, Drawings
<1>10. Bare(T) /\ T.fx = Append(V.fx, e)
  BY <1>7, <1>8, <1>9, BareEffect DEF T
<1>11. NoRows(T) /\ T \in Handled
  BY <1>8, <1>9, <1>10, NoRowsMore DEF Bare
<1>12. Close(S, 0).fx = T.fx
  BY <1>1, <1>11, HandledIs
<1> QED BY <1>11, <1>12 DEF NoRows

\* Another menu with no pull-down, of the client of the bar or of none.
LEMMA FreshGood ==
    ASSUME NEW S, Good(S), ~S.m.tracking, NEW m \in Managers, ~m.tracking,
           m.active => m.owner \in Apps /\ m.owner = S.bar, "sel" \notin m.itemBase,
           NEW T, T = [S EXCEPT !.m = m]
    PROVE  /\ Good(T) /\ T.m = m /\ Rest(S, T) /\ T.msg = S.msg
           /\ T.fx = S.fx /\ T.marks = S.marks /\ T.desk = S.desk
<1>0. S \in Handled /\ Lit(S) /\ Drawable(S)
  BY DEF Good
<1>1. /\ T \in Handled /\ T.m = m /\ T.marks = S.marks /\ T.desk = S.desk
      /\ Rest(S, T) /\ T.msg = S.msg /\ T.fx = S.fx
  BY ONLY <1>0, m \in Managers, T = [S EXCEPT !.m = m], MenuIs
<1>2. Clear(S)
  BY <1>0, LitClear
<1>3. Clear(T) /\ Drawable(T)
  BY <1>0, <1>1, <1>2 DEF Clear, Drawable, RowsOf
<1>4. Worked(T)
  BY <1>1 DEF Worked, Rest
<1>5. Lit(T)
  BY <1>1, <1>3 DEF Lit, Clear
<1> QED BY <1>1, <1>3, <1>4, <1>5 DEF Good

\* Nothing is painted for it.
LEMMA FreshIs ==
    ASSUME NEW S, Good(S), Painting(S), ~S.m.tracking, NEW m \in Managers, ~m.tracking,
           m.active => m.owner \in Apps /\ m.owner = S.bar, "sel" \notin m.itemBase,
           NEW T, T = [S EXCEPT !.m = m]
    PROVE  /\ Good(T) /\ Painting(T) /\ T.m = m /\ Rest(S, T) /\ T.msg = S.msg
           /\ T.fx = S.fx /\ T.marks = S.marks /\ T.desk = S.desk
<1>1. /\ Good(T) /\ T.m = m /\ Rest(S, T) /\ T.msg = S.msg
      /\ T.fx = S.fx /\ T.marks = S.marks /\ T.desk = S.desk
  BY FreshGood
<1>2. Painting(T)
  <2>1. Pulled(T) = {} /\ LitRows(T) = {} /\ Pulled(S) = {} /\ LitRows(S) = {}
    BY <1>1 DEF Pulled, LitRows
  <2>2. Paints(S, {}, {}) => Paints(T, {}, {})
    BY <1>1, MenuPaint
  <2> QED BY <2>1, <2>2 DEF Painting
<1> QED BY <1>1, <1>2

\* Other accessories, while their rows are not pulled down.
LEMMA AccIs ==
    ASSUME NEW S, Ground, Good(S), Painting(S), ~(S.m.tracking /\ InDesk(S)),
           NEW acc \in Seq(live), NEW T, T = [S EXCEPT !.acc = acc]
    PROVE  /\ Good(T) /\ Painting(T) /\ T.m = S.m /\ T.bar = S.bar /\ T.all = S.all
           /\ T.acc = acc /\ T.msg = S.msg /\ T.fx = S.fx /\ T.marks = S.marks
           /\ T.desk = S.desk
<1>0. S \in Handled /\ Worked(S) /\ Lit(S) /\ Drawable(S)
  BY DEF Good
<1>1. /\ T \in Handled /\ T.m = S.m /\ T.bar = S.bar /\ T.all = S.all
      /\ T.acc = acc /\ T.msg = S.msg /\ T.fx = S.fx /\ T.marks = S.marks
      /\ T.desk = S.desk
  BY ONLY <1>0, acc \in Seq(live), T = [S EXCEPT !.acc = acc] DEF Handled
<1>2. (InDesk(T) <=> InDesk(S)) /\ RowCount(T) = RowCount(S)
  BY <1>1 DEF InDesk, RowCount
<1>3. Worked(T)
  BY <1>0, <1>1, <1>2 DEF Worked
<1>4. \A o : Tracked(T, o) <=> Tracked(S, o)
  BY <1>1 DEF Tracked
<1>5. RowState(T, T.m.item) = RowState(S, S.m.item)
  BY <1>1, <1>2 DEF RowState
<1>6. Lit(T) /\ Drawable(T)
  BY <1>0, <1>1, <1>4, <1>5 DEF Lit, Drawable, RowsOf
<1>7. Painting(T)
  <2>1. Pulled(T) = Pulled(S) /\ LitRows(T) = LitRows(S) /\ DeskTitle \notin Pulled(S)
    BY <1>1 DEF Pulled, LitRows, InDesk
  <2>2. Same(S, T, {})
    BY <1>1, SameIs
  <2>3. T.acc \in Seq(Apps) /\ Drawer(S)
    BY <1>0, <1>1, HandledDraws DEF Ground
  <2> DEFINE P == Pulled(S)
             R == LitRows(S)
  <2>4. DeskTitle \notin P
    BY <2>1
  <2> HIDE DEF P, R
  <2>5. Paints(S, P, R) => Paints(T, P, R)
    BY <1>1, <2>2, <2>3, <2>4, AccPaint
  <2> QED BY <2>1, <2>5 DEF Painting, P, R
<1> QED BY <1>1, <1>3, <1>6, <1>7 DEF Good

\* The rows of the Desk are built anew, while they are not pulled down.
LEMMA BuiltGood ==
    ASSUME NEW S, Good(S), ~(S.m.tracking /\ InDesk(S)), NoRows(S),
           NEW T, T = BuildDesk(S)
    PROVE  /\ Good(T) /\ T.m = S.m /\ Rest(S, T) /\ T.msg = S.msg
           /\ T.fx = S.fx /\ T.marks = S.marks /\ Same(S, T, {})
<1>0. S \in Handled /\ Worked(S) /\ Lit(S) /\ Drawable(S)
  BY DEF Good
<1>1. S.m.active => S.m.owner \in Apps
  BY <1>0 DEF Worked
<1>2. /\ T \in Handled /\ T.m = S.m /\ T.marks = S.marks /\ Rest(S, T)
      /\ T.msg = S.msg /\ T.fx = S.fx
      /\ \A j \in 1 .. Len(T.desk) : "sel" \notin T.desk[j]
  BY <1>0, <1>1, LitDesk, BuildDeskIs
<1>3. (InDesk(T) <=> InDesk(S)) /\ (S.m.tracking => RowCount(T) = RowCount(S))
  BY <1>2 DEF InDesk, RowCount
<1>4. Worked(T)
  BY <1>0, <1>2, <1>3 DEF Worked, Rest
<1>5. \A o : Tracked(T, o) <=> Tracked(S, o)
  BY <1>2 DEF Tracked
<1>6. S.m.tracking => RowState(T, T.m.item) = RowState(S, S.m.item)
  BY <1>2, <1>3 DEF RowState
<1>7. Lit(T)
  BY <1>0, <1>2, <1>5, <1>6 DEF Lit
<1>8. Drawable(T)
  BY <1>2 DEF Drawable, NoRows
<1>9. \A j \in 1 .. Len(S.desk) : "sel" \notin S.desk[j]
  BY <1>0 DEF Lit, Tracked, InDesk
<1>10. Same(S, T, {})
  <2>1. \A o \in Titles \X Nat : o[1] = DeskTitle /\ o[2] # 0 =>
           ~(o[2] <= Len(S.desk) /\ "sel" \in S.desk[o[2]])
    BY <1>9
  <2>2. \A o \in Titles \X Nat : o[1] = DeskTitle /\ o[2] # 0 =>
           ~(o[2] <= Len(T.desk) /\ "sel" \in T.desk[o[2]])
    BY <1>2
  <2>3. T.bar = S.bar /\ T.marks = S.marks
    BY <1>2 DEF Rest
  <2>4. Chosen(T) = Chosen(S)
    BY <2>1, <2>2, <2>3 DEF Chosen
  <2> QED BY <2>3, <2>4 DEF Same
<1> QED BY <1>2, <1>4, <1>7, <1>8, <1>10 DEF Good

\* Nothing is painted for them.
LEMMA BuiltIs ==
    ASSUME NEW S, Ground, Good(S), Painting(S), ~(S.m.tracking /\ InDesk(S)), NoRows(S),
           NEW T, T = BuildDesk(S)
    PROVE  /\ Good(T) /\ Painting(T) /\ T.m = S.m /\ Rest(S, T) /\ T.msg = S.msg
           /\ T.fx = S.fx /\ T.marks = S.marks
<1>1. /\ Good(T) /\ T.m = S.m /\ Rest(S, T) /\ T.msg = S.msg
      /\ T.fx = S.fx /\ T.marks = S.marks /\ Same(S, T, {})
  BY BuiltGood
<1>2. Painting(T)
  <2>1. Pulled(T) = Pulled(S) /\ LitRows(T) = LitRows(S)
    BY <1>1 DEF Pulled, LitRows
  <2>2. T.acc = S.acc
    BY <1>1 DEF Rest
  <2> DEFINE P == Pulled(S)
             R == LitRows(S)
  <2> HIDE DEF P, R
  <2>3. Paints(S, P, R) => Paints(T, P, R)
    BY <1>1, <2>2, SamePaint
  <2> QED BY <2>1, <2>3 DEF Painting, P, R
<1> QED BY <1>1, <1>2

\* A pull-down of the menu as it was that is closed, with its title still
\* selected that was not before, leaves a message to the owner.
Informs(T) ==
    menu.tracking /\ ~T.m.tracking /\ "sel" \in T.marks[menu.owner][<<menu.title, 0>>] =>
        \/ "sel" \in menu.titleBase
        \/ /\ T.msg # None /\ T.msg.to = menu.owner
           /\ T.msg.type = "selected" /\ T.msg.t = menu.title

\* The state of the manager between two handlers.
LEMMA StartIs ==
    /\ Start.m = menu /\ Start.marks = marks /\ Start.desk = desk /\ Start.acc = accessory
    /\ Start.bar = shown /\ Start.fx = <<>> /\ Start.all = FALSE /\ Start.msg = None
    /\ NoRows(Start)
BY DEF Start, NoRows

\* What a handler leaves after steps.
LEMMA SteppedInforms ==
    ASSUME Good(Start), NEW T, Stepped(Start, T)
    PROVE  Informs(T)
<1>1. ASSUME menu.tracking PROVE menu.title \in Titles
  BY <1>1, StartIs DEF Good, Worked
<1>2. menu.tracking /\ "sel" \notin menu.titleBase => Told(Start, menu.title)
  BY StartIs DEF Told
<1>3. menu.tracking /\ "sel" \notin menu.titleBase => Told(T, menu.title)
  BY <1>1, <1>2 DEF Stepped
<1>4. T.m.owner = menu.owner
  BY StartIs DEF Stepped
<1> QED BY <1>3, <1>4 DEF Informs, Told

\* The pull-down of the Desk is closed before its rows change.
LEMMA DeskClosedIs ==
    ASSUME NEW S, Ground, Good(S), Painting(S), S.fx = <<>>, S.msg = None
    PROVE  LET T == DeskClosed(S)
           IN  /\ Stepped(S, T) /\ T.msg = None /\ NoRows(T)
               /\ ~(T.m.tracking /\ InDesk(T))
<1>1. CASE S.m.tracking /\ InDesk(S)
  <2>1. DeskClosed(S) = Close(S, 0)
    BY <1>1 DEF DeskClosed
  <2>2. Going(S) /\ 0 \in 0 .. RowCount(S) /\ Len(S.fx) + 1 < DrawEffects
    <3>1. RowCount(S) \in Nat
      BY <1>1, RowCountIs
    <3> QED BY <1>1, <3>1 DEF Going, DrawEffects
  <2>3. Stepped(S, Close(S, 0)) /\ ~Close(S, 0).m.tracking
    BY <2>2, CloseStep
  <2>4. Closes(S, Close(S, 0), 0)
    BY <1>1, <2>2, CloseIs
  <2>5. Close(S, 0).msg = None
    BY <2>4 DEF Closes
  <2>6. NoRows(Close(S, 0))
    BY <1>1, CloseNoRows
  <2> QED BY <2>1, <2>3, <2>5, <2>6
<1>2. CASE ~(S.m.tracking /\ InDesk(S))
  <2>1. DeskClosed(S) = S
    BY <1>2 DEF DeskClosed
  <2> QED BY <1>2, <2>1, SteppedSame DEF NoRows
<1> QED BY <1>1, <1>2

\* The menu with no owner.
LEMMA ReleasedIs ==
    ASSUME NEW m \in Managers, NEW n, n = [m EXCEPT !.active = FALSE, !.owner = NoApp]
    PROVE  /\ n \in Managers /\ ~n.active /\ n.tracking = m.tracking
           /\ n.itemBase = m.itemBase
BY DEF Managers

\* The menu is closed and given up by its owner.
LEMMA DeactivatedIs ==
    ASSUME Ground, Good(Start), Painting(Start)
    PROVE  LET T == Deactivated
           IN  /\ Good(T) /\ Painting(T) /\ ~T.m.tracking /\ ~T.m.active /\ NoRows(T)
               /\ T.msg = None /\ Rest(Start, T) /\ Informs(T)
<1> DEFINE S == Close(Start, 0)
           n == S.m
           m == [n EXCEPT !.active = FALSE, !.owner = NoApp]
           T == Deactivated
<1>0. Stepped(Start, S) /\ ~S.m.tracking /\ S.msg = None /\ NoRows(S)
  <2>1. CASE menu.tracking
    <3> DEFINE Z == Start
    <3> HIDE DEF Z
    <3>1. Z.m.tracking /\ Z.fx = <<>> /\ Z.msg = None /\ Good(Z) /\ Painting(Z)
      BY <2>1, StartIs DEF Z
    <3>2. Going(Z) /\ 0 \in 0 .. RowCount(Z) /\ Len(Z.fx) + 1 < DrawEffects
      <4>1. RowCount(Z) \in Nat
        BY <3>1, RowCountIs
      <4> QED BY <3>1, <4>1 DEF Going, DrawEffects
    <3>3. Stepped(Z, Close(Z, 0)) /\ ~Close(Z, 0).m.tracking
      BY <3>2, CloseStep
    <3>4. Closes(Z, Close(Z, 0), 0)
      BY <3>1, <3>2, CloseIs
    <3>5. Close(Z, 0).msg = None
      BY <3>1, <3>4 DEF Closes
    <3>6. NoRows(Close(Z, 0))
      BY <3>1, CloseNoRows
    <3> QED BY <3>3, <3>5, <3>6 DEF Z
  <2>2. CASE ~menu.tracking
    <3>1. S = Start
      BY <2>2, StartIs DEF Close
    <3> QED BY <2>2, <3>1, StartIs, SteppedSame
  <2> QED BY <2>1, <2>2
<1>1. Good(S) /\ Painting(S) /\ Rest(Start, S)
  BY <1>0 DEF Stepped
<1>2. n \in Managers /\ S \in Handled
  BY <1>1, HandledIs DEF Good
<1>3. T = [S EXCEPT !.m = m]
  BY <1>2, HandledIs DEF Deactivated
<1> HIDE DEF S, T
<1>4. m \in Managers /\ ~m.active /\ ~m.tracking /\ m.itemBase = n.itemBase
  <2> HIDE DEF n
  <2>1. m \in Managers /\ ~m.active /\ m.tracking = n.tracking /\ m.itemBase = n.itemBase
    BY <1>2, ReleasedIs
  <2> QED BY <1>0, <2>1 DEF n
<1>5. "sel" \notin m.itemBase
  BY <1>1, <1>4 DEF Good, Lit
<1> HIDE DEF m
<1>6. /\ Good(T) /\ Painting(T) /\ T.m = m /\ Rest(S, T) /\ T.msg = S.msg
      /\ T.fx = S.fx /\ T.marks = S.marks
  BY <1>0, <1>1, <1>3, <1>4, <1>5, FreshIs
<1>7. NoRows(T)
  BY <1>0, <1>6 DEF NoRows
<1>8. Informs(T)
  <2>1. Informs(S)
    BY <1>0, SteppedInforms
  <2> QED BY <1>0, <1>4, <1>6, <2>1 DEF Informs
<1>9. Rest(Start, T)
  BY <1>1, <1>6 DEF Rest
<1> QED BY <1>0, <1>4, <1>6, <1>7, <1>8, <1>9 DEF T

----------------------------------------------------------------------------
(* The effects, applied *)

\* The queues of the clients, none of them overrun.
Boxes == {q \in [Apps -> Seq(Mail)] : \A a \in Apps : Len(q[a]) <= QueueMax}
Outcomes == [ok : BOOLEAN, scr : Screens, q : Boxes]

\* There is room for the message of S.
Reserved(S, q) == S.msg # None => Len(q[S.msg.to]) < QueueMax

\* The fields of an outcome.
LEMMA OutcomeIs ==
    ASSUME NEW D \in Outcomes
    PROVE  /\ D = [ok |-> D.ok, scr |-> D.scr, q |-> D.q] /\ D.ok \in BOOLEAN
           /\ D.scr \in Screens /\ D.q \in Boxes /\ D.q \in [Apps -> Seq(Mail)]
           /\ \A a \in Apps : Len(D.q[a]) <= QueueMax /\ Len(D.q[a]) \in Nat
<1>1. /\ D = [ok |-> D.ok, scr |-> D.scr, q |-> D.q] /\ D.ok \in BOOLEAN
      /\ D.scr \in Screens /\ D.q \in Boxes
  BY DEF Outcomes
<1>2. D.q \in [Apps -> Seq(Mail)] /\ \A a \in Apps : Len(D.q[a]) <= QueueMax
  BY <1>1 DEF Boxes
<1>3. \A a \in Apps : D.q[a] \in Seq(Mail)
  BY <1>2
<1>4. \A a \in Apps : Len(D.q[a]) \in Nat
  BY <1>3, LenProperties
<1> QED BY <1>1, <1>2, <1>4

\* An outcome with another screen.
LEMMA ScreenPut ==
    ASSUME NEW D \in Outcomes, NEW scr \in Screens, NEW F, F = [D EXCEPT !.scr = scr]
    PROVE  F \in Outcomes /\ F.ok = D.ok /\ F.scr = scr /\ F.q = D.q
BY DEF Outcomes

\* A screen that shows other rows, or titles.
LEMMA ScreenIs ==
    ASSUME NEW scr \in Screens
    PROVE  /\ scr = [pulled |-> scr.pulled, rows |-> scr.rows, titles |-> scr.titles,
                     names |-> scr.names, refused |-> scr.refused]
           /\ scr.pulled \in SUBSET Titles /\ scr.rows \in SUBSET (Titles \X (Nat \ {0}))
           /\ scr.titles \in SUBSET Titles /\ scr.names \in Seq(Apps)
           /\ scr.refused \in BOOLEAN
BY DEF Screens

\* A title is drawn as Paint has it.
LEMMA DrawTitleIs ==
    ASSUME NEW S, Good(S), S.bar \in Apps, NEW scr \in Screens, NEW t \in Titles, NEW F,
           F = [scr EXCEPT !.titles = IF "sel" \in S.marks[S.bar][<<t, 0>>] THEN @ \cup {t}
                                      ELSE @ \ {t}],
           NEW e, e = [do |-> "title", t |-> t, k |-> 0]
    PROVE  F = Paint(Chosen(S), S.acc, scr, e)
<1>1. <<t, 0>> \in Chosen(S) <=> "sel" \in S.marks[S.bar][<<t, 0>>]
  <2>1. <<t, 0>> \in Objects /\ <<t, 0>> \in Titles \X Nat
    BY ObjectsIs
  <2>2. S.bar # NoApp
    BY MenuAssumption
  <2> QED BY <2>1, <2>2 DEF Chosen
<1> DEFINE sel == Chosen(S)
           old == scr.titles
           new == IF "sel" \in S.marks[S.bar][<<t, 0>>] THEN old \cup {t} ELSE old \ {t}
<1>2. F = [scr EXCEPT !.titles = new]
  BY ScreenIs
<1>3. new = (old \ {t}) \cup {u \in {t} : <<u, 0>> \in sel}
  BY <1>1
<1>4. Paint(sel, S.acc, scr, e)
        = [scr EXCEPT !.titles = (old \ {t}) \cup {u \in {t} : <<u, 0>> \in sel}]
  BY ScreenIs DEF Paint
<1> HIDE DEF old, new, sel
<1> QED BY <1>2, <1>3, <1>4 DEF sel

\* A row is drawn as Paint has it.
LEMMA DrawRowIs ==
    ASSUME NEW S, Good(S), S.bar \in Apps, NEW scr \in Screens, NEW t \in Titles,
           NEW k \in 1 .. RowsOf(S, t),
           NEW e, e = [do |-> "row", t |-> t, k |-> k]
    PROVE  PaintRow(S, scr, t, k) = Paint(Chosen(S), S.acc, scr, e)
<1> DEFINE state == IF t = DeskTitle THEN S.desk[k] ELSE S.marks[S.bar][<<t, k>>]
           sel == Chosen(S)
           old == scr.rows
           new == IF "sel" \in state THEN old \cup {<<t, k>>} ELSE old \ {<<t, k>>}
<1>0. S \in Handled /\ Len(S.desk) \in Nat
  BY HandledIs, LenProperties DEF Good
<1>1. <<t, k>> \in sel <=> "sel" \in state
  <2>1. k \in Nat \ {0} /\ (t = DeskTitle => k <= Len(S.desk))
        /\ (t # DeskTitle => k \in 0 .. Rows[t])
    BY <1>0, ObjectsIs DEF RowsOf
  <2>2. t # DeskTitle => <<t, k>> \in Objects
    BY <2>1, ObjectsIs
  <2>3. S.bar # NoApp
    BY MenuAssumption
  <2> QED BY <2>1, <2>2, <2>3 DEF Chosen
<1>2. PaintRow(S, scr, t, k) = [scr EXCEPT !.rows = new]
  BY ScreenIs DEF PaintRow
<1> HIDE DEF state
<1>3. new = (old \ {<<t, k>>}) \cup ({<<t, k>>} \cap sel)
  BY <1>1
<1>4. Paint(sel, S.acc, scr, e)
        = [scr EXCEPT !.rows = (old \ {<<t, k>>}) \cup ({<<t, k>>} \cap sel)]
  BY ScreenIs DEF Paint
<1> HIDE DEF old, new, sel
<1> QED BY <1>2, <1>3, <1>4 DEF sel

\* A pull-down is drawn as Paint has it.
LEMMA DrawPullIs ==
    ASSUME NEW S, Good(S), S.bar \in Apps, NEW scr \in Screens, NEW t \in Titles,
           NEW e, e = [do |-> "pull", t |-> t, k |-> 0]
    PROVE  PaintPull(S, scr, t) = Paint(Chosen(S), S.acc, scr, e)
<1> DEFINE n == IF t = DeskTitle THEN Len(S.desk) ELSE Rows[t]
           state(k) == IF t = DeskTitle THEN S.desk[k] ELSE S.marks[S.bar][<<t, k>>]
           sel == Chosen(S)
           A == {r \in scr.rows : r[1] # t}
           B == {<<t, k>> : k \in {j \in 1 .. n : "sel" \in state(j)}}
           C == {r \in sel : r[1] = t /\ r[2] # 0}
           names == IF t = DeskTitle THEN S.acc ELSE scr.names
<1>0. S \in Handled /\ Len(S.desk) \in Nat /\ S.bar # NoApp
  BY HandledIs, LenProperties, MenuAssumption DEF Good
<1>1. n \in Nat
  BY <1>0, ObjectsIs
<1>2. ASSUME NEW k \in Nat \ {0}
      PROVE  <<t, k>> \in sel <=> k \in 1 .. n /\ "sel" \in state(k)
  <2>1. CASE t = DeskTitle
    BY <1>0, <2>1 DEF Chosen
  <2>2. CASE t # DeskTitle
    <3>1. <<t, k>> \in Objects <=> k \in 1 .. n
      BY <1>1, <2>2, ObjectsIs
    <3> QED BY <1>0, <2>2, <3>1 DEF Chosen
  <2> QED BY <2>1, <2>2
<1>3. B = C
  <2> HIDE DEF state, n
  <2>1. ASSUME NEW r \in B PROVE r \in C
    <3>1. PICK k \in 1 .. n : r = <<t, k>> /\ "sel" \in state(k)
      BY <2>1
    <3> QED BY <1>1, <1>2, <3>1
  <2>2. ASSUME NEW r \in C PROVE r \in B
    <3>1. r \in Titles \X Nat /\ r[1] = t /\ r[2] # 0 /\ r \in sel
      BY <2>2 DEF Chosen
    <3>2. PICK k \in Nat \ {0} : r = <<t, k>>
      BY <3>1
    <3> QED BY <1>2, <3>1, <3>2
  <2> QED BY <2>1, <2>2
<1>4. PaintPull(S, scr, t)
        = [scr EXCEPT !.pulled = @ \cup {t}, !.rows = A \cup B, !.names = names]
  BY ScreenIs DEF PaintPull
<1>5. Paint(sel, S.acc, scr, e)
        = [scr EXCEPT !.pulled = @ \cup {t}, !.rows = A \cup C, !.names = names]
  BY ScreenIs DEF Paint
<1> HIDE DEF A, B, C, names, sel
<1> QED BY <1>3, <1>4, <1>5 DEF sel

\* Two screens that show the same are the same.
LEMMA ScreenSame ==
    ASSUME NEW p \in Screens, NEW q \in Screens, p.pulled = q.pulled, p.rows = q.rows,
           p.titles = q.titles, p.names = q.names, p.refused = q.refused
    PROVE  p = q
BY ScreenIs

\* Some fields of a screen are put, together or the titles last.
LEMMA PutIs ==
    ASSUME NEW scr \in Screens, NEW p \in SUBSET Titles,
           NEW R \in SUBSET (Titles \X (Nat \ {0})), NEW n \in Seq(Apps),
           NEW B \in SUBSET Titles,
           NEW G, G = [scr EXCEPT !.pulled = p, !.rows = R, !.names = n],
           NEW F, F = [scr EXCEPT !.pulled = p, !.rows = R, !.names = n, !.titles = B],
           NEW H, H = [G EXCEPT !.titles = B]
    PROVE  F = H /\ F \in Screens
<1>1. /\ G \in Screens /\ G.pulled = p /\ G.rows = R /\ G.names = n
      /\ G.titles = scr.titles /\ G.refused = scr.refused
  BY DEF Screens
<1>2. /\ F \in Screens /\ F.pulled = p /\ F.rows = R /\ F.names = n
      /\ F.titles = B /\ F.refused = scr.refused
  BY DEF Screens
<1>3. /\ H \in Screens /\ H.pulled = p /\ H.rows = R /\ H.names = n
      /\ H.titles = B /\ H.refused = scr.refused
  BY ONLY <1>1, H = [G EXCEPT !.titles = B], B \in SUBSET Titles DEF Screens
<1> QED BY <1>2, <1>3, ScreenSame

\* A bar is drawn over a screen without the pull-down, as Paint has it.
LEMMA DrawRestoreIs ==
    ASSUME NEW S, Good(S), S.bar \in Apps, NEW scr \in Screens, NEW t \in Titles,
           NEW e, e = [do |-> "restore", t |-> t, k |-> 0]
    PROVE  PaintBar(S, Uncovered(scr, t)) = Paint(Chosen(S), S.acc, scr, e)
<1> DEFINE sel == Chosen(S)
           A == {u \in Titles : "sel" \in S.marks[S.bar][<<u, 0>>]}
           B == {u \in Titles : <<u, 0>> \in sel}
           G == Uncovered(scr, t)
<1>1. ASSUME NEW u \in Titles PROVE <<u, 0>> \in sel <=> "sel" \in S.marks[S.bar][<<u, 0>>]
  <2>1. <<u, 0>> \in Objects /\ <<u, 0>> \in Titles \X Nat
    BY ObjectsIs
  <2>2. S.bar # NoApp
    BY MenuAssumption
  <2> QED BY <2>1, <2>2 DEF Chosen
<1>2. A = B
  <2> HIDE DEF sel
  <2> QED BY <1>1
<1>4. PaintBar(S, G) = [G EXCEPT !.titles = A]
  BY DEF PaintBar
<1>5. Paint(sel, S.acc, scr, e) = [G EXCEPT !.titles = B]
  <2> DEFINE p == scr.pulled \ {t}
             R == {r \in scr.rows : r[1] # t}
             n == IF t = DeskTitle THEN <<>> ELSE scr.names
             F == Paint(sel, S.acc, scr, e)
  <2>1. F = [scr EXCEPT !.pulled = p, !.rows = R, !.names = n, !.titles = B]
    BY DEF Paint
  <2>2. G = [scr EXCEPT !.pulled = p, !.rows = R, !.names = n]
    BY DEF Uncovered
  <2>3. /\ p \in SUBSET Titles /\ R \in SUBSET (Titles \X (Nat \ {0}))
        /\ n \in Seq(Apps) /\ B \in SUBSET Titles
    BY ScreenIs
  <2> HIDE DEF p, R, n, B, G, F
  <2>4. F = [G EXCEPT !.titles = B]
    BY <2>1, <2>2, <2>3, PutIs
  <2> QED BY <2>4 DEF F
<1> HIDE DEF A, B, G, sel
<1> QED BY <1>2, <1>4, <1>5 DEF sel, G

\* The pull-down is painted over: all that are told have room, and the message
\* keeps its own.
LEMMA RestoreIs ==
    ASSUME NEW S, Good(S), S.bar \in Apps, NEW D \in Outcomes, D.ok, NEW t \in Titles,
           NEW e, e = [do |-> "restore", t |-> t, k |-> 0], e \in Drawings,
           NEW F, F = Restore(S, D, t)
    PROVE  /\ F \in Outcomes
           /\ F.ok => /\ F.scr = Paint(Chosen(S), S.acc, D.scr, e)
                      /\ Reserved(S, D.q) => Reserved(S, F.q)
<1> DEFINE told == Exposed \cap live
           one(a) == IF S.msg.to = a THEN 1 ELSE 0
           need(a) == Len(D.q[a]) + 1 + one(a)
           note == [type |-> "redraw"]
           more == [a \in Apps |-> IF a \in told THEN Append(D.q[a], note) ELSE D.q[a]]
           old == D.scr
           scr == PaintBar(S, Uncovered(old, t))
           full == \E a \in told : need(a) > QueueMax
<1>0. /\ D = [ok |-> D.ok, scr |-> D.scr, q |-> D.q] /\ D.ok \in BOOLEAN
      /\ D.scr \in Screens /\ D.q \in [Apps -> Seq(Mail)]
      /\ \A a \in Apps : Len(D.q[a]) <= QueueMax /\ Len(D.q[a]) \in Nat
  BY OutcomeIs
<1>1. F = IF full THEN [D EXCEPT !.ok = FALSE] ELSE [D EXCEPT !.q = more, !.scr = scr]
  <2>1. F = IF \E a \in told : need(a) > QueueMax THEN [D EXCEPT !.ok = FALSE]
            ELSE [D EXCEPT !.q = [a \in Apps |-> IF a \in told
                                      THEN Append(@[a], [type |-> "redraw"])
                                      ELSE @[a]],
                           !.scr = PaintBar(S, Uncovered(@, t))]
    BY Zenon DEF Restore
  <2> HIDE DEF need, told
  <2> QED BY <2>1
<1>2. scr = Paint(Chosen(S), S.acc, D.scr, e)
  BY <1>0, DrawRestoreIs
<1>3. scr \in Screens
  <2>1. Chosen(S) \in SUBSET (Titles \X Nat)
    BY DEF Chosen
  <2>2. S.acc \in Seq(Apps) \/ TRUE
    OBVIOUS
  <2>3. Paint(Chosen(S), <<>>, D.scr, e) = Paint(Chosen(S), S.acc, D.scr, e)
    BY DEF Paint
  <2>4. Paint(Chosen(S), <<>>, D.scr, e) \in Screens
    <3>1. <<>> \in Seq(Apps)
      OBVIOUS
    <3> QED BY <1>0, <2>1, <3>1, PaintTyped
  <2> QED BY <1>2, <2>3, <2>4
<1>4. note \in Mail /\ told \subseteq Apps /\ QueueMax \in Nat
  BY MenuAssumption DEF Mail
<1>5. CASE full
  <2> HIDE DEF full
  <2>1. F = [D EXCEPT !.ok = FALSE]
    BY <1>1, <1>5
  <2>2. F \in Outcomes /\ ~F.ok
    BY <2>1 DEF Outcomes
  <2> QED BY <2>2
<1>6. CASE ~full
  <2>1. \A a \in told : Len(D.q[a]) + 1 + one(a) <= QueueMax
    <3>1. \A a \in told : ~(need(a) > QueueMax)
      BY <1>6
    <3>2. \A a \in told : Len(D.q[a]) \in Nat /\ one(a) \in {0, 1}
      BY <1>0, <1>4
    <3> HIDE DEF told, one
    <3> QED BY <1>4, <3>1, <3>2
  <2>2. F = [D EXCEPT !.q = more, !.scr = scr]
    BY <1>1, <1>6
  <2> HIDE DEF full, scr, note, told
  <2>3. ASSUME NEW a \in Apps
        PROVE  /\ more[a] \in Seq(Mail)
               /\ Len(more[a]) = IF a \in told THEN Len(D.q[a]) + 1 ELSE Len(D.q[a])
    <3>1. D.q[a] \in Seq(Mail) /\ more[a] = IF a \in told THEN Append(D.q[a], note) ELSE D.q[a]
      BY <1>0
    <3> HIDE DEF more
    <3> QED BY <1>4, <3>1
  <2>4. more \in [Apps -> Seq(Mail)]
    BY <2>3
  <2> HIDE DEF more
  <2>5. \A a \in Apps : Len(more[a]) <= QueueMax
    <3> SUFFICES ASSUME NEW a \in Apps PROVE Len(more[a]) <= QueueMax
      OBVIOUS
    <3>1. Len(D.q[a]) \in Nat /\ Len(D.q[a]) <= QueueMax
      BY <1>0
    <3>2. a \in told => Len(D.q[a]) + 1 <= QueueMax
      <4>1. one(a) \in {0, 1}
        OBVIOUS
      <4> HIDE DEF one
      <4> QED BY <1>4, <2>1, <3>1, <4>1
    <3> QED BY <2>3, <3>1, <3>2
  <2>6. F \in Outcomes /\ F.scr = scr /\ F.q = more
    <3>1. more \in Boxes
      BY <2>4, <2>5 DEF Boxes
    <3> QED BY <1>0, <1>3, <2>2, <3>1 DEF Outcomes
  <2>7. Reserved(S, D.q) => Reserved(S, F.q)
    <3> SUFFICES ASSUME S.msg # None, Len(D.q[S.msg.to]) < QueueMax
                 PROVE  Len(F.q[S.msg.to]) < QueueMax
      BY DEF Reserved
    <3> DEFINE to == S.msg.to
    <3>1. to \in Apps
      <4>1. S.msg \in Notes
        BY HandledIs DEF Good
      <4> QED BY <4>1 DEF Notes
    <3>2. one(to) = 1
      OBVIOUS
    <3> HIDE DEF one
    <3>3. Len(more[to]) = IF to \in told THEN Len(D.q[to]) + 1 ELSE Len(D.q[to])
      BY <2>3, <3>1
    <3>4. to \in told => Len(D.q[to]) + 1 + 1 <= QueueMax
      BY <2>1, <3>2
    <3>5. Len(D.q[to]) \in Nat
      BY <1>0, <3>1
    <3> HIDE DEF to
    <3>6. Len(more[to]) < QueueMax
      <4>1. Len(D.q[to]) < QueueMax
        BY DEF to
      <4> QED BY <1>4, <3>3, <3>4, <3>5, <4>1
    <3> QED BY <2>6, <3>6 DEF to
  <2> QED BY <1>2, <2>6, <2>7
<1> QED BY <1>5, <1>6

\* An effect that is drawn while nothing is refused is painted, and leaves the
\* message its room.
Follows(S, D, F, e) ==
    /\ F \in Outcomes
    /\ F.ok => /\ F.scr = Paint(Chosen(S), S.acc, D.scr, e)
               /\ Reserved(S, D.q) => Reserved(S, F.q)

\* A screen is painted on and nothing else changes.
LEMMA PutFollows ==
    ASSUME NEW S, Good(S), Ground, NEW D \in Outcomes, NEW e \in Drawings, NEW F, NEW scr,
           F = [D EXCEPT !.scr = scr], scr = Paint(Chosen(S), S.acc, D.scr, e)
    PROVE  Follows(S, D, F, e)
<1>1. scr \in Screens
  <2>1. Chosen(S) \in SUBSET (Titles \X Nat)
    BY DEF Chosen
  <2>2. S.acc \in Seq(Apps)
    BY HandledDraws DEF Good, Drawer
  <2> QED BY <2>1, <2>2, OutcomeIs, PaintTyped
<1>2. F \in Outcomes /\ F.ok = D.ok /\ F.scr = scr /\ F.q = D.q
  BY <1>1, ScreenPut
<1> QED BY <1>2 DEF Follows

\* Draw does what Paint says, or fails, of an effect whose row is 0 if unused.
LEMMA DrawPlainIs ==
    ASSUME NEW S, Good(S), Ground, NEW D \in Outcomes, D.ok, NEW e \in Drawings,
           e.do = "row" => e.k \in 1 .. RowsOf(S, e.t), e.do # "row" => e.k = 0
    PROVE  Follows(S, D, Draw(S, D, e), e)
<1> DEFINE F == Draw(S, D, e)
           t == e.t
           k == e.k
<1>0. D.scr \in Screens /\ t \in Titles
  BY OutcomeIs DEF Drawings
<1>1. CASE e.do = "save"
  <2>1. F = D
    BY <1>1 DEF Draw
  <2>2. Paint(Chosen(S), S.acc, D.scr, e) = D.scr
    BY <1>1 DEF Paint
  <2> QED BY <2>1, <2>2 DEF Follows
<1>2. CASE e.do # "save" /\ S.bar \notin live
  <2>1. F = [D EXCEPT !.ok = FALSE]
    BY <1>2 DEF Draw
  <2>2. F \in Outcomes /\ ~F.ok
    BY <2>1 DEF Outcomes
  <2> QED BY <2>2 DEF Follows
<1>3. CASE e.do # "save" /\ S.bar \in live
  <2>0. S.bar \in Apps
    BY <1>3 DEF Ground
  <2>1. CASE e.do = "title"
    <3> DEFINE scr == [D.scr EXCEPT !.titles =
                IF "sel" \in S.marks[S.bar][<<t, 0>>] THEN @ \cup {t} ELSE @ \ {t}]
               old == D.scr
    <3>1. F = [D EXCEPT !.scr = scr]
      BY <1>3, <2>1, OutcomeIs DEF Draw
    <3>2. e = [do |-> "title", t |-> t, k |-> 0]
      BY <2>1 DEF Drawings
    <3>3. scr = [old EXCEPT !.titles =
                IF "sel" \in S.marks[S.bar][<<t, 0>>] THEN @ \cup {t} ELSE @ \ {t}]
      OBVIOUS
    <3> HIDE DEF scr, t, old
    <3>4. scr = Paint(Chosen(S), S.acc, old, e)
      BY <1>0, <2>0, <3>2, <3>3, DrawTitleIs DEF old
    <3> QED BY <3>1, <3>4, PutFollows DEF old
  <2>2. CASE e.do = "row"
    <3> DEFINE scr == PaintRow(S, D.scr, t, k)
    <3>1. F = [D EXCEPT !.scr = scr]
      BY <1>3, <2>2 DEF Draw
    <3>2. e = [do |-> "row", t |-> t, k |-> k] /\ k \in 1 .. RowsOf(S, t)
      BY <2>2 DEF Drawings
    <3> HIDE DEF t, k
    <3>3. scr = Paint(Chosen(S), S.acc, D.scr, e)
      BY <1>0, <2>0, <3>2, DrawRowIs
    <3> HIDE DEF scr
    <3> QED BY <3>1, <3>3, PutFollows
  <2>3. CASE e.do = "pull"
    <3> DEFINE scr == PaintPull(S, D.scr, t)
    <3>1. F = [D EXCEPT !.scr = scr]
      BY <1>3, <2>3 DEF Draw
    <3>2. e = [do |-> "pull", t |-> t, k |-> 0]
      BY <2>3 DEF Drawings
    <3> HIDE DEF t, k
    <3>3. scr = Paint(Chosen(S), S.acc, D.scr, e)
      BY <1>0, <2>0, <3>2, DrawPullIs
    <3> HIDE DEF scr
    <3> QED BY <3>1, <3>3, PutFollows
  <2>4. CASE e.do = "restore"
    <3>1. F = Restore(S, D, t)
      BY <1>3, <2>4 DEF Draw
    <3>2. e = [do |-> "restore", t |-> t, k |-> 0]
      BY <2>4 DEF Drawings
    <3> HIDE DEF t, k, F
    <3>3. /\ F \in Outcomes
          /\ F.ok => /\ F.scr = Paint(Chosen(S), S.acc, D.scr, e)
                     /\ Reserved(S, D.q) => Reserved(S, F.q)
      BY <1>0, <2>0, <3>1, <3>2, RestoreIs
    <3> QED BY <3>3 DEF Follows, F
  <2> QED BY <1>3, <2>1, <2>2, <2>3, <2>4 DEF Drawings
<1> QED BY <1>1, <1>2, <1>3

\* Draw does what Paint says, or fails.
LEMMA DrawIs ==
    ASSUME NEW S, Good(S), Ground, NEW D \in Outcomes, D.ok, NEW e \in Drawings,
           e.do = "row" => e.k \in 1 .. RowsOf(S, e.t)
    PROVE  Follows(S, D, Draw(S, D, e), e)
<1>1. CASE e.do = "row"
  BY <1>1, DrawPlainIs
<1>2. CASE e.do # "row"
  <2> DEFINE p == [do |-> e.do, t |-> e.t, k |-> 0]
  <2>1. p \in Drawings /\ p.do = e.do /\ p.t = e.t /\ p.k = 0
    BY <1>2 DEF Drawings
  <2> HIDE DEF p
  <2>2. Follows(S, D, Draw(S, D, p), p)
    BY <1>2, <2>1, DrawPlainIs
  <2>3. Draw(S, D, p) = Draw(S, D, e)
    BY <1>2, <2>1 DEF Draw, Drawings
  <2>4. Paint(Chosen(S), S.acc, D.scr, p) = Paint(Chosen(S), S.acc, D.scr, e)
    BY <1>2, <2>1 DEF Paint, Drawings
  <2> QED BY <2>2, <2>3, <2>4 DEF Follows
<1> QED BY <1>1, <1>2

\* All the effects are drawn as Painted has them, or one fails.
LEMMA DrawnIs ==
    ASSUME NEW S, Good(S), Ground, NEW D \in Outcomes, D.ok
    PROVE  LET F == Drawn(S, D)
           IN  /\ F \in Outcomes
               /\ F.ok => /\ F.scr = Painted(Chosen(S), S.acc, D.scr, S.fx)
                          /\ Reserved(S, D.q) => Reserved(S, F.q)
<1> DEFINE fx == S.fx
           sel == Chosen(S)
           acc == S.acc
           scr == D.scr
<1>0. S \in Handled /\ fx \in Seq(Drawings) /\ Drawable(S)
  BY HandledIs DEF Good
<1>1. PICK k \in Nat : k = Len(fx)
  BY <1>0, LenProperties
<1>2. PICK now : DrawLoop(S, D, fx, k, now)
  BY <1>1, DrawnTurns
<1>3. PICK after : PaintLoop(sel, acc, scr, fx, k, after)
  BY <1>1, PaintedTurns
<1>4. ASSUME NEW n \in 1 .. k
      PROVE  fx[n] \in Drawings /\ (fx[n].do = "row" => fx[n].k \in 1 .. RowsOf(S, fx[n].t))
  <2>1. fx[n] \in Drawings
    BY <1>0, <1>1, ElementOfSeq
  <2>2. fx[n].do = "row" => fx[n].k \in 1 .. RowsOf(S, fx[n].t)
    BY <1>0, <1>1 DEF Drawable
  <2> QED BY <2>1, <2>2
<1> DEFINE P == {n \in 0 .. k :
                   /\ now[n] \in Outcomes
                   /\ now[n].ok => /\ now[n].scr = after[n]
                                   /\ Reserved(S, D.q) => Reserved(S, now[n].q)}
<1> HIDE DEF fx, sel, acc, scr
<1>5. 0 \in P
  <2>1. now[0] = D
    BY <1>2 DEF DrawLoop
  <2>2. after[0] = D.scr
    BY <1>3 DEF PaintLoop, scr
  <2> QED BY <2>1, <2>2
<1>6. ASSUME NEW n \in 1 .. k, n - 1 \in P PROVE n \in P
  <2> DEFINE A == now[n - 1]
             B == now[n]
             p == after[n - 1]
             q == after[n]
             e == fx[n]
  <2>1. B = Draw(S, A, e)
    BY <1>2 DEF DrawLoop
  <2>2. q = Paint(sel, acc, p, e)
    BY <1>3 DEF PaintLoop
  <2>3. A \in Outcomes /\ (A.ok => A.scr = p /\ (Reserved(S, D.q) => Reserved(S, A.q)))
    BY <1>6
  <2>4. e \in Drawings /\ (e.do = "row" => e.k \in 1 .. RowsOf(S, e.t)) /\ n \in 0 .. k
    BY <1>4
  <2>5. SUFFICES /\ B \in Outcomes
                 /\ B.ok => B.scr = q /\ (Reserved(S, D.q) => Reserved(S, B.q))
    BY <2>4
  <2> HIDE DEF A, B, p, q, e, P
  <2>6. CASE A.ok
    <3>1. Follows(S, A, B, e)
      BY <2>1, <2>3, <2>4, <2>6, DrawIs
    <3> QED BY <2>2, <2>3, <2>6, <3>1 DEF Follows, sel, acc
  <2>7. CASE ~A.ok
    <3>1. B = A
      BY <2>1, <2>7 DEF Draw
    <3> QED BY <2>3, <2>7, <3>1
  <2> QED BY <2>6, <2>7
<1>7. k \in P
  <2> DEFINE Q == P
  <2>1. k \in Q
    <3> HIDE DEF P
    <3> QED BY <1>5, <1>6, Turns
  <2> QED BY <2>1
<1>8. Drawn(S, D) = now[k] /\ Painted(sel, acc, scr, fx) = after[k]
  BY <1>2, <1>3 DEF DrawLoop, PaintLoop
<1> QED BY <1>7, <1>8 DEF fx, sel, acc, scr

\* What the effects and the message make of the screen and the queues.
Lands(S, D) ==
    /\ D.ok \in BOOLEAN /\ D.scr \in Screens /\ D.q \in Boxes
    /\ D.scr.refused \/ (~screen.refused /\ D.scr = After(S))
    /\ S.msg # None /\ ~D.scr.refused =>
          /\ D.q[S.msg.to] # <<>>
          /\ Last(D.q[S.msg.to]).type = S.msg.type /\ Last(D.q[S.msg.to]).t = S.msg.t

\* Nothing is drawn any more.
LEMMA RefusedIs ==
    ASSUME NEW S, NEW D \in Outcomes, NEW F,
           F = [D EXCEPT !.ok = FALSE, !.scr = [Blank EXCEPT !.refused = TRUE]]
    PROVE  Lands(S, F)
<1>1. [Blank EXCEPT !.refused = TRUE] \in Screens /\ [Blank EXCEPT !.refused = TRUE].refused
  <2>1. <<>> \in Seq(Apps)
    OBVIOUS
  <2>2. Blank \in Screens
    BY <2>1 DEF Blank, Screens
  <2> QED BY ONLY <2>2 DEF Screens
<1> DEFINE b == [Blank EXCEPT !.refused = TRUE]
<1> HIDE DEF b
<1>2. F = [D EXCEPT !.ok = FALSE, !.scr = b] /\ b \in Screens /\ b.refused
  BY <1>1 DEF b
<1>3. F.ok = FALSE /\ F.scr = b /\ F.q = D.q /\ D.q \in Boxes
  BY <1>2 DEF Outcomes
<1> QED BY <1>2, <1>3 DEF Lands

\* The effects and the message of a handler land together or the screen is
\* known to be out of date.
LEMMA AppliedIs ==
    ASSUME NEW S, Good(S), Ground, S.all = FALSE, queue \in Boxes
    PROVE  Lands(S, Applied(S, screen, queue))
<1> DEFINE D0 == [ok |-> TRUE, scr |-> screen, q |-> queue]
           drawn == Drawn(S, D0)
           barred == IF drawn.ok /\ S.all
                     THEN [drawn EXCEPT !.scr = PaintBar(S, @)] ELSE drawn
           done == IF screen.refused THEN [barred EXCEPT !.scr = screen] ELSE barred
           refused(D) == [D EXCEPT !.ok = FALSE, !.scr = [Blank EXCEPT !.refused = TRUE]]
           note == [type |-> S.msg.type, t |-> S.msg.t, k |-> S.msg.k]
           sent == [done EXCEPT !.q[S.msg.to] = Append(@, note)]
           fits == S.msg.to \in live /\ Room(queue, S.msg.to)
           more == Room(done.q, S.msg.to)
           T == Applied(S, screen, queue)
<1>1. T = IF S.msg # None /\ ~fits THEN refused(D0)
          ELSE IF ~done.ok THEN refused(done)
          ELSE IF S.msg = None \/ ~more THEN done ELSE sent
  BY DEF Applied
<1>2. D0 \in Outcomes /\ D0.ok /\ D0.scr = screen /\ D0.q = queue
  BY DEF Outcomes, Ground
<1> HIDE DEF D0, T
<1>3. /\ drawn \in Outcomes
      /\ drawn.ok => /\ drawn.scr = After(S)
                     /\ Reserved(S, queue) => Reserved(S, drawn.q)
  <2>1. /\ drawn \in Outcomes
        /\ drawn.ok => /\ drawn.scr = Painted(Chosen(S), S.acc, D0.scr, S.fx)
                       /\ Reserved(S, D0.q) => Reserved(S, drawn.q)
    BY <1>2, DrawnIs
  <2> HIDE DEF drawn
  <2> QED BY <1>2, <2>1 DEF After
<1> HIDE DEF drawn
<1>4. barred = drawn
  OBVIOUS
<1> HIDE DEF barred
<1>5. /\ done \in Outcomes /\ done.ok = drawn.ok /\ done.q = drawn.q
      /\ done.scr = IF screen.refused THEN screen ELSE drawn.scr
  <2>1. CASE screen.refused
    <3>1. done = [drawn EXCEPT !.scr = screen]
      BY <1>4, <2>1
    <3> HIDE DEF done
    <3> QED BY <1>3, <2>1, <3>1, ScreenPut DEF Ground
  <2>2. CASE ~screen.refused
    <3>1. done = drawn
      BY <1>4, <2>2
    <3> QED BY <1>3, <2>2, <3>1
  <2> QED BY <2>1, <2>2
<1> HIDE DEF done
<1>6. Lands(S, refused(D0)) /\ Lands(S, refused(done))
  BY <1>2, <1>5, RefusedIs
<1>7. done.ok => done.scr \in Screens /\ (done.scr.refused \/ (~screen.refused /\ done.scr = After(S)))
  BY <1>3, <1>5, OutcomeIs
<1>8. done.ok /\ S.msg = None => Lands(S, done)
  BY <1>5, <1>7, OutcomeIs DEF Lands
<1>9. S.msg # None => S.msg \in Notes /\ S.msg.to \in Apps
  <2>1. S.msg \in Notes \cup {None}
    BY HandledIs DEF Good
  <2> QED BY <2>1 DEF Notes
<1>10. done.ok /\ S.msg # None /\ fits => more
  BY <1>3, <1>5 DEF Reserved, Room
<1>11. done.ok /\ S.msg # None /\ more => Lands(S, sent)
  <2> SUFFICES ASSUME done.ok, S.msg # None, more PROVE Lands(S, sent)
    OBVIOUS
  <2> DEFINE to == S.msg.to
             old == done.q[to]
             new == Append(old, note)
             q == [done.q EXCEPT ![to] = new]
  <2>1. to \in Apps /\ note \in Mail
    BY <1>9 DEF Notes, Mail
  <2>2. done.q \in [Apps -> Seq(Mail)] /\ \A a \in Apps : Len(done.q[a]) <= QueueMax
    BY <1>5, OutcomeIs
  <2>3. old \in Seq(Mail)
    BY <2>1, <2>2
  <2>4. Len(old) < QueueMax
    BY DEF Room
  <2>5. sent = [done EXCEPT !.q = q]
    BY <1>5, OutcomeIs
  <2>6. note.type = S.msg.type /\ note.t = S.msg.t
    OBVIOUS
  <2> HIDE DEF note, old, sent, more
  <2>7. new \in Seq(Mail) /\ Len(new) <= QueueMax /\ new # <<>> /\ Last(new) = note
    <3>1. Len(old) \in Nat /\ QueueMax \in Nat
      BY <2>3, LenProperties, MenuAssumption
    <3>2. new \in Seq(Mail) /\ Len(new) = Len(old) + 1 /\ new[Len(old) + 1] = note
      BY <2>1, <2>3
    <3> HIDE DEF new
    <3>3. new # <<>> /\ Len(new) <= QueueMax
      BY <2>4, <3>1, <3>2
    <3> QED BY <3>2, <3>3 DEF Last
  <2> HIDE DEF new, to
  <2>8. q \in [Apps -> Seq(Mail)] /\ q[to] = new /\ \A a \in Apps : Len(q[a]) <= QueueMax
    BY <2>1, <2>2, <2>7
  <2>9. q \in Boxes
    BY <2>8 DEF Boxes
  <2> HIDE DEF q
  <2>10. sent.ok = done.ok /\ sent.scr = done.scr /\ sent.q = q
    BY <1>5, <2>5, <2>9 DEF Outcomes
  <2>11. sent.ok \in BOOLEAN
    BY <1>5, <2>10, OutcomeIs
  <2> QED BY <1>7, <2>6, <2>7, <2>8, <2>9, <2>10, <2>11 DEF Lands, to
<1> HIDE DEF refused, sent, fits, more
<1> QED BY <1>1, <1>6, <1>8, <1>10, <1>11 DEF T

----------------------------------------------------------------------------
(* The steps *)

\* Good is of the state that is there after the step.
LEMMA NextGood ==
    ASSUME NEW Z, Good(Z), Z.acc \in Seq(live'), Start' = Z
    PROVE  Good(Start)'
<1>1. Start' \in Handled'
  BY DEF Good, Handled
<1>2. Worked(Start)' /\ Lit(Start)' /\ Drawable(Start)'
  BY DEF Good
<1> QED BY <1>1, <1>2 DEF Good

\* So is the screen.
LEMMA NextShows ==
    ASSUME NEW Z, Start' = Z, Shows(Z, screen', Pulled(Z), LitRows(Z))
    PROVE  Shows(Start, screen, Pulled(Start), LitRows(Start))'
OBVIOUS

\* The state that a handler leaves, under the bar of client b.
Rested(S, b) ==
    [m |-> S.m, marks |-> S.marks, desk |-> S.desk, acc |-> S.acc, bar |-> b,
     fx |-> <<>>, all |-> FALSE, msg |-> None]

\* It is a good one.
LEMMA RestedIs ==
    ASSUME NEW S, Good(S), NEW b \in Apps \cup {NoApp}, S.m.active => b = S.bar,
           NEW Z, Z = Rested(S, b)
    PROVE  /\ Good(Z) /\ Z.m = S.m /\ Z.marks = S.marks /\ Z.desk = S.desk
           /\ Z.acc = S.acc /\ Z.bar = b
           /\ b = S.bar => Chosen(Z) = Chosen(S)
<1>0. S \in Handled /\ Worked(S) /\ Lit(S)
  BY DEF Good
<1>1. /\ Z.m = S.m /\ Z.marks = S.marks /\ Z.desk = S.desk
      /\ Z.acc = S.acc /\ Z.bar = b /\ Z.fx = <<>>
  BY DEF Rested
<1>2. Z \in Handled
  <2>1. /\ S.m \in Managers /\ S.marks \in Trees /\ S.desk \in Seq(SUBSET Flags)
        /\ S.acc \in Seq(live)
    BY <1>0, HandledIs
  <2>2. <<>> \in Seq(Drawings)
    OBVIOUS
  <2> QED BY <2>1, <2>2 DEF Rested, Handled
<1>3. (InDesk(Z) <=> InDesk(S)) /\ RowCount(Z) = RowCount(S)
  BY <1>1 DEF InDesk, RowCount
<1>4. Worked(Z)
  BY <1>0, <1>1, <1>3 DEF Worked
<1>5. \A o : Tracked(Z, o) <=> Tracked(S, o)
  BY <1>1 DEF Tracked
<1>6. RowState(Z, Z.m.item) = RowState(S, S.m.item)
  BY <1>1, <1>3 DEF RowState
<1>7. Lit(Z)
  BY <1>0, <1>1, <1>5, <1>6 DEF Lit
<1>8. Drawable(Z)
  BY <1>1 DEF Drawable
<1>9. b = S.bar => Chosen(Z) = Chosen(S)
  BY <1>1 DEF Chosen
<1> QED BY <1>1, <1>2, <1>4, <1>7, <1>8, <1>9 DEF Good

\* Without an effect nothing is painted.
LEMMA PaintedNone ==
    ASSUME NEW sel, NEW acc, NEW scr
    PROVE  Painted(sel, acc, scr, <<>>) = scr
<1>1. PICK fx, k : fx = <<>> /\ k = 0
  OBVIOUS
<1>2. k \in Nat /\ k = Len(fx)
  BY <1>1
<1>3. PICK after : PaintLoop(sel, acc, scr, fx, k, after)
  BY <1>2, PaintedTurns
<1> QED BY <1>1, <1>3 DEF PaintLoop

\* The invariant gives a state of the manager that is painted.
LEMMA Enter ==
    ASSUME IInv
    PROVE  Ground /\ Good(Start) /\ Painting(Start) /\ queue \in Boxes
<1>1. Ground /\ queue \in Boxes /\ Good(Start)
  BY DEF IInv, Ground, Boxes
<1>2. After(Start) = screen
  <2>1. <<>> \in Seq(Drawings) /\ Start.fx = <<>>
    BY StartIs
  <2>2. PICK e \in Drawings : TRUE
    <3>1. [do |-> "title", t |-> DeskTitle, k |-> 0] \in Drawings
      BY ObjectsIs DEF Drawings
    <3> QED BY <3>1
  <2>3. \A sel, acc, scr : Painted(sel, acc, scr, <<>>) = scr
    BY PaintedNone
  <2> QED BY <2>1, <2>3 DEF After
<1>3. Painting(Start)
  BY <1>2 DEF IInv, Painting, Paints
<1> QED BY <1>1, <1>3

\* A state that lands, and is the one that is there after the step.
LEMMA LandIs ==
    ASSUME IInv, NEW S, Painting(S), NEW D, Lands(S, D), NEW Z, Good(Z),
           Z.acc \in Seq(live'), Start' = Z, Z.m = S.m, Z.acc = S.acc,
           \/ Z.bar = NoApp
           \/ Z.bar = S.bar /\ \A u \in Titles : <<u, 0>> \in Chosen(Z) <=> <<u, 0>> \in Chosen(S),
           screen' = D.scr, queue' \in Boxes, live' \subseteq Apps, loaded' \subseteq live',
           shown' \in live' \cup {NoApp}, menu'.active => shown' \in loaded'
    PROVE  IInv'
<1>1. Good(Start)'
  BY NextGood
<1>2. screen' \in Screens
  BY DEF Lands
<1>3. ASSUME ~screen'.refused
      PROVE  Shows(Start, screen, Pulled(Start), LitRows(Start))'
  <2>1. ~screen.refused /\ screen' = After(S)
    BY <1>3 DEF Lands
  <2>2. Shows(S, screen', Pulled(S), LitRows(S))
    BY <2>1 DEF Painting, Paints
  <2>3. Pulled(Z) = Pulled(S) /\ LitRows(Z) = LitRows(S)
    BY DEF Pulled, LitRows
  <2>4. Shows(Z, screen', Pulled(Z), LitRows(Z))
    BY <2>2, <2>3 DEF Shows
  <2> QED BY <2>4, NextShows
<1>4. queue' \in [Apps -> Seq(Mail)] /\ \A a \in Apps : Len(queue'[a]) <= QueueMax
  BY DEF Boxes
<1>5. screen'.refused \/ Shows(Start, screen, Pulled(Start), LitRows(Start))'
  BY <1>3
<1> QED BY <1>1, <1>2, <1>4, <1>5 DEF IInv

\* What ChoicesAreTold says of a step.
ChoiceTold ==
    LET a == menu.owner
        t == menu.title
    IN  /\ menu.tracking /\ ~menu'.tracking /\ a \in live'
        /\ loaded' = loaded
        /\ "sel" \in marks'[a][<<t, 0>>] /\ "sel" \notin menu.titleBase
        => \/ screen'.refused
           \/ queue'[a] # <<>> /\ Last(queue'[a]).type = "selected"
              /\ Last(queue'[a]).t = t

\* A state that informs the owner, and lands.
LEMMA TellIs ==
    ASSUME NEW S, Informs(S), NEW D, Lands(S, D), menu' = S.m, screen' = D.scr,
           menu.owner \in live' => /\ queue'[menu.owner] = D.q[menu.owner]
                                   /\ marks'[menu.owner] = S.marks[menu.owner]
    PROVE  ChoiceTold
BY DEF Informs, Lands, ChoiceTold

\* The handler leaves S, with the bar as it is or without one.
LEMMA LeaveIs ==
    ASSUME IInv, NEW S, Good(S), Painting(S), S.all = FALSE, Informs(S), Leave(S),
           live' = live, loaded' \subseteq live, shown' \in {shown, NoApp}, S.bar = shown,
           S.m.active => shown' = shown /\ shown' \in loaded'
    PROVE  IInv' /\ ChoiceTold
<1> DEFINE D == Applied(S, screen, queue)
           Z == Rested(S, shown')
<1>1. /\ menu' = S.m /\ marks' = S.marks /\ desk' = S.desk /\ accessory' = S.acc
      /\ screen' = D.scr /\ queue' = D.q
  BY DEF Leave
<1>2. Lands(S, D)
  BY Enter, AppliedIs
<1> HIDE DEF D
<1>3. Start' = Z
  BY <1>1 DEF Start, Rested
<1>4. shown \in Apps \cup {NoApp} /\ shown' \in Apps \cup {NoApp} /\ shown' \in live' \cup {NoApp}
  BY DEF IInv
<1>6. /\ Good(Z) /\ Z.m = S.m /\ Z.acc = S.acc /\ Z.bar = shown'
      /\ shown' = S.bar => Chosen(Z) = Chosen(S)
  <2>1. PICK b : b = shown'
    OBVIOUS
  <2>2. PICK z : z = Rested(S, b)
    OBVIOUS
  <2>3. b \in Apps \cup {NoApp} /\ (S.m.active => b = S.bar)
    BY <1>4, <2>1
  <2>4. /\ Good(z) /\ z.m = S.m /\ z.acc = S.acc /\ z.bar = b
        /\ b = S.bar => Chosen(z) = Chosen(S)
    BY <2>2, <2>3, RestedIs
  <2>5. Z = z
    BY <2>1, <2>2
  <2> HIDE DEF Z
  <2> QED BY <2>1, <2>4, <2>5
<1> HIDE DEF Z
<1>7. Z.acc \in Seq(live')
  BY <1>6, HandledIs DEF Good
<1>8. queue' \in Boxes
  BY <1>1, <1>2 DEF Lands
<1>9. live' \subseteq Apps /\ loaded' \subseteq live'
  BY DEF IInv
<1>10. IInv'
  BY <1>1, <1>2, <1>3, <1>4, <1>6, <1>7, <1>8, <1>9, LandIs
<1>11. ChoiceTold
  BY <1>1, <1>2, TellIs
<1> QED BY <1>10, <1>11

\* A handler leaves what steps make of the menu.
LEMMA SteppedLeaves ==
    ASSUME IInv, NEW S, Stepped(Start, S), Leave(S), live' = live, loaded' = loaded,
           shown' = shown
    PROVE  IInv' /\ ChoiceTold
<1>1. Good(S) /\ Painting(S) /\ Rest(Start, S) /\ S.m.active = menu.active
  BY StartIs DEF Stepped
<1>2. Informs(S)
  BY Enter, SteppedInforms
<1>3. S.all = FALSE /\ S.bar = shown
  BY <1>1, StartIs DEF Rest
<1>4. loaded' \subseteq live /\ shown' \in {shown, NoApp}
  BY DEF IInv
<1>5. S.m.active => shown' = shown /\ shown' \in loaded'
  BY <1>1 DEF IInv
<1> QED BY <1>1, <1>2, <1>3, <1>4, <1>5, LeaveIs

\* The user moves the mouse or presses a key.
LEMMA InputKeeps ==
    ASSUME IInv, NEW p, p.at = "row" => p.k \in Nat,
           \A T : TitleAt(T, p) \in Titles \cup {0} /\ TitleAt(T, p) \in {0, p.t},
           NEW down \in BOOLEAN, NEW key, MenuInput(p, down, key)
    PROVE  IInv' /\ ChoiceTold
<1> DEFINE m == [menu EXCEPT !.button = down]
<1>1. PICK S : S = [Start EXCEPT !.m.button = down] /\ Leave(Sampled(S, p, down, key).S)
  BY DEF MenuInput
<1>2. menu \in Managers /\ Start \in Handled
  BY Enter, HandledIs, StartIs DEF Good
<1>3. m \in Managers /\ Tracks(menu, m)
  BY <1>2 DEF Managers, Tracks
<1>4. S = [Start EXCEPT !.m = m]
  BY <1>1, StartIs
<1>5. Stepped(Start, S) /\ S.m = m /\ S.fx = <<>> /\ S.msg = None
  <2> HIDE DEF m
  <2>1. Tracks(Start.m, m)
    BY <1>3, StartIs
  <2>2. Stepped(Start, S) /\ S.m = m /\ S.fx = Start.fx /\ S.msg = Start.msg
    BY <1>3, <1>4, <2>1, Enter, TracksStep
  <2> QED BY <2>2, StartIs
<1>6. menu.active /\ live' = live /\ loaded' = loaded /\ shown' = shown
  BY DEF MenuInput
<1>7. S.m.active /\ S.m.tracking = menu.tracking /\ menu.button \in BOOLEAN
  BY <1>2, <1>3, <1>5, <1>6 DEF Tracks, Managers
<1>8. Good(S) /\ Painting(S)
  BY <1>5 DEF Stepped
<1>9. Ground
  BY Enter
<1> DEFINE T == Sampled(S, p, down, key).S
<1>10. Stepped(S, T)
  <2>1. TitleAt(S, p) \in Titles \cup {0} /\ \A U : TitleAt(U, p) \in {0, p.t}
    OBVIOUS
  <2>2. p.at = "row" => p.k \in Nat
    OBVIOUS
  <2>3. S.msg = None /\ S.fx = <<>> /\ menu.active /\ S.m.active
        /\ S.m.tracking = menu.tracking /\ menu.button \in BOOLEAN
    BY <1>5, <1>6, <1>7
  <2>4. Stepped(S, Sampled(S, p, down, key).S)
    BY ONLY <1>8, <1>9, <2>1, <2>2, <2>3, down \in BOOLEAN, SampledIs
  <2> QED BY <2>4
<1> HIDE DEF T
<1>11. Stepped(Start, T)
  BY <1>5, <1>10, SteppedJoin
<1>12. Leave(T)
  BY <1>1 DEF T
<1> QED BY <1>6, <1>11, <1>12, SteppedLeaves

\* What a client writes.
LEMMA MarkIs ==
    ASSUME Good(Start), NEW a \in Apps, NEW o \in Objects, NEW flag \in Flags,
           NEW on \in BOOLEAN, flag # "sel" \/ o[2] = 0
    PROVE  LET T == Mark(a, o, flag, on)
           IN  /\ Good(T) /\ T.m = menu /\ Rest(Start, T) /\ T.msg = None /\ T.fx = <<>>
               /\ Same(Start, T, IF flag = "sel" THEN {o} ELSE {})
<1> DEFINE state == SetFlag(marks[a][o], flag, on)
           tree == [marks[a] EXCEPT ![o] = state]
           M == [marks EXCEPT ![a] = tree]
           T == Mark(a, o, flag, on)
<1>0. Start \in Handled /\ Worked(Start) /\ Lit(Start) /\ marks \in Trees
  BY HandledIs, StartIs DEF Good
<1>1. T = [Start EXCEPT !.marks = M]
  BY <1>0, HandledIs, StartIs DEF Mark
<1>2. state \in SUBSET Flags
  <2>1. marks[a][o] \in SUBSET Flags
    BY <1>0 DEF Trees
  <2> QED BY <2>1 DEF SetFlag
<1>3. M \in Trees
  <2> HIDE DEF state
  <2> QED BY <1>0, <1>2 DEF Trees
<1>4. ASSUME NEW b \in Apps, NEW q \in Objects
      PROVE  M[b][q] = IF b = a /\ q = o THEN state ELSE marks[b][q]
  <2> HIDE DEF state
  <2> QED BY <1>0 DEF Trees
<1>5. flag # "sel" => ("sel" \in state <=> "sel" \in marks[a][o])
  BY DEF SetFlag
<1> HIDE DEF state, M, T
<1>6. /\ T \in Handled /\ T.m = menu /\ T.marks = M /\ T.desk = desk /\ T.acc = accessory
      /\ T.bar = shown /\ T.fx = <<>> /\ T.all = FALSE /\ T.msg = None
  <2>1. T \in Handled /\ T.m = Start.m /\ T.marks = M /\ T.desk = Start.desk
        /\ T.acc = Start.acc /\ T.bar = Start.bar /\ T.fx = Start.fx /\ T.all = Start.all
        /\ T.msg = Start.msg
    BY <1>0, <1>1, <1>3 DEF Handled
  <2> QED BY <2>1, StartIs
<1>7. \A b \in Apps, q \in Objects : q # o \/ flag # "sel" =>
          ("sel" \in T.marks[b][q] <=> "sel" \in marks[b][q])
  BY <1>4, <1>5, <1>6
<1>8. (InDesk(T) <=> InDesk(Start)) /\ RowCount(T) = RowCount(Start)
  BY <1>6, StartIs DEF InDesk, RowCount
<1>9. Worked(T)
  BY <1>0, <1>6, <1>8, StartIs DEF Worked
<1>10. Lit(T)
  <2>1. \A q : Tracked(T, q) <=> Tracked(Start, q)
    BY <1>6, StartIs DEF Tracked
  <2>2. \A b \in Apps, q \in Objects : q[2] # 0 =>
          ("sel" \in T.marks[b][q] <=> "sel" \in marks[b][q])
    BY <1>7
  <2>3. menu.tracking /\ menu.item # 0 => "sel" \in RowState(T, menu.item)
    <3> SUFFICES ASSUME menu.tracking, menu.item # 0 PROVE "sel" \in RowState(T, menu.item)
      OBVIOUS
    <3>1. "sel" \in RowState(Start, menu.item)
      BY <1>0, StartIs DEF Lit
    <3>2. CASE InDesk(Start)
      BY <1>6, <1>8, <3>1, <3>2, StartIs DEF RowState
    <3>3. CASE ~InDesk(Start)
      <4> DEFINE q == <<menu.title, menu.item>>
      <4>1. menu.owner \in Apps /\ q \in Objects /\ q[2] # 0
        <5>1. menu.title \in Titles /\ menu.item \in 0 .. RowCount(Start) /\ menu.owner \in Apps
          BY <1>0, StartIs DEF Worked
        <5>2. RowCount(Start) = Rows[menu.title]
          BY <3>3, StartIs DEF RowCount
        <5>3. <<menu.title, menu.item>> \in Objects
          BY <5>1, <5>2, ObjectsIs
        <5> QED BY <5>1, <5>3
      <4>2. RowState(Start, menu.item) = marks[menu.owner][q]
            /\ RowState(T, menu.item) = T.marks[menu.owner][q]
        BY <1>6, <1>8, <3>3, StartIs DEF RowState
      <4> HIDE DEF q
      <4> QED BY <2>2, <3>1, <4>1, <4>2
    <3> QED BY <3>2, <3>3
  <2> QED BY <1>0, <1>6, <2>1, <2>2, <2>3, StartIs DEF Lit
<1>11. Drawable(T)
  BY <1>6 DEF Drawable
<1>12. Rest(Start, T)
  BY <1>6, StartIs DEF Rest
<1>13. Same(Start, T, IF flag = "sel" THEN {o} ELSE {})
  <2> DEFINE X == IF flag = "sel" THEN {o} ELSE {}
  <2>1. ASSUME NEW q \in Titles \X Nat, q \notin X
        PROVE  q \in Chosen(T) <=> q \in Chosen(Start)
    <3>1. shown # NoApp => shown \in Apps
      BY <1>0, HandledIs, StartIs
    <3>2. q \in Objects /\ shown # NoApp =>
             ("sel" \in T.marks[shown][q] <=> "sel" \in marks[shown][q])
      BY <1>7, <2>1, <3>1
    <3>3. /\ T.bar = shown /\ Start.bar = shown /\ T.desk = desk /\ Start.desk = desk
          /\ Start.marks = marks
      BY <1>6, StartIs
    <3> QED BY <3>2, <3>3 DEF Chosen
  <2>2. Chosen(T) \subseteq Titles \X Nat /\ Chosen(Start) \subseteq Titles \X Nat
    BY DEF Chosen
  <2> HIDE DEF X
  <2>3. Chosen(T) \ X = Chosen(Start) \ X
    BY <2>1, <2>2
  <2> QED BY <1>6, <2>3, StartIs DEF Same, X
<1> QED BY <1>6, <1>9, <1>10, <1>11, <1>12, <1>13 DEF Good, T

\* A title is to be drawn: nothing else changes.
LEMMA TitleGood ==
    ASSUME NEW S, Good(S), NEW t \in Titles, NEW T, T = Effect(S, "title", t, 0),
           Len(S.fx) < DrawEffects
    PROVE  /\ Good(T) /\ T.m = S.m /\ Rest(S, T) /\ T.msg = S.msg
           /\ T.fx = Append(S.fx, [do |-> "title", t |-> t, k |-> 0])
           /\ Chosen(T) = Chosen(S)
<1> DEFINE e == [do |-> "title", t |-> t, k |-> 0]
<1>0. S \in Handled /\ Worked(S) /\ Lit(S) /\ Drawable(S) /\ e \in Drawings
  BY DEF Good, Drawings
<1>1. /\ T \in Handled /\ T.m = S.m /\ T.marks = S.marks /\ T.desk = S.desk
      /\ Rest(S, T) /\ T.msg = S.msg /\ T.fx = Append(S.fx, e)
  BY <1>0, EffectIs
<1>2. (InDesk(T) <=> InDesk(S)) /\ RowCount(T) = RowCount(S)
  BY <1>1 DEF InDesk, RowCount
<1>3. Worked(T)
  BY <1>0, <1>1, <1>2 DEF Worked, Rest
<1>4. \A o : Tracked(T, o) <=> Tracked(S, o)
  BY <1>1 DEF Tracked
<1>5. RowState(T, T.m.item) = RowState(S, S.m.item)
  BY <1>1, <1>2 DEF RowState
<1>6. Lit(T)
  BY <1>0, <1>1, <1>4, <1>5 DEF Lit
<1>7. Drawable(T)
  <2>1. e.do # "row" /\ Len(T.desk) = Len(S.desk)
    BY <1>1
  <2> HIDE DEF e
  <2> QED BY <1>0, <1>1, <2>1, DrawableMore
<1>8. Chosen(T) = Chosen(S)
  BY <1>1, SameIs DEF Rest
<1> QED BY <1>1, <1>3, <1>6, <1>7, <1>8 DEF Good

\* A handler leaves the menu as it is.
LEMMA MarkLeaves ==
    ASSUME IInv, NEW S, Good(S), Painting(S), S.m = menu, Rest(Start, S), Leave(S),
           live' = live, loaded' = loaded, shown' = shown
    PROVE  IInv' /\ ChoiceTold
<1>1. Informs(S)
  BY DEF Informs
<1>2. S.all = FALSE /\ S.bar = shown
  BY StartIs DEF Rest
<1>3. loaded' \subseteq live /\ shown' \in {shown, NoApp}
  BY DEF IInv
<1>4. S.m.active => shown' = shown /\ shown' \in loaded'
  BY DEF IInv
<1> QED BY <1>1, <1>2, <1>3, <1>4, LeaveIs

\* A mark of an object changes, but not its highlight.
LEMMA FlagPaints ==
    ASSUME IInv, NEW S, S.fx = <<>>, Rest(Start, S), S.m = menu, Same(Start, S, {})
    PROVE  Painting(S)
<1>1. S.fx = Start.fx /\ S.acc = Start.acc
  BY StartIs DEF Rest
<1>2. Pulled(S) = Pulled(Start) /\ LitRows(S) = LitRows(Start)
  BY StartIs DEF Pulled, LitRows
<1> DEFINE P == Pulled(S)
           R == LitRows(S)
<1> HIDE DEF P, R
<1>3. Paints(Start, P, R) => Paints(S, P, R)
  BY <1>1, SamePaint
<1> QED BY <1>2, <1>3, Enter DEF Painting, P, R

\* A title is highlighted, or not any more, and drawn.
LEMMA TitlePaints ==
    ASSUME IInv, NEW t \in Titles, NEW S, Rest(Start, S), S.m = menu,
           S.fx = Append(<<>>, [do |-> "title", t |-> t, k |-> 0]),
           Chosen(S) \ {<<t, 0>>} = Chosen(Start) \ {<<t, 0>>}
    PROVE  Painting(S)
<1>1. S.acc = Start.acc /\ Same(Start, S, {<<t, 0>>})
  BY DEF Rest, Same
<1>2. S.fx = Append(Start.fx, [do |-> "title", t |-> t, k |-> 0])
  BY StartIs
<1>3. Pulled(S) = Pulled(Start) /\ LitRows(S) = LitRows(Start)
  BY StartIs DEF Pulled, LitRows
<1>4. Drawer(Start)
  BY Enter, HandledDraws DEF Good
<1> DEFINE P == Pulled(S)
           R == LitRows(S)
<1> HIDE DEF P, R
<1>5. Paints(Start, P, R) => Paints(S, P, R)
  BY <1>1, <1>2, <1>4, TitlePaint
<1> QED BY <1>3, <1>5, Enter DEF Painting, P, R

\* A client checks an item.
LEMMA IcheckKeeps ==
    ASSUME IInv, NEW a \in Apps, NEW o \in Objects, NEW on \in BOOLEAN, MenuIcheck(a, o, on)
    PROVE  IInv' /\ ChoiceTold
<1> DEFINE flag == "chk"
           T == Mark(a, o, flag, on)
<1>1. flag \in Flags /\ flag # "sel" /\ Leave(T) /\ live' = live /\ loaded' = loaded
      /\ shown' = shown
  BY DEF MenuIcheck, Flags
<1> HIDE DEF flag
<1>2. /\ Good(T) /\ T.m = menu /\ Rest(Start, T) /\ T.fx = <<>> /\ Same(Start, T, {})
  BY <1>1, Enter, MarkIs
<1> HIDE DEF T
<1>3. Painting(T)
  BY <1>2, FlagPaints
<1> QED BY <1>1, <1>2, <1>3, MarkLeaves

\* A client enables an item or a title, or disables it.
LEMMA IenableKeeps ==
    ASSUME IInv, NEW a \in Apps, NEW o \in Objects, NEW on \in BOOLEAN, MenuIenable(a, o, on)
    PROVE  IInv' /\ ChoiceTold
<1> DEFINE flag == "dis"
           off == ~on
           T == Mark(a, o, flag, off)
           drawn == o[2] = 0 /\ menu.active /\ menu.owner = a
           U == Effect(T, "title", o[1], 0)
<1>1. Leave(IF drawn THEN U ELSE T) /\ live' = live /\ loaded' = loaded /\ shown' = shown
  BY DEF MenuIenable
<1>2. flag \in Flags /\ flag # "sel" /\ off \in BOOLEAN
  BY DEF Flags
<1> HIDE DEF flag, off
<1>3. /\ Good(T) /\ T.m = menu /\ Rest(Start, T) /\ T.fx = <<>> /\ Same(Start, T, {})
  BY <1>2, Enter, MarkIs
<1> HIDE DEF T
<1>4. Painting(T)
  BY <1>3, FlagPaints
<1>5. o[1] \in Titles
  BY ObjectsIs
<1> DEFINE t == o[1]
<1>6. Good(U) /\ Painting(U) /\ U.m = menu /\ Rest(Start, U)
  <2>1. t \in Titles /\ U = Effect(T, "title", t, 0) /\ Len(T.fx) < DrawEffects
    BY <1>3, <1>5 DEF DrawEffects
  <2> HIDE DEF U, t
  <2>2. /\ Good(U) /\ U.m = T.m /\ Rest(T, U)
        /\ U.fx = Append(T.fx, [do |-> "title", t |-> t, k |-> 0])
        /\ Chosen(U) = Chosen(T)
    BY <1>3, <2>1, TitleGood
  <2>3. Rest(Start, U) /\ U.m = menu
    BY <1>3, <2>2 DEF Rest
  <2>4. Chosen(U) \ {<<t, 0>>} = Chosen(Start) \ {<<t, 0>>}
    BY <1>3, <2>2 DEF Same
  <2>5. Painting(U)
    BY <1>3, <2>1, <2>2, <2>3, <2>4, TitlePaints
  <2> QED BY <2>2, <2>3, <2>5
<1> HIDE DEF U, drawn
<1>7. Leave(U) \/ Leave(T)
  BY <1>1
<1> QED BY <1>1, <1>3, <1>4, <1>6, <1>7, MarkLeaves

\* A client highlights a title, or sets it back.
LEMMA TnormalKeeps ==
    ASSUME IInv, NEW a \in Apps, NEW t \in Titles, NEW normal \in BOOLEAN,
           MenuTnormal(a, t, normal)
    PROVE  IInv' /\ ChoiceTold
<1> DEFINE flag == "sel"
           off == ~normal
           o == <<t, 0>>
           T == Mark(a, o, flag, off)
           drawn == menu.active /\ menu.owner = a
           U == Effect(T, "title", t, 0)
<1>1. Leave(IF drawn THEN U ELSE Start) /\ live' = live /\ loaded' = loaded /\ shown' = shown
  BY DEF MenuTnormal
<1>2. flag \in Flags /\ flag = "sel" /\ off \in BOOLEAN /\ o \in Objects /\ o[2] = 0
  BY ObjectsIs DEF Flags
<1> HIDE DEF off, o
<1>3. /\ Good(T) /\ T.m = menu /\ Rest(Start, T) /\ T.fx = <<>> /\ Same(Start, T, {o})
  BY <1>2, Enter, MarkIs
<1> HIDE DEF T
<1>4. Good(U) /\ Painting(U) /\ U.m = menu /\ Rest(Start, U)
  <2>1. U = Effect(T, "title", t, 0) /\ Len(T.fx) < DrawEffects
    BY <1>3 DEF DrawEffects
  <2> HIDE DEF U
  <2>2. /\ Good(U) /\ U.m = T.m /\ Rest(T, U)
        /\ U.fx = Append(T.fx, [do |-> "title", t |-> t, k |-> 0])
        /\ Chosen(U) = Chosen(T)
    BY <1>3, <2>1, TitleGood
  <2>3. Rest(Start, U) /\ U.m = menu
    BY <1>3, <2>2 DEF Rest
  <2>4. Chosen(U) \ {<<t, 0>>} = Chosen(Start) \ {<<t, 0>>}
    BY <1>3, <2>2 DEF Same, o
  <2>5. Painting(U)
    BY <1>3, <2>1, <2>2, <2>3, <2>4, TitlePaints
  <2> QED BY <2>2, <2>3, <2>5
<1>5. Good(Start) /\ Painting(Start) /\ Start.m = menu /\ Rest(Start, Start)
  BY Enter, StartIs DEF Rest
<1> HIDE DEF U, drawn
<1>6. Leave(U) \/ Leave(Start)
  BY <1>1
<1> QED BY <1>1, <1>4, <1>5, <1>6, MarkLeaves

\* What the owner is told does not depend on the rest of a state.
LEMMA InformsSame ==
    ASSUME NEW T, NEW U, U.m = T.m, U.marks = T.marks, U.msg = T.msg, Informs(T)
    PROVE  Informs(U)
BY DEF Informs

\* The accessory rows are other ones, in a Desk that is closed, and the Desk
\* tree is built anew.
LEMMA RowsLeave ==
    ASSUME IInv, NEW acc \in Seq(live), Leave(BuildDesk([DeskClosed(Start) EXCEPT !.acc = acc])),
           live' = live, loaded' = loaded, shown' = shown
    PROVE  IInv' /\ ChoiceTold
<1> DEFINE S == DeskClosed(Start)
           A == [S EXCEPT !.acc = acc]
           B == BuildDesk(A)
<1>1. Ground /\ Good(Start) /\ Painting(Start)
  BY Enter
<1>2. Start.fx = <<>> /\ Start.all = FALSE /\ Start.msg = None /\ Start.bar = shown /\ Start.m = menu
  BY StartIs
<1>3. Stepped(Start, S) /\ S.msg = None /\ NoRows(S) /\ ~(S.m.tracking /\ InDesk(S))
  BY <1>1, <1>2, DeskClosedIs
<1>4. Good(S) /\ Painting(S) /\ Rest(Start, S) /\ S.m.active = menu.active
  BY <1>2, <1>3 DEF Stepped
<1>5. Informs(S)
  BY <1>1, <1>3, SteppedInforms
<1> HIDE DEF S
<1>6. /\ Good(A) /\ Painting(A) /\ A.m = S.m /\ A.bar = S.bar /\ A.all = S.all
      /\ A.acc = acc /\ A.msg = S.msg /\ A.fx = S.fx /\ A.marks = S.marks
      /\ A.desk = S.desk
  BY <1>1, <1>3, <1>4, AccIs
<1> HIDE DEF A
<1>7. ~(A.m.tracking /\ InDesk(A)) /\ NoRows(A)
  BY <1>3, <1>6 DEF InDesk, NoRows
<1>8. /\ Good(B) /\ Painting(B) /\ B.m = A.m /\ Rest(A, B) /\ B.msg = A.msg
      /\ B.fx = A.fx /\ B.marks = A.marks
  BY <1>1, <1>6, <1>7, BuiltIs
<1>9. Leave(B)
  BY DEF B, A, S
<1> HIDE DEF B
<1>10. Informs(B)
  BY <1>5, <1>6, <1>8, InformsSame
<1>11. B.all = FALSE /\ B.bar = shown /\ B.m.active = menu.active
  BY <1>2, <1>4, <1>6, <1>8 DEF Rest
<1>12. menu.active => shown' = shown /\ shown' \in loaded'
  BY DEF IInv
<1>13. loaded' \subseteq live
  BY DEF IInv
<1> QED BY <1>8, <1>9, <1>10, <1>11, <1>12, <1>13, LeaveIs

\* A client registers an accessory.
LEMMA RegisterKeeps ==
    ASSUME IInv, NEW a \in Apps, MenuRegister(a)
    PROVE  IInv' /\ ChoiceTold
<1> DEFINE S == DeskClosed(Start)
<1>1. Ground /\ Good(Start) /\ Painting(Start)
  BY Enter
<1>2. Start.fx = <<>> /\ Start.all = FALSE /\ Start.msg = None /\ Start.acc = accessory
  BY StartIs
<1>3. Stepped(Start, S)
  BY <1>1, <1>2, DeskClosedIs
<1>4. /\ a \in live /\ live' = live /\ loaded' = loaded /\ shown' = shown
      /\ Leave(IF Len(S.acc) >= MaxAccessories THEN S
               ELSE BuildDesk([S EXCEPT !.acc = Append(@, a)]))
  BY DEF MenuRegister, Call
<1>5. CASE Len(S.acc) >= MaxAccessories
  <2>1. Leave(S)
    BY <1>4, <1>5
  <2> HIDE DEF S
  <2> QED BY <1>3, <1>4, <2>1, SteppedLeaves
<1>6. CASE ~(Len(S.acc) >= MaxAccessories)
  <2>1. Leave(BuildDesk([S EXCEPT !.acc = Append(S.acc, a)]))
    BY <1>4, <1>6
  <2>2. S \in Handled
    BY <1>3 DEF Stepped, Good
  <2>3. Append(S.acc, a) \in Seq(live)
    <3> HIDE DEF S
    <3>1. S.acc \in Seq(live)
      BY <2>2 DEF Handled
    <3> QED BY <3>1, <1>4, AppendProperties
  <2> QED BY <1>4, <2>1, <2>3, RowsLeave
<1> QED BY <1>5, <1>6

\* A client takes one back.
LEMMA UnregisterKeeps ==
    ASSUME IInv, NEW a \in Apps, NEW i \in Nat, MenuUnregister(a, i)
    PROVE  IInv' /\ ChoiceTold
<1> DEFINE S == DeskClosed(Start)
<1>1. Ground /\ Good(Start) /\ Painting(Start)
  BY Enter
<1>2. Start.fx = <<>> /\ Start.all = FALSE /\ Start.msg = None /\ Start.acc = accessory
  BY StartIs
<1>3. Stepped(Start, S)
  BY <1>1, <1>2, DeskClosedIs
<1>4. /\ live' = live /\ loaded' = loaded /\ shown' = shown
      /\ Leave(IF i \in 1 .. Len(S.acc) /\ S.acc[i] = a
               THEN BuildDesk([S EXCEPT !.acc = RemoveAt(@, i)]) ELSE S)
  BY DEF MenuUnregister
<1>5. CASE ~(i \in 1 .. Len(S.acc) /\ S.acc[i] = a)
  <2>1. Leave(S)
    BY <1>4, <1>5
  <2> HIDE DEF S
  <2> QED BY <1>3, <1>4, <2>1, SteppedLeaves
<1>6. CASE i \in 1 .. Len(S.acc) /\ S.acc[i] = a
  <2>1. Leave(BuildDesk([S EXCEPT !.acc = RemoveAt(S.acc, i)]))
    BY <1>4, <1>6
  <2>2. S \in Handled
    BY <1>3 DEF Stepped, Good
  <2>3. RemoveAt(S.acc, i) \in Seq(live)
    <3> HIDE DEF S
    <3>1. S.acc \in Seq(live)
      BY <2>2 DEF Handled
    <3> QED BY <3>1, <1>6, RemoveAtIs
  <2> QED BY <1>4, <2>1, <2>3, RowsLeave
<1> QED BY <1>5, <1>6

\* The menu before a call, or without its owner.
LEMMA GivenUp ==
    ASSUME IInv, NEW S, S \in {Start, Deactivated}
    PROVE  /\ Good(S) /\ Painting(S) /\ S.all = FALSE /\ Informs(S) /\ S.bar = shown
           /\ NoRows(S) /\ S.msg = None /\ S.acc = accessory
           /\ S.m.active => S = Start /\ menu.active
<1>1. Ground /\ Good(Start) /\ Painting(Start)
  BY Enter
<1>2. CASE S = Start
  BY <1>1, <1>2, StartIs DEF Informs
<1>3. CASE S = Deactivated
  <2>1. /\ Good(S) /\ Painting(S) /\ ~S.m.tracking /\ ~S.m.active /\ NoRows(S)
        /\ S.msg = None /\ Rest(Start, S) /\ Informs(S)
    BY <1>1, <1>3, DeactivatedIs
  <2>2. S.all = FALSE /\ S.bar = shown /\ S.acc = accessory
    BY <2>1, StartIs DEF Rest
  <2> QED BY <2>1, <2>2
<1> QED BY <1>2, <1>3

\* A client frees its resource.
LEMMA RsrcFreeKeeps ==
    ASSUME IInv, NEW a \in Apps, MenuRsrcFree(a)
    PROVE  IInv' /\ ChoiceTold
<1> DEFINE mine == menu.active /\ menu.owner = a
           S == IF shown = a /\ mine THEN Deactivated ELSE Start
           freed == shown = a => mine /\ Applied(S, screen, queue).ok
<1>1. /\ live' = live /\ Leave(S)
      /\ shown' = IF freed /\ shown = a THEN NoApp ELSE shown
      /\ loaded' = IF freed THEN loaded \ {a} ELSE loaded
  BY DEF MenuRsrcFree
<1>2. /\ Good(S) /\ Painting(S) /\ S.all = FALSE /\ Informs(S) /\ S.bar = shown
      /\ S.m.active => S = Start /\ menu.active
  <2>1. S \in {Start, Deactivated}
    OBVIOUS
  <2> HIDE DEF S
  <2> QED BY <2>1, GivenUp
<1>3. loaded' \subseteq live /\ shown' \in {shown, NoApp}
  BY <1>1 DEF IInv
<1>4. menu.active => shown \in loaded /\ menu.owner = shown
  <2>1. Good(Start)
    BY Enter
  <2> QED BY <2>1, StartIs DEF Good, Worked, IInv
<1>5. S.m.active => shown' = shown /\ shown' \in loaded'
  <2>1. CASE shown = a /\ mine
    <3>1. S = Deactivated
      BY <2>1
    <3>2. ~S.m.active
      <4>1. ~Deactivated.m.active
        BY Enter, DeactivatedIs
      <4> QED BY <3>1, <4>1
    <3> QED BY <3>2
  <2>2. CASE ~(shown = a /\ mine)
    <3>1. S.m.active => menu.active
      BY <1>2
    <3>2. menu.active => shown # a
      BY <1>4, <2>2
    <3> QED BY <3>1, <3>2, <1>1, <1>4
  <2> QED BY <2>1, <2>2
<1> HIDE DEF S
<1> QED BY <1>1, <1>2, <1>3, <1>5, LeaveIs

\* A client hides its bar.
LEMMA BarHideKeeps ==
    ASSUME IInv, NEW a \in Apps, MenuBarHide(a)
    PROVE  IInv' /\ ChoiceTold
<1> DEFINE mine == menu.active /\ menu.owner = a
           S == IF mine THEN Deactivated ELSE Start
           stuck == mine /\ ~Applied(S, screen, queue).ok
<1>1. /\ live' = live /\ Leave(S) /\ loaded' = loaded
      /\ shown' = IF shown = a /\ ~stuck THEN NoApp ELSE shown
  BY DEF MenuBarHide
<1>2. /\ Good(S) /\ Painting(S) /\ S.all = FALSE /\ Informs(S) /\ S.bar = shown
      /\ S.m.active => S = Start /\ menu.active
  <2>1. S \in {Start, Deactivated}
    OBVIOUS
  <2> HIDE DEF S
  <2> QED BY <2>1, GivenUp
<1>3. loaded' \subseteq live /\ shown' \in {shown, NoApp}
  BY <1>1 DEF IInv
<1>4. menu.active => shown \in loaded /\ menu.owner = shown
  <2>1. Good(Start)
    BY Enter
  <2> QED BY <2>1, StartIs DEF Good, Worked, IInv
<1>5. S.m.active => shown' = shown /\ shown' \in loaded'
  <2>1. CASE mine
    <3>1. S = Deactivated
      BY <2>1
    <3>2. ~S.m.active
      <4>1. ~Deactivated.m.active
        BY Enter, DeactivatedIs
      <4> QED BY <3>1, <4>1
    <3> QED BY <3>2
  <2>2. CASE ~mine
    <3>1. S.m.active => menu.active
      BY <1>2
    <3>2. menu.active => shown # a
      BY <1>4, <2>2
    <3> QED BY <3>1, <3>2, <1>1, <1>4
  <2> QED BY <2>1, <2>2
<1> HIDE DEF S
<1> QED BY <1>1, <1>2, <1>3, <1>5, LeaveIs

\* A state with no effects and another bar.
Barred(S, b) == [S EXCEPT !.fx = <<>>, !.bar = b]

\* Its fields.
LEMMA BarredIs ==
    ASSUME NEW S \in Handled, NEW a \in Apps,
           NEW X, X = [S EXCEPT !.fx = <<>>, !.bar = a]
    PROVE  X = [m |-> S.m, marks |-> S.marks, desk |-> S.desk, acc |-> S.acc, bar |-> a,
                fx |-> <<>>, all |-> S.all, msg |-> S.msg]
<1>1. <<>> \in Seq(Drawings)
  OBVIOUS
<1>2. /\ X \in Handled /\ X.m = S.m /\ X.marks = S.marks /\ X.desk = S.desk
      /\ X.acc = S.acc /\ X.all = S.all /\ X.msg = S.msg /\ X.bar = a /\ X.fx = <<>>
  BY <1>1 DEF Handled
<1>3. ASSUME NEW Y \in Handled
      PROVE  Y = [m |-> Y.m, marks |-> Y.marks, desk |-> Y.desk, acc |-> Y.acc, bar |-> Y.bar,
                  fx |-> Y.fx, all |-> Y.all, msg |-> Y.msg]
  BY DEF Handled
<1> QED BY <1>2, <1>3

\* The bar of another client, its menu not yet worked.
LEMMA ActivatedIs ==
    ASSUME NEW S, Good(S), ~S.all, S.msg = None, ~S.m.active, NEW a \in Apps,
           NEW X, X = Barred(S, a), NEW new, new = Activated(X, a)
    PROVE  /\ Good(Rested(new, a)) /\ new.acc = S.acc /\ new.marks = S.marks
           /\ ~new.m.tracking /\ new.m.active /\ new.bar = a
<1> DEFINE n == [Inactive EXCEPT !.active = TRUE, !.owner = a]
           M == [X EXCEPT !.m = n]
           B == BuildDesk(M)
<1>1. S \in Handled /\ ~S.m.tracking
  BY DEF Good, Worked
<1>2. X = Rested(S, a)
  <2>1. S.all = FALSE
    BY <1>1 DEF Handled
  <2> QED BY <1>1, <2>1, BarredIs DEF Rested, Barred
<1>3. Good(X) /\ X.m = S.m /\ X.marks = S.marks /\ X.acc = S.acc /\ X.bar = a
  <2>1. a \in Apps \cup {NoApp}
    OBVIOUS
  <2> QED BY <1>2, <2>1, RestedIs
<1>4. X.fx = <<>> /\ X.msg = None
  BY <1>2 DEF Rested
<1>5. Close(X, 0) = X
  <2>1. ~X.m.tracking
    BY <1>1, <1>3
  <2> QED BY <2>1 DEF Close
<1>6. n \in Managers /\ ~n.tracking /\ n.active /\ n.owner = a /\ n.itemBase = {}
  <2>1. 0 \in 0 .. Len(Rows)
    BY TitlesAre
  <2> QED BY <2>1 DEF Inactive, Managers
<1>7. Good(M) /\ M.m = n /\ Rest(X, M) /\ M.fx = <<>> /\ M.marks = S.marks
  <2>1. ~X.m.tracking /\ "sel" \notin n.itemBase /\ n.owner = X.bar /\ n.owner \in Apps
    BY <1>1, <1>3, <1>6
  <2> HIDE DEF n
  <2> QED BY <1>3, <1>4, <1>6, <2>1, FreshGood
<1>8. new = [BuildDesk(M) EXCEPT !.all = TRUE]
  <2>1. new = Activated(X, a)
    OBVIOUS
  <2> QED BY <2>1, <1>5 DEF Activated
<1>9. Good(B) /\ B.m = n /\ B.acc = S.acc /\ B.bar = a /\ B.marks = S.marks
  <2>1. ~(M.m.tracking /\ InDesk(M)) /\ NoRows(M)
    <3> HIDE DEF M, n
    <3> QED BY <1>6, <1>7 DEF NoRows
  <2>2. M.acc = S.acc /\ M.bar = a
    BY <1>3, <1>7 DEF Rest
  <2> HIDE DEF M, n
  <2> QED BY <1>7, <2>1, <2>2, BuiltGood DEF Rest
<1>10. B \in Handled
  BY <1>9 DEF Good
<1> HIDE DEF B
<1>11. /\ new.m = B.m /\ new.marks = B.marks /\ new.desk = B.desk /\ new.acc = B.acc
       /\ new.bar = B.bar
  BY <1>8, <1>10 DEF Handled, B
<1>12. Rested(new, a) = Rested(B, a)
  BY <1>11 DEF Rested
<1>13. Good(Rested(B, a))
  <2>1. a \in Apps \cup {NoApp}
    OBVIOUS
  <2> QED BY <1>9, <2>1, RestedIs
<1> QED BY <1>6, <1>9, <1>11, <1>12, <1>13

\* The bar painted over a screen without pull-downs.
LEMMA BarShows ==
    ASSUME NEW new, NEW a \in Apps, new.bar = a, new.marks \in Trees, ~new.m.tracking,
           NEW scr \in Screens, scr.pulled = {}, scr.rows = {}
    PROVE  LET Z == Rested(new, a)
           IN  /\ PaintBar(new, scr) \in Screens
               /\ Shows(Z, PaintBar(new, scr), Pulled(Z), LitRows(Z))
<1> DEFINE Z == Rested(new, a)
           F == PaintBar(new, scr)
           B == {t \in Titles : "sel" \in new.marks[a][<<t, 0>>]}
<1>1. F = [scr EXCEPT !.titles = B]
  BY DEF PaintBar
<1>2. B \in SUBSET Titles
  OBVIOUS
<1>3. F \in Screens /\ F.pulled = {} /\ F.rows = {} /\ F.titles = B
  <2> HIDE DEF F, B
  <2> QED BY <1>1, <1>2 DEF Screens
<1>4. Z.m = new.m /\ Z.bar = a /\ Z.marks = new.marks /\ Z.desk = new.desk
  BY DEF Rested
<1>5. Pulled(Z) = {} /\ LitRows(Z) = {}
  BY <1>4 DEF Pulled, LitRows
<1>6. a # NoApp
  BY MenuAssumption
<1>7. \A t \in Titles : <<t, 0>> \in Chosen(Z) <=> "sel" \in new.marks[a][<<t, 0>>]
  <2> TAKE t \in Titles
  <2>1. <<t, 0>> \in Objects
    BY ObjectsIs
  <2>2. <<t, 0>> \in Titles \X Nat /\ <<t, 0>>[2] = 0
    OBVIOUS
  <2> HIDE DEF Z
  <2> QED BY <2>1, <2>2, <1>4, <1>6 DEF Chosen
<1>8. {t \in Titles : <<t, 0>> \in Chosen(Z)} = B
  BY <1>7
<1> HIDE DEF Z, F, B
<1>9. Shows(Z, F, {}, {})
  BY <1>3, <1>8 DEF Shows
<1> QED BY <1>3, <1>5, <1>9 DEF Z, F

\* A client shows its bar.
LEMMA BarShowKeeps ==
    ASSUME IInv, NEW a \in Apps, MenuBarShow(a)
    PROVE  IInv' /\ ChoiceTold
<1> DEFINE old == shown # NoApp /\ menu.active /\ menu.owner = shown
           S == IF old THEN Deactivated ELSE Start
           D == Applied(S, screen, queue)
           new == Activated([S EXCEPT !.fx = <<>>, !.bar = a], a)
<1>1. /\ a \in live /\ live' = live /\ loaded' = loaded
      /\ IF (old /\ ~D.ok) \/ a \notin loaded
         THEN shown' = shown /\ Leave(S)
         ELSE /\ shown' = a
              /\ menu' = new.m /\ marks' = new.marks /\ desk' = new.desk
              /\ accessory' = new.acc
              /\ queue' = D.q
              /\ screen' = IF D.scr.refused THEN D.scr ELSE PaintBar(new, D.scr)
  BY DEF MenuBarShow
<1>2. /\ Good(S) /\ Painting(S) /\ S.all = FALSE /\ Informs(S) /\ S.bar = shown
      /\ S.msg = None /\ S.acc = accessory
      /\ S.m.active => S = Start /\ menu.active
  <2>1. S \in {Start, Deactivated}
    OBVIOUS
  <2> HIDE DEF S
  <2> QED BY <2>1, GivenUp
<1>3. menu.active => shown \in loaded /\ menu.owner = shown
  <2>1. Good(Start)
    BY Enter
  <2> QED BY <2>1, StartIs DEF Good, Worked, IInv
<1>4. ~S.m.active
  <2>1. CASE old
    <3>1. S = Deactivated
      BY <2>1
    <3>2. ~Deactivated.m.active
      BY Enter, DeactivatedIs
    <3> QED BY <3>1, <3>2
  <2>2. CASE ~old
    <3>1. menu.active => shown # NoApp
      BY <1>3, MenuAssumption DEF IInv
    <3>2. ~menu.active
      BY <3>1, <2>2, <1>3
    <3>3. S.m.active => menu.active
      BY <1>2
    <3> HIDE DEF S
    <3> QED BY ONLY <3>2, <3>3
  <2> QED BY <2>1, <2>2
<1>5. Lands(S, D)
  <2> HIDE DEF S
  <2> QED BY <1>2, Enter, AppliedIs
<1>6. /\ Good(Rested(new, a)) /\ new.acc = S.acc /\ new.marks = S.marks
      /\ ~new.m.tracking /\ new.m.active /\ new.bar = a
  <2>1. PICK x, n : x = Barred(S, a) /\ n = Activated(x, a)
    OBVIOUS
  <2>2. PICK s : s = S
    OBVIOUS
  <2>3. /\ Good(s) /\ ~s.all /\ s.msg = None /\ ~s.m.active
        /\ x = Barred(s, a)
    BY <1>2, <1>4, <2>1, <2>2
  <2>4. /\ Good(Rested(n, a)) /\ n.acc = s.acc /\ n.marks = s.marks
        /\ ~n.m.tracking /\ n.m.active /\ n.bar = a
    BY ONLY <2>1, <2>3, ActivatedIs, a \in Apps
  <2>5. n = new
    BY <2>1 DEF Barred
  <2> HIDE DEF S, new
  <2> QED BY <2>2, <2>4, <2>5
<1> HIDE DEF S, D, new
<1>7. CASE (old /\ ~D.ok) \/ a \notin loaded
  <2>1. shown' = shown /\ Leave(S)
    BY <1>1, <1>7
  <2>2. loaded' \subseteq live
    BY <1>1 DEF IInv
  <2> QED BY <1>1, <1>2, <1>4, <2>1, <2>2, LeaveIs
<1>8. CASE ~((old /\ ~D.ok) \/ a \notin loaded)
  <2> DEFINE Z == Rested(new, a)
  <2>1. /\ shown' = a
        /\ menu' = new.m /\ marks' = new.marks /\ desk' = new.desk
        /\ accessory' = new.acc
        /\ queue' = D.q
        /\ screen' = IF D.scr.refused THEN D.scr ELSE PaintBar(new, D.scr)
    BY <1>1, <1>8
  <2>2. Start' = Z
    BY <2>1 DEF Start, Rested
  <2>3. Z.acc \in Seq(live')
    <3>1. S \in Handled /\ Z.acc = S.acc
      BY <1>2, <1>6 DEF Good, Rested
    <3> HIDE DEF Z
    <3> QED BY <3>1, <1>1 DEF Handled
  <2>4. Good(Start)'
    <3> HIDE DEF Z
    <3>1. Good(Z)
      BY <1>6 DEF Z
    <3> QED BY <2>2, <2>3, <3>1, NextGood
  <2>5. ~S.m.tracking
    BY <1>2, <1>4 DEF Good, Worked
  <2>6. ASSUME ~D.scr.refused
        PROVE  /\ PaintBar(new, D.scr) \in Screens
               /\ Shows(Z, PaintBar(new, D.scr), Pulled(Z), LitRows(Z))
    <3>1. D.scr = After(S) /\ Paints(S, {}, {})
      BY <1>2, <1>5, <2>5, <2>6 DEF Lands, Painting, Pulled, LitRows
    <3>2. D.scr \in Screens /\ D.scr.pulled = {} /\ D.scr.rows = {}
      BY <3>1 DEF Paints, Shows
    <3>3. new.marks \in Trees
      BY <1>2, <1>6 DEF Good, Handled
    <3>4. PICK scr : scr = D.scr
      OBVIOUS
    <3> QED BY <1>6, <3>2, <3>3, <3>4, BarShows
  <2>7. screen' \in Screens
    BY <2>1, <2>6, <1>5 DEF Lands
  <2>8. screen'.refused \/ Shows(Start, screen, Pulled(Start), LitRows(Start))'
    <3>1. CASE D.scr.refused
      BY <2>1, <3>1
    <3>2. CASE ~D.scr.refused
      <4>1. Shows(Z, screen', Pulled(Z), LitRows(Z))
        BY <2>1, <2>6, <3>2
      <4> HIDE DEF Z
      <4> QED BY <4>1, <2>2, NextShows
    <3> QED BY <3>1, <3>2
  <2>9. queue' \in [Apps -> Seq(Mail)] /\ \A b \in Apps : Len(queue'[b]) <= QueueMax
    BY <1>5, <2>1 DEF Lands, Boxes
  <2>10. IInv'
    <3>1. live' \subseteq Apps /\ loaded' \subseteq live' /\ shown' \in live' \cup {NoApp}
          /\ shown' \in loaded'
      BY <1>1, <1>8, <2>1 DEF IInv
    <3> QED BY <3>1, <2>4, <2>7, <2>8, <2>9 DEF IInv
  <2>11. ChoiceTold
    <3>1. menu.tracking => "sel" \notin marks'[menu.owner][<<menu.title, 0>>]
                           \/ "sel" \in menu.titleBase
      <4>1. marks' = S.marks
        BY <1>6, <2>1
      <4>2. Informs(S) /\ S.msg = None
        BY <1>2
      <4> QED BY <4>1, <4>2, <2>5 DEF Informs
    <3> QED BY <3>1 DEF ChoiceTold
  <2> QED BY <2>10, <2>11
<1> QED BY <1>7, <1>8

\* A client attaches.
LEMMA AttachKeeps ==
    ASSUME IInv, NEW a \in Apps, MenuAttach(a)
    PROVE  IInv' /\ ChoiceTold
<1>1. /\ live' = live \cup {a} /\ loaded' = loaded \cup {a}
      /\ UNCHANGED <<marks, shown, menu, desk, accessory, screen, queue>>
  BY DEF MenuAttach
<1>2. PICK Z : Z = Start
  OBVIOUS
<1>3. Start' = Z
  BY <1>1, <1>2 DEF Start
<1>4. Good(Z) /\ Z.acc \in Seq(live')
  <2>1. Good(Z)
    BY <1>2 DEF IInv
  <2>2. Z.acc \in Seq(live)
    BY <2>1 DEF Good, Handled
  <2>3. Seq(live) \subseteq Seq(live')
    BY <1>1
  <2> QED BY <2>1, <2>2, <2>3
<1>5. Good(Start)'
  BY <1>3, <1>4, NextGood
<1>6. screen'.refused \/ Shows(Start, screen, Pulled(Start), LitRows(Start))'
  <2>1. screen.refused \/ Shows(Z, screen', Pulled(Z), LitRows(Z))
    BY <1>1, <1>2 DEF IInv
  <2> QED BY <1>1, <1>3, <2>1, NextShows
<1>7. IInv'
  BY <1>1, <1>5, <1>6 DEF IInv
<1>8. ChoiceTold
  BY <1>1 DEF ChoiceTold
<1> QED BY <1>7, <1>8

\* A client takes a message.
LEMMA TakeKeeps ==
    ASSUME IInv, NEW a \in Apps, MenuTake(a)
    PROVE  IInv' /\ ChoiceTold
<1>1. /\ queue[a] # <<>> /\ queue' = [queue EXCEPT ![a] = Tail(@)]
      /\ UNCHANGED <<live, loaded, marks, shown, menu, desk, accessory, screen>>
  BY DEF MenuTake
<1>2. PICK Z : Z = Start
  OBVIOUS
<1>3. Start' = Z
  BY <1>1, <1>2 DEF Start
<1>4. Good(Z) /\ Z.acc \in Seq(live')
  <2>1. Good(Z)
    BY <1>2 DEF IInv
  <2> QED BY <2>1, <1>1 DEF Good, Handled
<1>5. Good(Start)'
  BY <1>3, <1>4, NextGood
<1>6. screen'.refused \/ Shows(Start, screen, Pulled(Start), LitRows(Start))'
  <2>1. screen.refused \/ Shows(Z, screen', Pulled(Z), LitRows(Z))
    BY <1>1, <1>2 DEF IInv
  <2> QED BY <1>1, <1>3, <2>1, NextShows
<1>7. queue' \in [Apps -> Seq(Mail)] /\ \A b \in Apps : Len(queue'[b]) <= QueueMax
  <2>1. queue \in [Apps -> Seq(Mail)] /\ \A b \in Apps : Len(queue[b]) <= QueueMax
    BY DEF IInv
  <2>2. queue[a] \in Seq(Mail)
    BY <2>1
  <2>3. Tail(queue[a]) \in Seq(Mail) /\ Len(Tail(queue[a])) = Len(queue[a]) - 1
        /\ Len(queue[a]) \in Nat
    BY <1>1, <2>2, HeadTailProperties, LenProperties
  <2>4. QueueMax \in Nat
    BY MenuAssumption
  <2> QED BY <1>1, <2>1, <2>3, <2>4
<1>8. IInv'
  BY <1>1, <1>5, <1>6, <1>7 DEF IInv
<1>9. ChoiceTold
  BY <1>1 DEF ChoiceTold
<1> QED BY <1>8, <1>9

\* The state that a detach leaves: the tree of client a is gone.
Emptied(S, a, b) ==
    [m |-> S.m, marks |-> [S.marks EXCEPT ![a] = [o \in Objects |-> {}]], desk |-> S.desk,
     acc |-> S.acc, bar |-> b, fx |-> <<>>, all |-> FALSE, msg |-> None]

\* It is a good one, when the menu that is worked is not of that client.
LEMMA EmptiedIs ==
    ASSUME NEW S, Good(S), NEW a \in Apps, NEW b \in Apps \cup {NoApp},
           S.m.active => b = S.bar /\ S.m.owner # a,
           NEW Z, Z = Emptied(S, a, b)
    PROVE  /\ Good(Z) /\ Z.m = S.m /\ Z.acc = S.acc /\ Z.bar = b
           /\ b = S.bar /\ b # a =>
                \A u \in Titles : <<u, 0>> \in Chosen(Z) <=> <<u, 0>> \in Chosen(S)
<1>1. /\ Z.m = S.m /\ Z.marks = [S.marks EXCEPT ![a] = [o \in Objects |-> {}]]
      /\ Z.desk = S.desk /\ Z.acc = S.acc /\ Z.bar = b /\ Z.fx = <<>>
  BY DEF Emptied
<1>2. S \in Handled /\ S.marks \in Trees
  BY DEF Good, Handled
<1>3. Z.marks \in Trees
  BY <1>1, <1>2 DEF Trees
<1>4. Z \in Handled
  <2>1. /\ S.m \in Managers /\ S.marks \in Trees /\ S.desk \in Seq(SUBSET Flags)
        /\ S.acc \in Seq(live)
    BY <1>2, HandledIs
  <2>2. <<>> \in Seq(Drawings)
    OBVIOUS
  <2>3. Z = [m |-> S.m, marks |-> Z.marks, desk |-> S.desk, acc |-> S.acc, bar |-> b,
             fx |-> <<>>, all |-> FALSE, msg |-> None]
    BY <1>1 DEF Emptied
  <2>4. [m |-> S.m, marks |-> Z.marks, desk |-> S.desk, acc |-> S.acc, bar |-> b,
         fx |-> <<>>, all |-> FALSE, msg |-> None] \in Handled
    BY <1>3, <2>1, <2>2 DEF Handled
  <2> QED BY <2>3, <2>4
<1>5. \A c \in Apps : c # a => Z.marks[c] = S.marks[c]
  BY <1>1, <1>2 DEF Trees
<1>6. \A c \in Apps, o \in Objects : "sel" \in Z.marks[c][o] => c # a /\ "sel" \in S.marks[c][o]
  BY <1>1, <1>2 DEF Trees
<1>7. Worked(Z)
  BY <1>1 DEF Good, Worked, RowCount, InDesk
<1>8. Lit(Z)
  <2>1. S.m.tracking => S.m.owner \in Apps /\ S.m.owner # a
    BY DEF Good, Worked
  <2>2. S.m.tracking => RowState(Z, S.m.item) = RowState(S, S.m.item)
    BY <1>1, <1>5, <2>1 DEF RowState, InDesk
  <2>3. \A o : Tracked(Z, o) <=> Tracked(S, o)
    BY <1>1 DEF Tracked
  <2> QED BY <1>1, <1>6, <2>2, <2>3 DEF Good, Lit
<1>9. Drawable(Z)
  <2>1. Len(Z.fx) = 0
    BY <1>1
  <2> QED BY <2>1 DEF Drawable
<1>10. ASSUME b = S.bar, b # a, NEW u \in Titles
       PROVE  <<u, 0>> \in Chosen(Z) <=> <<u, 0>> \in Chosen(S)
  <2>1. <<u, 0>>[2] = 0
    OBVIOUS
  <2>2. b # NoApp => Z.marks[b] = S.marks[b]
    BY <1>5, <1>10
  <2> QED BY <1>1, <1>10, <2>1, <2>2 DEF Chosen
<1> QED BY <1>1, <1>4, <1>7, <1>8, <1>9, <1>10 DEF Good

\* The state without the accessory rows of a client, as a detach makes it.
Dropped(S, a) ==
    LET rows == Others(S.acc, a)
        had == a \in Range(S.acc)
        closed == IF had THEN DeskClosed(S) ELSE S
        less == [closed EXCEPT !.acc = rows]
    IN  IF had /\ less.m.active THEN BuildDesk(less) ELSE less

\* The accessory rows of a client are gone, from a Desk that is closed.
LEMMA RowsGone ==
    ASSUME IInv, NEW a \in Apps, NEW S, S \in {Start, Deactivated},
           NEW L, L = Dropped(S, a)
    PROVE  /\ Good(L) /\ Painting(L) /\ Informs(L) /\ L.bar = S.bar /\ L.all = S.all
           /\ L.m.active = S.m.active /\ L.acc \in Seq(live \ {a})
<1> DEFINE rows == Others(S.acc, a)
           had == a \in Range(S.acc)
           C == IF had THEN DeskClosed(S) ELSE S
           A == [C EXCEPT !.acc = rows]
<1>1. /\ Good(S) /\ Painting(S) /\ Informs(S) /\ NoRows(S) /\ S.msg = None
      /\ S.m.active => S = Start /\ menu.active
  BY GivenUp
<1>2. Ground
  BY Enter
<1>3. S.acc \in Seq(live)
  BY <1>1 DEF Good, Handled
<1>4. /\ rows \in Seq(live \ {a}) /\ rows \in Seq(live)
      /\ ~had => rows = S.acc
  <2>1. rows \in Seq(live \ {a}) /\ (~had => rows = S.acc)
    BY <1>3, OthersIs
  <2>2. Seq(live \ {a}) \subseteq Seq(live)
    OBVIOUS
  <2> QED BY <2>1, <2>2
<1>5. L = IF had /\ A.m.active THEN BuildDesk(A) ELSE A
  BY DEF Dropped
<1>6. ASSUME had
      PROVE  /\ Good(C) /\ Painting(C) /\ Informs(C) /\ NoRows(C)
             /\ ~(C.m.tracking /\ InDesk(C))
             /\ C.bar = S.bar /\ C.all = S.all /\ C.m.active = S.m.active
  <2>1. C = DeskClosed(S)
    BY <1>6
  <2>2. CASE ~S.m.active
    <3>1. ~S.m.tracking
      BY <1>1, <2>2 DEF Good, Worked
    <3>2. C = S
      BY <2>1, <3>1 DEF DeskClosed
    <3> HIDE DEF C
    <3> QED BY <1>1, <3>1, <3>2
  <2>3. CASE S.m.active
    <3>1. S = Start /\ S.fx = <<>>
      BY <1>1, <2>3, StartIs
    <3>2. Stepped(S, C) /\ NoRows(C) /\ ~(C.m.tracking /\ InDesk(C))
      <4> HIDE DEF C
      <4> QED BY <1>1, <1>2, <2>1, <3>1, DeskClosedIs
    <3>3. Informs(C)
      <4> HIDE DEF C
      <4> QED BY <1>1, <3>1, <3>2, SteppedInforms
    <3> HIDE DEF C
    <3> QED BY <3>2, <3>3 DEF Stepped, Rest
  <2> QED BY <2>2, <2>3
<1> HIDE DEF rows, had, C
<1>7. CASE had
  <2>1. /\ Good(A) /\ Painting(A) /\ A.m = C.m /\ A.bar = C.bar /\ A.all = C.all
        /\ A.acc = rows /\ A.msg = C.msg /\ A.fx = C.fx /\ A.marks = C.marks
        /\ A.desk = C.desk
    BY <1>2, <1>4, <1>6, <1>7, AccIs
  <2> HIDE DEF A
  <2>2. Informs(A) /\ NoRows(A) /\ ~(A.m.tracking /\ InDesk(A))
    BY <1>6, <1>7, <2>1, InformsSame DEF NoRows, InDesk
  <2>3. CASE ~A.m.active
    <3>1. L = A
      BY <1>5, <2>3
    <3> QED BY <1>4, <1>6, <1>7, <2>1, <2>2, <3>1
  <2>4. CASE A.m.active
    <3>1. L = BuildDesk(A)
      BY <1>5, <1>7, <2>4
    <3>2. /\ Good(L) /\ Painting(L) /\ L.m = A.m /\ Rest(A, L) /\ L.msg = A.msg
          /\ L.fx = A.fx /\ L.marks = A.marks
      BY <1>2, <2>1, <2>2, <3>1, BuiltIs
    <3>3. Informs(L)
      BY <2>2, <3>2, InformsSame
    <3> QED BY <1>4, <1>6, <1>7, <2>1, <3>2, <3>3 DEF Rest
  <2> QED BY <2>3, <2>4
<1>8. CASE ~had
  <2>1. C = S
    BY <1>8 DEF C
  <2>2. A = [S EXCEPT !.acc = S.acc]
    BY <1>4, <1>8, <2>1
  <2>3. A = S
    BY <1>1, <2>2 DEF Good, Handled
  <2>4. L = S
    BY <1>5, <1>8, <2>3
  <2> QED BY <1>1, <1>4, <1>8, <2>4
<1> QED BY <1>7, <1>8

\* A client leaves, or its connection breaks.
LEMMA DetachKeeps ==
    ASSUME IInv, NEW a \in Apps, MenuDetach(a)
    PROVE  IInv' /\ ChoiceTold
<1> DEFINE mine == menu.active /\ menu.owner = a
           S == IF mine THEN Deactivated ELSE Start
           rows == Others(S.acc, a)
           had == a \in Range(S.acc)
           closed == IF had THEN DeskClosed(S) ELSE S
           less == [closed EXCEPT !.acc = rows]
           L == IF had /\ less.m.active THEN BuildDesk(less) ELSE less
           D == Applied(L, screen, queue)
<1>1. /\ menu' = L.m /\ desk' = L.desk /\ accessory' = L.acc
      /\ screen' = D.scr
      /\ marks' = [L.marks EXCEPT ![a] = [o \in Objects |-> {}]]
      /\ queue' = [D.q EXCEPT ![a] = <<>>]
      /\ shown' = IF shown = a THEN NoApp ELSE shown
      /\ live' = live \ {a} /\ loaded' = loaded \ {a}
  BY DEF MenuDetach
<1>2. S \in {Start, Deactivated}
  OBVIOUS
<1>3. /\ S.all = FALSE /\ S.bar = shown
      /\ S.m.active => S = Start /\ menu.active
  BY <1>2, GivenUp
<1>4. S.m.active => menu.active /\ menu.owner # a
  <2>1. CASE mine
    <3>1. S = Deactivated
      BY <2>1
    <3>2. ~Deactivated.m.active
      BY Enter, DeactivatedIs
    <3> QED BY <3>1, <3>2
  <2>2. CASE ~mine
    <3> HIDE DEF S
    <3> QED BY <1>3, <2>2
  <2> QED BY <2>1, <2>2
<1>5. /\ Good(L) /\ Painting(L) /\ Informs(L) /\ L.bar = S.bar /\ L.all = S.all
      /\ L.m.active = S.m.active /\ L.acc \in Seq(live \ {a})
  <2>1. PICK s, l : s = S /\ l = L
    OBVIOUS
  <2>2. l = Dropped(s, a)
    <3> HIDE DEF S
    <3> QED BY <2>1 DEF Dropped
  <2>3. /\ Good(l) /\ Painting(l) /\ Informs(l) /\ l.bar = s.bar /\ l.all = s.all
        /\ l.m.active = s.m.active /\ l.acc \in Seq(live \ {a})
    <3>1. s \in {Start, Deactivated}
      BY <2>1, <1>2
    <3> HIDE DEF S, L
    <3> QED BY <2>2, <3>1, RowsGone
  <2> HIDE DEF S, L
  <2> QED BY <2>1, <2>3
<1> HIDE DEF S, L
<1>6. L.all = FALSE /\ L.bar = shown
  BY <1>3, <1>5
<1>7. Lands(L, D)
  BY <1>5, <1>6, Enter, AppliedIs
<1> HIDE DEF D
<1>8. live \subseteq Apps /\ loaded \subseteq live /\ shown \in live \cup {NoApp}
      /\ (menu.active => shown \in loaded)
  BY DEF IInv
<1>9. menu.active => menu.owner = shown
  <2>1. Good(Start)
    BY Enter
  <2> QED BY <2>1, StartIs DEF Good, Worked
<1>10. PICK b : b = shown'
  OBVIOUS
<1>11. /\ b \in Apps \cup {NoApp} /\ b \in live' \cup {NoApp}
       /\ L.m.active => b = L.bar /\ L.m.owner # a /\ b \in loaded'
       /\ b = NoApp \/ (b = L.bar /\ b # a)
  <2>1. L.m.active => L.m.owner = L.bar
    BY <1>5 DEF Good, Worked
  <2>2. a # NoApp
    BY MenuAssumption
  <2>3. L.m.active => menu.active /\ shown # a /\ shown \in loaded
    BY <1>4, <1>5, <1>8, <1>9
  <2> QED BY <1>1, <1>6, <1>8, <1>10, <2>1, <2>2, <2>3
<1>12. PICK Z : Z = Emptied(L, a, b)
  OBVIOUS
<1>13. /\ Good(Z) /\ Z.m = L.m /\ Z.acc = L.acc /\ Z.bar = b
       /\ b = L.bar /\ b # a =>
             \A u \in Titles : <<u, 0>> \in Chosen(Z) <=> <<u, 0>> \in Chosen(L)
  <2>1. L.m.active => b = L.bar /\ L.m.owner # a
    BY <1>11
  <2> QED BY <1>5, <1>11, <1>12, <2>1, EmptiedIs
<1>14. Start' = Z
  BY <1>1, <1>10, <1>12 DEF Start, Emptied
<1>15. queue' \in Boxes /\ \A c \in Apps : c # a => queue'[c] = D.q[c]
  <2>1. D.q \in [Apps -> Seq(Mail)] /\ \A c \in Apps : Len(D.q[c]) <= QueueMax
    BY <1>7 DEF Lands, Boxes
  <2>2. <<>> \in Seq(Mail) /\ Len(<<>>) = 0 /\ QueueMax \in Nat
    BY MenuAssumption
  <2> QED BY <1>1, <2>1, <2>2 DEF Boxes
<1>16. IInv'
  <2>1. Z.acc \in Seq(live')
    BY <1>1, <1>5, <1>13
  <2>2. live' \subseteq Apps /\ loaded' \subseteq live' /\ shown' \in live' \cup {NoApp}
    BY <1>1, <1>8, <1>10, <1>11
  <2>3. menu'.active => shown' \in loaded'
    BY <1>1, <1>10, <1>11
  <2>4. \/ Z.bar = NoApp
        \/ Z.bar = L.bar /\ \A u \in Titles : <<u, 0>> \in Chosen(Z) <=> <<u, 0>> \in Chosen(L)
    BY <1>11, <1>13
  <2>5. screen' = D.scr /\ Painting(L)
    BY <1>1, <1>5
  <2> QED BY <1>7, <1>13, <1>14, <1>15, <2>1, <2>2, <2>3, <2>4, <2>5, LandIs
<1>17. ChoiceTold
  <2>1. ASSUME menu.owner \in live'
        PROVE  /\ queue'[menu.owner] = D.q[menu.owner]
               /\ marks'[menu.owner] = L.marks[menu.owner]
    <3>1. menu.owner \in Apps /\ menu.owner # a
      BY <1>1, <1>8, <2>1
    <3>2. L.marks \in Trees
      BY <1>5 DEF Good, Handled
    <3> QED BY <1>1, <1>15, <3>1, <3>2 DEF Trees
  <2>2. menu' = L.m /\ screen' = D.scr /\ Informs(L)
    BY <1>1, <1>5
  <2> QED BY <1>7, <2>1, <2>2, TellIs
<1> QED BY <1>16, <1>17

\* The first state.
LEMMA InitKeeps ==
    ASSUME MenuInit
    PROVE  IInv
<1>1. /\ live = Apps /\ loaded = Apps /\ shown = NoApp /\ menu = Inactive
      /\ marks = [a \in Apps |-> [o \in Objects |-> {}]]
      /\ desk = <<>> /\ accessory = <<>> /\ screen = Blank
      /\ queue = [a \in Apps |-> <<>>]
  BY DEF MenuInit
<1>2. /\ menu \in Managers /\ ~menu.active /\ ~menu.tracking /\ menu.itemBase = {}
      /\ menu.title = 0
  <2>1. 0 \in 0 .. Len(Rows)
    BY TitlesAre
  <2> QED BY <1>1, <2>1 DEF Inactive, Managers
<1>3. PICK m : m = menu
  OBVIOUS
<1>4. Start = [m |-> m, marks |-> marks, desk |-> <<>>, acc |-> <<>>,
               bar |-> NoApp, fx |-> <<>>, all |-> FALSE, msg |-> None]
  BY <1>1, <1>3 DEF Start
<1>5. Start \in Handled
  <2>1. marks \in Trees
    BY <1>1 DEF Trees
  <2>2. <<>> \in Seq(SUBSET Flags) /\ <<>> \in Seq(live) /\ <<>> \in Seq(Drawings)
    OBVIOUS
  <2>3. [m |-> m, marks |-> marks, desk |-> <<>>, acc |-> <<>>,
         bar |-> NoApp, fx |-> <<>>, all |-> FALSE, msg |-> None] \in Handled
    BY <1>2, <1>3, <2>1, <2>2 DEF Handled
  <2> QED BY <1>4, <2>3
<1>6. /\ Start.m = menu /\ Start.marks = marks /\ Start.desk = <<>> /\ Start.acc = <<>>
      /\ Start.bar = NoApp /\ Start.fx = <<>>
  BY <1>1, StartIs
<1>7. \A a \in Apps, o \in Objects : marks[a][o] = {}
  BY <1>1
<1>8. Worked(Start) /\ Lit(Start)
  <2> HIDE DEF Start
  <2>1. Len(Start.desk) = 0
    BY <1>6
  <2> QED BY <1>2, <1>6, <1>7, <2>1 DEF Worked, Lit
<1>9. Drawable(Start)
  <2>1. Len(Start.fx) = 0
    BY <1>6
  <2> QED BY <2>1 DEF Drawable
<1>10. Good(Start)
  BY <1>5, <1>8, <1>9 DEF Good
<1>11. screen \in Screens /\ screen.pulled = {} /\ screen.rows = {}
  BY <1>1 DEF Screens, Blank
<1>12. Shows(Start, screen, Pulled(Start), LitRows(Start))
  <2>1. Pulled(Start) = {} /\ LitRows(Start) = {}
    BY <1>2, <1>6 DEF Pulled, LitRows
  <2> QED BY <1>6, <1>11, <2>1 DEF Shows
<1>13. queue \in [Apps -> Seq(Mail)] /\ \A a \in Apps : Len(queue[a]) <= QueueMax
  <2>1. <<>> \in Seq(Mail) /\ Len(<<>>) = 0 /\ QueueMax \in Nat
    BY MenuAssumption
  <2> QED BY <1>1, <2>1
<1> QED BY <1>1, <1>2, <1>10, <1>11, <1>12, <1>13 DEF IInv

\* Every step keeps the invariant and tells the owner of its title.
LEMMA StepKeeps ==
    ASSUME IInv, [MenuNext]_menuVars
    PROVE  IInv' /\ (MenuNext => ChoiceTold)
<1>1. CASE UNCHANGED menuVars
  <2>1. /\ UNCHANGED <<live, loaded, marks, shown, menu, desk, accessory, screen, queue>>
    BY <1>1 DEF menuVars
  <2>2. PICK Z : Z = Start
    OBVIOUS
  <2>3. Start' = Z
    BY <2>1, <2>2 DEF Start
  <2>4. Good(Z) /\ Z.acc \in Seq(live')
    <3>1. Good(Z)
      BY <2>2 DEF IInv
    <3> QED BY <2>1, <3>1 DEF Good, Handled
  <2>5. Good(Start)'
    BY <2>3, <2>4, NextGood
  <2>6. screen'.refused \/ Shows(Start, screen, Pulled(Start), LitRows(Start))'
    <3>1. screen.refused \/ Shows(Z, screen', Pulled(Z), LitRows(Z))
      BY <2>1, <2>2 DEF IInv
    <3> QED BY <2>1, <2>3, <3>1, NextShows
  <2>7. IInv'
    BY <2>1, <2>5, <2>6 DEF IInv
  <2>8. ChoiceTold
    BY <2>1 DEF ChoiceTold
  <2> QED BY <2>7, <2>8
<1>2. ASSUME NEW p \in Places, NEW down \in BOOLEAN, MenuInput(p, down, NoKey)
      PROVE  IInv' /\ ChoiceTold
  <2>1. p.at = "row" => p.k \in Nat
    BY PlacesIs
  <2>2. \A T : TitleAt(T, p) \in Titles \cup {0} /\ TitleAt(T, p) \in {0, p.t}
    BY PlacesIs
  <2> QED BY <1>2, <2>1, <2>2, InputKeeps
<1>3. ASSUME NEW key, MenuInput([at |-> "away", t |-> 0, k |-> 0], menu.button, key)
      PROVE  IInv' /\ ChoiceTold
  <2>1. PICK p, d : p = [at |-> "away", t |-> 0, k |-> 0] /\ d = menu.button
    OBVIOUS
  <2>2. MenuInput(p, d, key)
    BY <1>3, <2>1
  <2>3. p.at = "row" => p.k \in Nat
    BY <2>1
  <2>4. \A T : TitleAt(T, p) \in Titles \cup {0} /\ TitleAt(T, p) \in {0, p.t}
    BY <2>1 DEF TitleAt
  <2>5. d \in BOOLEAN
    <3>1. Good(Start) /\ Start.m = menu
      BY Enter, StartIs
    <3>2. menu \in Managers
      BY <3>1 DEF Good, Handled
    <3> QED BY <2>1, <3>2 DEF Managers
  <2> QED BY <2>2, <2>3, <2>4, <2>5, InputKeeps
<1>4. ASSUME NEW a \in Apps, NEW o \in Marked, NEW on \in BOOLEAN,
             MenuIcheck(a, o, on) \/ MenuIenable(a, o, on)
      PROVE  IInv' /\ ChoiceTold
  <2>1. o \in Objects
    BY MenuAssumption DEF Objects, Titles
  <2> QED BY <1>4, <2>1, IcheckKeeps, IenableKeeps
<1>5. ASSUME NEW a \in Apps, NEW i \in 1 .. MaxAccessories, MenuUnregister(a, i)
      PROVE  IInv' /\ ChoiceTold
  <2>1. i \in Nat
    BY MenuAssumption
  <2> QED BY <1>5, <2>1, UnregisterKeeps
<1>6. ASSUME NEW a \in Apps,
             \/ MenuBarShow(a) \/ MenuBarHide(a) \/ MenuRegister(a)
             \/ MenuRsrcFree(a) \/ MenuDetach(a) \/ MenuAttach(a) \/ MenuTake(a)
      PROVE  IInv' /\ ChoiceTold
  BY <1>6, BarShowKeeps, BarHideKeeps, RegisterKeeps, RsrcFreeKeeps, DetachKeeps,
     AttachKeeps, TakeKeeps
<1>7. CASE MenuNext
  BY <1>2, <1>3, <1>4, <1>5, <1>6, <1>7, TnormalKeeps DEF MenuNext
<1> QED BY <1>1, <1>7

\* The invariant holds in every state the menus can be in.
THEOREM MenuInvariance == MenuSpec => []IInv
<1>1. MenuInit => IInv
  BY InitKeeps
<1>2. IInv /\ [MenuNext]_menuVars => IInv'
  BY StepKeeps
<1> QED BY <1>1, <1>2, PTL DEF MenuSpec

\* What the invariant says of the properties that are checked.
LEMMA MenuSafetyIs ==
    ASSUME IInv
    PROVE  MenuSafety
<1>1. /\ Start.m = menu /\ Start.marks = marks /\ Start.desk = desk /\ Start.acc = accessory
      /\ Start.bar = shown
  BY StartIs
<1>2. /\ Good(Start) /\ Start \in Handled /\ Worked(Start) /\ Lit(Start)
  BY DEF IInv, Good
<1>3. OwnersLive
  <2>1. accessory \in Seq(live)
    BY <1>1, <1>2 DEF Handled
  <2>2. Range(accessory) \subseteq live
    BY <2>1 DEF Range
  <2>3. /\ menu.active => menu.owner = shown /\ menu.owner \in Apps
        /\ menu.tracking => menu.active
    BY <1>1, <1>2 DEF Worked
  <2> QED BY <2>2, <2>3 DEF IInv, OwnersLive
<1>4. ScreenIsCurrent
  <2>1. ASSUME ~screen.refused
        PROVE  /\ screen.pulled = (IF menu.tracking THEN {menu.title} ELSE {})
               /\ screen.rows = (IF menu.tracking /\ menu.item # 0
                                 THEN {<<menu.title, menu.item>>} ELSE {})
               /\ menu.tracking /\ InDesk(Start) => screen.names = accessory
               /\ shown # NoApp =>
                    screen.titles = {t \in Titles : "sel" \in marks[shown][<<t, 0>>]}
    <3>1. Shows(Start, screen, Pulled(Start), LitRows(Start))
      BY <2>1 DEF IInv
    <3>2. /\ screen.pulled = Pulled(Start) /\ screen.rows = LitRows(Start)
          /\ DeskTitle \in Pulled(Start) => screen.names = accessory
          /\ shown # NoApp => screen.titles = {t \in Titles : <<t, 0>> \in Chosen(Start)}
      BY <1>1, <3>1 DEF Shows
    <3>3. ASSUME NEW t \in Titles, shown # NoApp
          PROVE  <<t, 0>> \in Chosen(Start) <=> "sel" \in marks[shown][<<t, 0>>]
      <4>1. <<t, 0>> \in Objects /\ <<t, 0>> \in Titles \X Nat /\ <<t, 0>>[2] = 0
        BY ObjectsIs
      <4> QED BY <1>1, <3>3, <4>1 DEF Chosen
    <3>4. shown # NoApp => {t \in Titles : <<t, 0>> \in Chosen(Start)}
                           = {t \in Titles : "sel" \in marks[shown][<<t, 0>>]}
      BY <3>3
    <3>5. /\ Pulled(Start) = IF menu.tracking THEN {menu.title} ELSE {}
          /\ LitRows(Start) = IF menu.tracking /\ menu.item # 0
                              THEN {<<menu.title, menu.item>>} ELSE {}
      BY <1>1 DEF Pulled, LitRows
    <3>6. menu.tracking /\ InDesk(Start) => DeskTitle \in Pulled(Start)
      BY <1>1, <3>5 DEF InDesk
    <3> QED BY <3>2, <3>4, <3>5, <3>6
  <2> QED BY <2>1 DEF ScreenIsCurrent
<1>5. OneRow
  <2>1. \A a \in Apps, o \in Objects :
            o[2] # 0 /\ "sel" \in marks[a][o] => Tracked(Start, o) /\ a = menu.owner
    BY <1>1, <1>2 DEF Lit
  <2> QED BY <1>1, <2>1 DEF OneRow, Tracked
<1>6. QueuesFit
  BY DEF IInv, QueuesFit
<1> QED BY <1>3, <1>4, <1>5, <1>6 DEF MenuSafety

\* No reference outlives its client; what is painted is what the trees say; one
\* row at most is highlighted; the queues hold what is sent.
THEOREM MenuIsSafe == MenuSpec => []MenuSafety
<1>1. IInv => MenuSafety
  BY MenuSafetyIs
<1> QED BY <1>1, MenuInvariance, PTL

\* A title that stays highlighted has been told of.
THEOREM MenuTellsChoices == MenuSpec => ChoicesAreTold
<1>1. IInv /\ [MenuNext]_menuVars => [ChoiceTold]_menuVars
  BY StepKeeps
<1>2. MenuSpec => [][ChoiceTold]_menuVars
  BY <1>1, MenuInvariance, PTL DEF MenuSpec
<1> QED BY <1>2 DEF ChoicesAreTold, ChoiceTold

----------------------------------------------------------------------------
(* The tabs of the IRC client *)

Nicks == Names \cup {Me, NONE}
Labels == Nicks \cup Channels
TabKinds == {"SERVER", "CHANNEL", "PRIVATE", "FREE"}

TabRecords ==
    [order : [Slots -> Slots], kind : [Slots -> TabKinds], name : [Slots -> Labels],
     activity : [Slots -> BOOLEAN], active : Int, count : Int]

\* TabsAreWhole of any record of tabs, and that no buffer has two places.
Whole(t) ==
    /\ t \in TabRecords
    /\ \A j, k \in Slots : t.order[j] = t.order[k] => j = k
    /\ \A b \in Slots : \E k \in Slots : t.order[k] = b
    /\ t.count \in 2..Buffers /\ t.active \in 0..(t.count - 1)
    /\ t.kind[t.order[0]] = "SERVER"
    /\ t.kind[t.order[1]] \in {"FREE", "CHANNEL"}
    /\ \A k \in Slots : k >= 2 =>
          t.kind[t.order[k]] = IF k < t.count THEN "PRIVATE" ELSE "FREE"
    /\ t.kind[t.order[t.active]] # "FREE"
    /\ ~t.activity[t.order[t.active]]

\* The same tabs, but for marks and the names of chats.
SameTabs(t, u) ==
    /\ u.order = t.order /\ u.kind = t.kind /\ u.count = t.count
    /\ u.name[u.order[1]] = t.name[t.order[1]]

LEMMA SlotsThere == 0 \in Slots /\ 1 \in Slots /\ (\A k \in Slots : k \in Int)
BY TabsAssumption DEF Slots

\* What a change leaves of HomeChannel.
LEMMA SameHome ==
    ASSUME NEW t, NEW u, SameTabs(t, u)
    PROVE  HomeChannel(u) = HomeChannel(t)
BY DEF SameTabs, HomeChannel, KindAt, NameAt, At, CHANNEL

\* Marks, names and the tab shown may change as long as that one is in use.
LEMMA StaysWhole ==
    ASSUME NEW t, Whole(t), NEW u \in TabRecords,
           u.order = t.order, u.kind = t.kind, u.count = t.count,
           u.active \in 0..(u.count - 1), u.kind[u.order[u.active]] # "FREE",
           ~u.activity[u.order[u.active]]
    PROVE  Whole(u)
BY DEF Whole

LEMMA ActiveInSlots ==
    ASSUME NEW t, Whole(t)
    PROVE  /\ t.active \in Slots /\ t.order[t.active] \in Slots
           /\ t.count \in Int /\ t.count >= 2 /\ t.count <= Buffers
           /\ \A k \in 0..(t.count - 1) : k \in Slots
<1>1. t.count \in 2..Buffers /\ t.active \in 0..(t.count - 1) /\ t \in TabRecords
  BY DEF Whole
<1>2. t.count \in Int /\ t.active \in Int /\ t.order \in [Slots -> Slots]
  BY <1>1 DEF TabRecords
<1>3. t.count >= 2 /\ t.count <= Buffers
  BY <1>1, <1>2, TabsAssumption
<1>4. \A k \in 0..(t.count - 1) : k \in Slots
  BY <1>2, <1>3, TabsAssumption DEF Slots
<1> QED BY <1>1, <1>2, <1>3, <1>4

\* One assignment to a record of tabs, and what it leaves.
SetMark(t, b) == [t EXCEPT !.activity[b] = TRUE]
ClearMark(t, b) == [t EXCEPT !.activity[b] = FALSE]
SetName(t, b, v) == [t EXCEPT !.name[b] = v]
SetKind(t, b, v) == [t EXCEPT !.kind[b] = v]
SetActive(t, i) == [t EXCEPT !.active = i]
SetCount(t, n) == [t EXCEPT !.count = n]
SetOrder(t, o) == [t EXCEPT !.order = o]

LEMMA OneMarked ==
    ASSUME NEW t \in TabRecords, NEW b \in Slots, NEW u,
           u = SetMark(t, b)
    PROVE  /\ u \in TabRecords /\ u.order = t.order /\ u.kind = t.kind
           /\ u.count = t.count /\ u.active = t.active /\ u.name = t.name
           /\ u.activity = [t.activity EXCEPT ![b] = TRUE]
BY DEF TabRecords, SetMark

LEMMA OneCleared ==
    ASSUME NEW t \in TabRecords, NEW b \in Slots, NEW u,
           u = ClearMark(t, b)
    PROVE  /\ u \in TabRecords /\ u.order = t.order /\ u.kind = t.kind
           /\ u.count = t.count /\ u.active = t.active /\ u.name = t.name
           /\ u.activity = [t.activity EXCEPT ![b] = FALSE]
BY DEF TabRecords, ClearMark

LEMMA OneNamed ==
    ASSUME NEW t \in TabRecords, NEW b \in Slots, NEW v \in Labels, NEW u,
           u = SetName(t, b, v)
    PROVE  /\ u \in TabRecords /\ u.order = t.order /\ u.kind = t.kind
           /\ u.count = t.count /\ u.active = t.active /\ u.activity = t.activity
           /\ u.name = [t.name EXCEPT ![b] = v]
BY DEF TabRecords, SetName

LEMMA OneOfKind ==
    ASSUME NEW t \in TabRecords, NEW b \in Slots, NEW v \in TabKinds, NEW u,
           u = SetKind(t, b, v)
    PROVE  /\ u \in TabRecords /\ u.order = t.order /\ u.name = t.name
           /\ u.count = t.count /\ u.active = t.active /\ u.activity = t.activity
           /\ u.kind = [t.kind EXCEPT ![b] = v]
BY DEF TabRecords, SetKind

LEMMA OneShown ==
    ASSUME NEW t \in TabRecords, NEW i \in Int, NEW u, u = SetActive(t, i)
    PROVE  /\ u \in TabRecords /\ u.order = t.order /\ u.kind = t.kind
           /\ u.count = t.count /\ u.active = i /\ u.name = t.name
           /\ u.activity = t.activity
BY DEF TabRecords, SetActive

LEMMA OneCounted ==
    ASSUME NEW t \in TabRecords, NEW n \in Int, NEW u, u = SetCount(t, n)
    PROVE  /\ u \in TabRecords /\ u.order = t.order /\ u.kind = t.kind
           /\ u.count = n /\ u.active = t.active /\ u.name = t.name
           /\ u.activity = t.activity
BY DEF TabRecords, SetCount

LEMMA OneOrdered ==
    ASSUME NEW t \in TabRecords, NEW o \in [Slots -> Slots], NEW u, u = SetOrder(t, o)
    PROVE  /\ u \in TabRecords /\ u.order = o /\ u.kind = t.kind
           /\ u.count = t.count /\ u.active = t.active /\ u.name = t.name
           /\ u.activity = t.activity
BY DEF TabRecords, SetOrder

\* gem_irc_app_buffer_reset.
LEMMA ResetTo ==
    ASSUME NEW t \in TabRecords, NEW b \in Slots, NEW kind \in TabKinds,
           NEW u, u = BufferReset(t, b, kind)
    PROVE  /\ u \in TabRecords /\ u.order = t.order /\ u.count = t.count
           /\ u.active = t.active /\ u.kind = [t.kind EXCEPT ![b] = kind]
           /\ u.activity = [t.activity EXCEPT ![b] = FALSE]
           /\ u.name = [t.name EXCEPT ![b] = NONE]
<1>1. PICK v : v = SetKind(t, b, kind)
  OBVIOUS
<1>2. PICK w : w = ClearMark(v, b)
  OBVIOUS
<1>3. u = SetName(w, b, NONE)
  BY <1>1, <1>2 DEF BufferReset, SetName, ClearMark, SetKind
<1>4. NONE \in Labels
  BY DEF Labels, Nicks
<1>5. v \in TabRecords /\ v.order = t.order /\ v.name = t.name
      /\ v.count = t.count /\ v.active = t.active /\ v.activity = t.activity
      /\ v.kind = [t.kind EXCEPT ![b] = kind]
  BY <1>1, OneOfKind
<1>6. w \in TabRecords /\ w.order = v.order /\ w.kind = v.kind
      /\ w.count = v.count /\ w.active = v.active /\ w.name = v.name
      /\ w.activity = [v.activity EXCEPT ![b] = FALSE]
  BY <1>2, <1>5, OneCleared
<1>7. u \in TabRecords /\ u.order = w.order /\ u.kind = w.kind
      /\ u.count = w.count /\ u.active = w.active /\ u.activity = w.activity
      /\ u.name = [w.name EXCEPT ![b] = NONE]
  BY <1>3, <1>4, <1>6, OneNamed
<1> QED BY ONLY <1>5, <1>6, <1>7

LEMMA NotedKeeps ==
    ASSUME NEW t, Whole(t), NEW i \in Slots, NEW u, u = Noted(t, i)
    PROVE  Whole(u) /\ SameTabs(t, u) /\ u.active = t.active
<1>1. t.order[i] \in Slots
  BY DEF Whole, TabRecords
<1>2. CASE i = t.active
  BY <1>2 DEF Noted, SameTabs
<1>3. CASE i # t.active
  <2>1. u = SetMark(t, t.order[i])
    BY <1>3 DEF Noted, At, SetMark
  <2>2. u \in TabRecords /\ u.order = t.order /\ u.kind = t.kind /\ u.count = t.count
        /\ u.active = t.active /\ u.name = t.name
        /\ u.activity = [t.activity EXCEPT ![t.order[i]] = TRUE]
    <3>1. t \in TabRecords
      BY DEF Whole
    <3> QED BY <1>1, <2>1, <3>1, OneMarked
  <2>3. t.order[i] # t.order[t.active]
    BY <1>3, ActiveInSlots DEF Whole
  <2>4. ~u.activity[u.order[u.active]]
    BY <2>2, <2>3, ActiveInSlots DEF Whole, TabRecords
  <2> QED BY <2>2, <2>4, StaysWhole DEF Whole, SameTabs
<1> QED BY <1>2, <1>3

LEMMA SwitchKeeps ==
    ASSUME NEW t, Whole(t), NEW i \in Slots, NEW u, u = Switch(t, i)
    PROVE  Whole(u) /\ SameTabs(t, u)
<1>1. t.order[i] \in Slots /\ t.count \in Int
  BY DEF Whole, TabRecords
<1>2. CASE i >= t.count \/ KindAt(t, i) = "FREE" \/ t.active = i
  BY <1>2 DEF Switch, SameTabs
<1>3. CASE ~(i >= t.count \/ KindAt(t, i) = "FREE" \/ t.active = i)
  <2>1. u = [t EXCEPT !.activity[t.order[i]] = FALSE, !.active = i]
    BY <1>3 DEF Switch, At
  <2>2. i \in Int /\ i \in 0..(t.count - 1)
    BY <1>1, <1>3, SlotsThere DEF Slots
  <2>3. u \in TabRecords /\ u.order = t.order /\ u.kind = t.kind /\ u.count = t.count
        /\ u.active = i /\ u.name = t.name
        /\ u.activity = [t.activity EXCEPT ![t.order[i]] = FALSE]
    <3>1. t \in TabRecords
      BY DEF Whole
    <3>2. PICK v : v = ClearMark(t, t.order[i])
      OBVIOUS
    <3>3. v \in TabRecords /\ v.order = t.order /\ v.kind = t.kind /\ v.count = t.count
          /\ v.active = t.active /\ v.name = t.name
          /\ v.activity = [t.activity EXCEPT ![t.order[i]] = FALSE]
      BY <1>1, <3>1, <3>2, OneCleared
    <3>4. u = SetActive(v, i)
      BY <2>1, <3>2 DEF ClearMark, SetActive
    <3> QED BY <2>2, <3>3, <3>4, OneShown
  <2>4. ~u.activity[u.order[u.active]] /\ u.kind[u.order[u.active]] # "FREE"
    BY <1>1, <1>3, <2>3 DEF Whole, TabRecords, KindAt, At
  <2> QED BY <2>2, <2>3, <2>4, StaysWhole DEF Whole, SameTabs
<1> QED BY <1>2, <1>3

\* Any tab that is not free can be shown.
LEMMA CycledKeeps ==
    ASSUME NEW t, Whole(t), NEW d \in {-1, 1}, NEW u, u = Cycled(t, d)
    PROVE  Whole(u) /\ SameTabs(t, u)
<1> DEFINE a == t.active
           c == t.count
           Step(n) == (a + n * d + 4 * c) % c
           taken == {n \in 1..c : KindAt(t, Step(n)) # "FREE"}
<1>1. a \in Int /\ c \in Nat /\ c >= 2 /\ 0 <= a /\ a < c
  BY ActiveInSlots DEF Whole, Slots
<1>2. Step(c) = a
  <2> HIDE DEF a, c
  <2>1. CASE d = 1
    BY <1>1, <2>1
  <2>2. CASE d = -1
    BY <1>1, <2>2
  <2> QED BY <2>1, <2>2
<1>3. c \in taken
  BY <1>1, <1>2 DEF Whole, KindAt, At
<1>4. PICK n \in taken : n = CHOOSE least \in taken : \A k \in taken : least <= k
  <2>1. taken \in SUBSET Nat /\ IsFiniteSet(taken)
    <3>1. IsFiniteSet(1..c)
      BY <1>1, FS_Interval
    <3>2. taken \in SUBSET (1..c) /\ (1..c) \in SUBSET Nat
      BY <1>1
    <3> HIDE DEF taken
    <3> QED BY <3>1, <3>2, FS_Subset
  <2> HIDE DEF taken
  <2>2. \E n \in taken : \A k \in taken : n <= k
    BY <1>3, <2>1, LeastMember
  <2> QED BY <2>2
<1>5. Step(n) \in Slots
  <2>1. n \in Int
    BY <1>1
  <2>2. Step(n) \in 0..(c - 1)
    <3> HIDE DEF a, c, taken
    <3> QED BY <1>1, <2>1
  <2> QED BY <2>2, ActiveInSlots
<1>6. u = Switch(t, Step(n))
  BY <1>4 DEF Cycled
<1> HIDE DEF Step, taken, a, c
<1> QED BY <1>5, <1>6, SwitchKeeps

\* A tab in use may be renamed.
LEMMA RenamedKeeps ==
    ASSUME NEW t, Whole(t), NEW old \in Labels, NEW new \in Labels,
           NEW u, u = ChatRenamed(t, old, new)
    PROVE  Whole(u) /\ SameTabs(t, u) /\ u.active = t.active
<1> DEFINE found == ChatsWith(t, old)
<1>1. CASE found = {}
  BY <1>1 DEF ChatRenamed, SameTabs
<1>2. CASE found # {}
  <2>1. PICK k \in found : k = CHOOSE least \in found : \A j \in found : least <= j
    <3>1. t.count \in Int /\ t.count >= 2
      BY ActiveInSlots
    <3>2. found \in SUBSET (1..(t.count - 1)) /\ 1..(t.count - 1) \in SUBSET Nat
      BY <3>1 DEF ChatsWith
    <3>3. IsFiniteSet(1..(t.count - 1))
      BY <3>1, FS_Interval
    <3> HIDE DEF found
    <3>4. found \in SUBSET Nat /\ IsFiniteSet(found)
      BY <3>2, <3>3, FS_Subset
    <3>5. \E k \in found : \A j \in found : k <= j
      BY <1>2, <3>4, LeastMember
    <3> QED BY <3>5
  <2>2. k \in Slots /\ t.kind[t.order[k]] = "PRIVATE"
    <3>1. k \in 1..(t.count - 1) /\ KindAt(t, k) = "PRIVATE"
      BY DEF ChatsWith
    <3>2. k \in 0..(t.count - 1)
      BY <3>1, ActiveInSlots
    <3> QED BY <3>1, <3>2, ActiveInSlots DEF KindAt, At
  <2>3. u = SetName(t, t.order[k], new)
    BY <1>2, <2>1 DEF ChatRenamed, At, SetName
  <2>4. t.order[k] \in Slots /\ t.order[k] # t.order[1]
    <3>1. t.kind[t.order[1]] # "PRIVATE"
      BY DEF Whole
    <3> QED BY <2>2, <3>1 DEF Whole, TabRecords
  <2>5. u \in TabRecords /\ u.order = t.order /\ u.kind = t.kind /\ u.count = t.count
        /\ u.active = t.active /\ u.activity = t.activity
        /\ u.name = [t.name EXCEPT ![t.order[k]] = new]
    <3>1. t \in TabRecords
      BY DEF Whole
    <3> QED BY <2>3, <2>4, <3>1, OneNamed
  <2>6. u.name[t.order[1]] = t.name[t.order[1]]
    BY <2>4, <2>5, SlotsThere DEF Whole, TabRecords
  <2>7. Whole(u)
    BY <2>5, StaysWhole DEF Whole
  <2> QED BY <2>5, <2>6, <2>7 DEF SameTabs
<1> QED BY <1>1, <1>2

\* Another chat takes the first free place.
LEMMA OpenedKeeps ==
    ASSUME NEW t, Whole(t), NEW nick \in Labels, NEW u, u = ChatOpened(t, nick)
    PROVE  /\ Whole(u) /\ u.active = t.active /\ HomeChannel(u) = HomeChannel(t)
           /\ ChatIndex(t, nick) \in Slots /\ t.count <= u.count
<1> DEFINE found == ChatsWith(t, nick)
           i == ChatIndex(t, nick)
           b == t.order[i]
<1>1. t.count \in Int /\ t.count >= 2 /\ t.count <= Buffers
      /\ \A k \in 0..(t.count - 1) : k \in Slots
  BY ActiveInSlots
<1>2. CASE found # {}
  <2>1. PICK k \in found : k = CHOOSE least \in found : \A j \in found : least <= j
    <3>2. found \in SUBSET (1..(t.count - 1)) /\ 1..(t.count - 1) \in SUBSET Nat
      BY <1>1 DEF ChatsWith
    <3>3. IsFiniteSet(1..(t.count - 1))
      BY <1>1, FS_Interval
    <3> HIDE DEF found
    <3>4. found \in SUBSET Nat /\ IsFiniteSet(found)
      BY <3>2, <3>3, FS_Subset
    <3>5. \E k \in found : \A j \in found : k <= j
      BY <1>2, <3>4, LeastMember
    <3> QED BY <3>5
  <2>2. i = k
    BY <1>2, <2>1 DEF ChatIndex
  <2>3. k \in 0..(t.count - 1)
    BY <1>1 DEF ChatsWith
  <2>4. u = t
    BY <1>2 DEF ChatOpened
  <2> QED BY <1>1, <2>2, <2>3, <2>4
<1>3. CASE found = {} /\ ~(t.count < Buffers)
  <2>1. i = 0 /\ u = t
    BY <1>3 DEF ChatIndex, ChatOpened
  <2> QED BY <1>1, <2>1, SlotsThere
<1>4. CASE found = {} /\ t.count < Buffers
  <2>1. i = t.count /\ i # 0 /\ i \in Slots
    BY <1>1, <1>4, TabsAssumption DEF ChatIndex, Slots
  <2>2. b \in Slots /\ \A k \in Slots : k # i => t.order[k] # b
    BY <2>1 DEF Whole, TabRecords
  <2> HIDE DEF found, i
  <2>3. PICK v : v = BufferReset(t, b, "PRIVATE")
    OBVIOUS
  <2>a. /\ v \in TabRecords /\ v.order = t.order /\ v.count = t.count
        /\ v.active = t.active /\ v.kind = [t.kind EXCEPT ![b] = "PRIVATE"]
        /\ v.activity = [t.activity EXCEPT ![b] = FALSE]
        /\ v.name = [t.name EXCEPT ![b] = NONE]
    <3>1. t \in TabRecords /\ "PRIVATE" \in TabKinds
      BY DEF Whole, TabKinds
    <3> QED BY <2>2, <2>3, <3>1, ResetTo
  <2>b. u = [v EXCEPT !.name[b] = nick, !.count = @ + 1]
    BY <1>4, <2>1, <2>3 DEF ChatOpened, found, i, At
  <2>c. PICK w : w = SetName(v, b, nick)
    OBVIOUS
  <2>d. /\ w \in TabRecords /\ w.order = v.order /\ w.kind = v.kind
        /\ w.count = v.count /\ w.active = v.active /\ w.activity = v.activity
        /\ w.name = [v.name EXCEPT ![b] = nick]
    BY <2>2, <2>a, <2>c, OneNamed
  <2>e. u = SetCount(w, t.count + 1)
    BY <2>b, <2>c, <2>d, <2>a DEF SetName, SetCount
  <2>f. /\ u \in TabRecords /\ u.order = w.order /\ u.kind = w.kind
        /\ u.count = t.count + 1 /\ u.active = w.active /\ u.name = w.name
        /\ u.activity = w.activity
    <3>1. t.count + 1 \in Int
      BY <1>1
    <3> QED BY <2>d, <2>e, <3>1, OneCounted
  <2>4. /\ u.order = t.order /\ u.kind = [t.kind EXCEPT ![b] = "PRIVATE"]
        /\ u.activity = [t.activity EXCEPT ![b] = FALSE] /\ u.count = t.count + 1
        /\ u.active = t.active /\ u.name = [t.name EXCEPT ![b] = nick] /\ u \in TabRecords
    <3>1. [v.name EXCEPT ![b] = nick] = [t.name EXCEPT ![b] = nick]
      BY <2>a
    <3> QED BY ONLY <2>a, <2>d, <2>f, <3>1
  <2> HIDE DEF b
  <2>5. \A k \in Slots : k # i => u.kind[u.order[k]] = t.kind[t.order[k]]
                                 /\ u.activity[u.order[k]] = t.activity[t.order[k]]
                                 /\ u.name[u.order[k]] = t.name[t.order[k]]
    <3>1. ASSUME NEW k \in Slots, k # i
          PROVE  u.kind[u.order[k]] = t.kind[t.order[k]]
                 /\ u.activity[u.order[k]] = t.activity[t.order[k]]
                 /\ u.name[u.order[k]] = t.name[t.order[k]]
      <4>1. PICK x \in Slots : x = t.order[k] /\ x # b
        BY <2>2, <3>1 DEF Whole, TabRecords
      <4>2. u.order[k] = x
        BY <2>4, <4>1
      <4>3. /\ t.kind \in [Slots -> TabKinds] /\ t.name \in [Slots -> Labels]
            /\ t.activity \in [Slots -> BOOLEAN]
        BY DEF Whole, TabRecords
      <4>4. u.kind[x] = t.kind[x]
        BY ONLY <2>4, <4>1, <4>3
      <4>5. u.activity[x] = t.activity[x]
        BY ONLY <2>4, <4>1, <4>3
      <4>6. u.name[x] = t.name[x]
        BY ONLY <2>4, <4>1, <4>3
      <4> QED BY ONLY <4>1, <4>2, <4>4, <4>5, <4>6
    <3> QED BY ONLY <3>1
  <2>6. u.kind[u.order[i]] = "PRIVATE"
    BY <2>2, <2>4 DEF Whole, TabRecords, b
  <2>7. 0 # i /\ 1 # i /\ t.active # i /\ t.active \in Slots
    BY <1>1, <2>1, ActiveInSlots DEF Whole
  <2>8. u.count \in 2..Buffers /\ u.active \in 0..(u.count - 1)
    BY <1>1, <1>4, <2>4, TabsAssumption DEF Whole
  <2>9. ASSUME NEW k \in Slots, k >= 2
        PROVE  u.kind[u.order[k]] = IF k < u.count THEN "PRIVATE" ELSE "FREE"
    <3>1. CASE k = i
      BY <1>1, <2>1, <2>4, <2>6, <3>1
    <3>2. CASE k # i
      <4>1. k \in Int /\ (k < u.count <=> k < t.count)
        BY <1>1, <2>1, <2>4, <3>2, SlotsThere
      <4>2. t.kind[t.order[k]] = IF k < t.count THEN "PRIVATE" ELSE "FREE"
        BY <2>9 DEF Whole
      <4> QED BY <2>5, <3>2, <4>1, <4>2
    <3> QED BY <3>1, <3>2
  <2>10. Whole(u)
    <3>1. u.kind[u.order[0]] = "SERVER" /\ u.kind[u.order[1]] \in {"FREE", "CHANNEL"}
      BY <2>5, <2>7, SlotsThere DEF Whole
    <3>2. u.kind[u.order[u.active]] # "FREE" /\ ~u.activity[u.order[u.active]]
      BY <2>4, <2>5, <2>7 DEF Whole
    <3>3. /\ \A j, k \in Slots : u.order[j] = u.order[k] => j = k
          /\ \A x \in Slots : \E k \in Slots : u.order[k] = x
      BY <2>4 DEF Whole
    <3> QED BY ONLY <2>4, <2>8, <2>9, <3>1, <3>2, <3>3 DEF Whole
  <2>11. HomeChannel(u) = HomeChannel(t)
    BY <2>5, <2>7, SlotsThere DEF HomeChannel, KindAt, NameAt, At, CHANNEL
  <2> QED BY <1>1, <2>1, <2>4, <2>10, <2>11 DEF i
<1> QED BY <1>2, <1>3, <1>4

\* The fields of a record of tabs.
LEMMA TabFields ==
    ASSUME NEW t \in TabRecords
    PROVE  /\ t.order \in [Slots -> Slots] /\ t.kind \in [Slots -> TabKinds]
           /\ t.name \in [Slots -> Labels] /\ t.activity \in [Slots -> BOOLEAN]
           /\ t.active \in Int /\ t.count \in Int
BY DEF TabRecords

LEMMA ChannelReset ==
    ASSUME NEW t \in TabRecords, NEW b \in Slots, NEW r, r = BufferReset(t, b, "CHANNEL")
    PROVE  /\ r \in TabRecords /\ r.order = t.order /\ r.count = t.count
           /\ r.active = t.active /\ r.kind = [t.kind EXCEPT ![b] = "CHANNEL"]
           /\ r.activity = [t.activity EXCEPT ![b] = FALSE]
           /\ r.name = [t.name EXCEPT ![b] = NONE]
<1>1. "CHANNEL" \in TabKinds
  BY DEF TabKinds
<1> QED BY <1>1, ResetTo

\* The channel's place is taken, whatever it held.
LEMMA SetKeeps ==
    ASSUME NEW t, Whole(t), NEW channel \in Channels, NEW u, u = ChannelSet(t, channel)
    PROVE  Whole(u) /\ HomeChannel(u) = channel /\ u.count = t.count
<1>0. t \in TabRecords
  BY DEF Whole
<1>1. PICK b \in Slots : b = t.order[1]
  BY <1>0, TabFields, SlotsThere
<1>2. PICK v : v = IF t.name[b] = channel THEN t ELSE BufferReset(t, b, "CHANNEL")
  OBVIOUS
<1>3. /\ v \in TabRecords /\ v.order = t.order /\ v.count = t.count /\ v.active = t.active
      /\ \A x \in Slots : x # b => v.kind[x] = t.kind[x] /\ v.activity[x] = t.activity[x]
      /\ ~t.activity[b] => ~v.activity[b]
  <2>1. CASE t.name[b] = channel
    BY <1>0, <1>2, <2>1
  <2>2. CASE t.name[b] # channel
    <3>1. "CHANNEL" \in TabKinds
      BY DEF TabKinds
    <3>2. v = BufferReset(t, b, "CHANNEL")
      BY <1>2, <2>2
    <3>3. /\ v \in TabRecords /\ v.order = t.order /\ v.count = t.count
          /\ v.active = t.active /\ v.kind = [t.kind EXCEPT ![b] = "CHANNEL"]
          /\ v.activity = [t.activity EXCEPT ![b] = FALSE]
          /\ v.name = [t.name EXCEPT ![b] = NONE]
      BY <1>0, <3>2, ChannelReset
    <3>4. t.kind \in [Slots -> TabKinds] /\ t.activity \in [Slots -> BOOLEAN]
      BY <1>0, TabFields
    <3>5. \A x \in Slots : x # b => v.kind[x] = t.kind[x]
      BY ONLY <3>3, <3>4
    <3>6. \A x \in Slots : x # b => v.activity[x] = t.activity[x]
      BY ONLY <3>3, <3>4
    <3>7. ~v.activity[b]
      BY ONLY <3>3, <3>4, b \in Slots
    <3> QED BY ONLY <3>3, <3>5, <3>6, <3>7
  <2> QED BY <2>1, <2>2
<1>4. PICK w : w = SetName(v, b, channel)
  OBVIOUS
<1>5. PICK z : z = SetKind(w, b, "CHANNEL")
  OBVIOUS
<1>6. /\ w \in TabRecords /\ w.order = v.order /\ w.kind = v.kind /\ w.count = v.count
      /\ w.active = v.active /\ w.activity = v.activity
      /\ w.name = [v.name EXCEPT ![b] = channel]
  <2>1. channel \in Labels
    BY DEF Labels
  <2> QED BY <1>3, <1>4, <2>1, OneNamed
<1>7. /\ z \in TabRecords /\ z.order = w.order /\ z.name = w.name /\ z.count = w.count
      /\ z.active = w.active /\ z.activity = w.activity
      /\ z.kind = [w.kind EXCEPT ![b] = "CHANNEL"]
  <2>1. "CHANNEL" \in TabKinds
    BY DEF TabKinds
  <2> QED BY <1>5, <1>6, <2>1, OneOfKind
<1>8. u = Switch(z, 1)
  BY <1>1, <1>2, <1>4, <1>5 DEF ChannelSet, SetName, SetKind, At, CHANNEL
<1>9. /\ z.order = t.order /\ z.count = t.count /\ z.active = t.active
      /\ z.kind[b] = "CHANNEL" /\ z.name[b] = channel
      /\ \A x \in Slots : x # b => z.kind[x] = t.kind[x] /\ z.activity[x] = t.activity[x]
      /\ ~t.activity[b] => ~z.activity[b]
  <2>1. v.kind \in [Slots -> TabKinds] /\ v.name \in [Slots -> Labels]
    BY <1>3, TabFields
  <2>2. z.kind[b] = "CHANNEL" /\ \A x \in Slots : x # b => z.kind[x] = v.kind[x]
    BY ONLY <1>6, <1>7, <2>1, b \in Slots
  <2>3. z.name[b] = channel
    BY ONLY <1>6, <1>7, <2>1, b \in Slots
  <2> QED BY ONLY <1>3, <1>6, <1>7, <2>2, <2>3
<1>10. \A k \in Slots : k # 1 => t.order[k] \in Slots /\ t.order[k] # b
  BY <1>0, <1>1, SlotsThere, TabFields DEF Whole
<1>11. Whole(z)
  <2>1. t.active \in Slots
    BY ActiveInSlots
  <2>2. z.kind[z.order[0]] = "SERVER"
    BY <1>9, <1>10, SlotsThere DEF Whole
  <2>3. z.kind[z.order[1]] = "CHANNEL"
    BY <1>1, <1>9
  <2>4. \A k \in Slots : k >= 2 =>
           z.kind[z.order[k]] = IF k < z.count THEN "PRIVATE" ELSE "FREE"
    <3>1. ASSUME NEW k \in Slots, k >= 2
          PROVE  z.kind[z.order[k]] = IF k < z.count THEN "PRIVATE" ELSE "FREE"
      <4>1. k # 1
        BY <3>1
      <4>2. z.kind[z.order[k]] = t.kind[t.order[k]]
        BY <1>9, <1>10, <4>1
      <4> QED BY <1>9, <3>1, <4>2 DEF Whole
    <3> QED BY <3>1
  <2>5. z.kind[z.order[z.active]] # "FREE" /\ ~z.activity[z.order[z.active]]
    <3>1. CASE t.active = 1
      BY <1>1, <1>9, <3>1 DEF Whole
    <3>2. CASE t.active # 1
      BY <1>9, <1>10, <2>1, <3>2 DEF Whole
    <3> QED BY <3>1, <3>2
  <2>6. /\ \A j, k \in Slots : z.order[j] = z.order[k] => j = k
        /\ \A x \in Slots : \E k \in Slots : z.order[k] = x
        /\ z.count \in 2..Buffers /\ z.active \in 0..(z.count - 1)
    BY <1>9 DEF Whole
  <2> QED BY ONLY <1>7, <2>2, <2>3, <2>4, <2>5, <2>6 DEF Whole
<1>12. Whole(u) /\ SameTabs(z, u)
  BY <1>8, <1>11, SwitchKeeps, SlotsThere
<1>13. HomeChannel(z) = channel
  BY <1>1, <1>9 DEF HomeChannel, KindAt, NameAt, At, CHANNEL
<1> QED BY <1>9, <1>12, <1>13, SameHome DEF SameTabs

\* The channel's place is left free.
LEMMA ClearKeeps ==
    ASSUME NEW t, Whole(t), NEW u, u = ChannelClear(t)
    PROVE  Whole(u) /\ HomeChannel(u) = NONE /\ u.count = t.count
<1>0. t \in TabRecords
  BY DEF Whole
<1>1. PICK b \in Slots : b = t.order[1]
  BY <1>0, TabFields, SlotsThere
<1>2. PICK v : v = SetName(t, b, NONE)
  OBVIOUS
<1>3. PICK z : z = SetKind(v, b, "FREE")
  OBVIOUS
<1>4. /\ v \in TabRecords /\ v.order = t.order /\ v.kind = t.kind /\ v.count = t.count
      /\ v.active = t.active /\ v.activity = t.activity
      /\ v.name = [t.name EXCEPT ![b] = NONE]
  <2>1. NONE \in Labels
    BY DEF Labels, Nicks
  <2> QED BY <1>0, <1>2, <2>1, OneNamed
<1>5. /\ z \in TabRecords /\ z.order = v.order /\ z.name = v.name /\ z.count = v.count
      /\ z.active = v.active /\ z.activity = v.activity
      /\ z.kind = [v.kind EXCEPT ![b] = "FREE"]
  <2>1. "FREE" \in TabKinds
    BY DEF TabKinds
  <2> QED BY <1>3, <1>4, <2>1, OneOfKind
<1>6. u = IF t.active = 1 THEN Switch(z, 0) ELSE z
  BY <1>1, <1>2, <1>3 DEF ChannelClear, SetName, SetKind, At, CHANNEL
<1>7. \A k \in Slots : k # 1 => t.order[k] \in Slots /\ t.order[k] # b
  BY <1>0, <1>1, SlotsThere, TabFields DEF Whole
<1>8. z.kind[b] = "FREE" /\ \A x \in Slots : x # b => z.kind[x] = t.kind[x]
  BY <1>0, <1>4, <1>5, TabFields
<1>9. z.kind[z.order[0]] = "SERVER" /\ z.kind[z.order[1]] = "FREE"
  BY <1>1, <1>4, <1>5, <1>7, <1>8, SlotsThere DEF Whole
<1>10. \A k \in Slots : k >= 2 =>
          z.kind[z.order[k]] = IF k < z.count THEN "PRIVATE" ELSE "FREE"
  <2>1. ASSUME NEW k \in Slots, k >= 2
        PROVE  z.kind[z.order[k]] = IF k < z.count THEN "PRIVATE" ELSE "FREE"
    <3>1. k # 1
      BY <2>1
    <3>2. z.kind[z.order[k]] = t.kind[t.order[k]]
      BY <1>4, <1>5, <1>7, <1>8, <3>1
    <3> QED BY <1>4, <1>5, <2>1, <3>2 DEF Whole
  <2> QED BY <2>1
<1>11. /\ \A j, k \in Slots : z.order[j] = z.order[k] => j = k
       /\ \A x \in Slots : \E k \in Slots : z.order[k] = x
       /\ z.count \in 2..Buffers /\ z.active \in 0..(z.count - 1)
  BY <1>4, <1>5 DEF Whole
<1>12. HomeChannel(z) = NONE
  BY <1>9 DEF HomeChannel, KindAt, At, CHANNEL
<1>13. CASE t.active # 1
  <2>1. t.active \in Slots /\ u = z
    BY <1>6, <1>13, ActiveInSlots
  <2>2. z.kind[z.order[z.active]] # "FREE" /\ ~z.activity[z.order[z.active]]
    BY <1>4, <1>5, <1>7, <1>8, <1>13, <2>1 DEF Whole
  <2>3. Whole(z)
    BY ONLY <1>5, <1>9, <1>10, <1>11, <2>2 DEF Whole
  <2> QED BY <1>4, <1>5, <1>12, <2>1, <2>3
<1>14. CASE t.active = 1
  <2>1. PICK c \in Slots : c = t.order[0]
    BY <1>0, TabFields, SlotsThere
  <2>2. PICK w : w = ClearMark(z, c)
    OBVIOUS
  <2>3. u = SetActive(w, 0)
    <3>1. ~(0 >= z.count) /\ z.kind[z.order[0]] # "FREE" /\ z.active # 0
      BY <1>4, <1>5, <1>9, <1>14, ActiveInSlots
    <3> QED BY <1>4, <1>5, <1>6, <1>14, <2>1, <2>2, <3>1
            DEF Switch, KindAt, At, ClearMark, SetActive
  <2>4. /\ w \in TabRecords /\ w.order = z.order /\ w.kind = z.kind /\ w.count = z.count
        /\ w.active = z.active /\ w.name = z.name
        /\ w.activity = [z.activity EXCEPT ![c] = FALSE]
    BY <1>5, <2>2, OneCleared
  <2>5. /\ u \in TabRecords /\ u.order = w.order /\ u.kind = w.kind /\ u.count = w.count
        /\ u.active = 0 /\ u.name = w.name /\ u.activity = w.activity
    BY <2>3, <2>4, 0 \in Int, OneShown
  <2>6. ~u.activity[c]
    BY <1>5, <2>4, <2>5, TabFields
  <2>7. u.order[0] = c
    BY <1>4, <1>5, <2>1, <2>4, <2>5
  <2>8. u.kind[u.order[u.active]] # "FREE" /\ ~u.activity[u.order[u.active]]
    BY <1>9, <2>4, <2>5, <2>6, <2>7
  <2>9. u.active \in 0..(u.count - 1)
    BY <1>4, <1>5, <2>4, <2>5, ActiveInSlots
  <2>10. Whole(u)
    BY ONLY <1>9, <1>10, <1>11, <2>4, <2>5, <2>8, <2>9 DEF Whole
  <2>11. HomeChannel(u) = NONE
    BY <1>12, <2>4, <2>5 DEF HomeChannel, KindAt, NameAt, At, CHANNEL
  <2> QED BY <1>4, <1>5, <2>4, <2>5, <2>10, <2>11
<1> QED BY <1>13, <1>14

\* Where the tab at a place was before the chat at i was closed, and where one
\* went.
CameFrom(t, i, k) ==
    IF k < i \/ k >= t.count THEN k ELSE IF k < t.count - 1 THEN k + 1 ELSE i
WentTo(t, i, j) ==
    IF j < i \/ j >= t.count THEN j ELSE IF j = i THEN t.count - 1 ELSE j - 1

LEMMA Rotation ==
    ASSUME NEW t, Whole(t), NEW i \in 2..(t.count - 1)
    PROVE  /\ \A k \in Slots : CameFrom(t, i, k) \in Slots /\ WentTo(t, i, k) \in Slots
           /\ \A k \in Slots : CameFrom(t, i, WentTo(t, i, k)) = k
           /\ \A j, k \in Slots : CameFrom(t, i, j) = CameFrom(t, i, k) => j = k
           /\ \A k \in Slots : CameFrom(t, i, k) = i <=> k = t.count - 1
<1>1. t.count \in Int /\ t.count >= 2 /\ t.count <= Buffers /\ Buffers \in Int
  BY ActiveInSlots, TabsAssumption
<1>2. i \in Int /\ 2 <= i /\ i < t.count
  BY <1>1
<1> DEFINE c == t.count
<1>3. c \in Int /\ 2 <= c /\ c <= Buffers /\ i < c /\ Buffers \in Int
  BY <1>1, <1>2
<1> HIDE DEF c
<1>4. ASSUME NEW k \in Slots
      PROVE  CameFrom(t, i, k) \in Slots /\ WentTo(t, i, k) \in Slots
             /\ CameFrom(t, i, WentTo(t, i, k)) = k
             /\ (CameFrom(t, i, k) = i <=> k = t.count - 1)
  <2>1. k \in Int /\ 0 <= k /\ k < Buffers
    BY <1>1 DEF Slots
  <2>2. CameFrom(t, i, k) \in Slots
    BY ONLY <1>1, <1>2, <2>1 DEF CameFrom, Slots
  <2>3. WentTo(t, i, k) \in Slots
    BY ONLY <1>1, <1>2, <2>1 DEF WentTo, Slots
  <2>4. CameFrom(t, i, WentTo(t, i, k)) = k
    BY ONLY <1>1, <1>2, <2>1 DEF CameFrom, WentTo
  <2>5. CameFrom(t, i, k) = i <=> k = t.count - 1
    BY ONLY <1>1, <1>2, <2>1 DEF CameFrom
  <2> QED BY ONLY <2>2, <2>3, <2>4, <2>5
<1>5. ASSUME NEW j \in Slots, NEW k \in Slots, CameFrom(t, i, j) = CameFrom(t, i, k)
      PROVE  j = k
  <2>1. k \in Int /\ 0 <= k /\ k < Buffers /\ j \in Int /\ 0 <= j /\ j < Buffers
    BY <1>1 DEF Slots
  <2> QED BY ONLY <1>1, <1>2, <1>5, <2>1 DEF CameFrom
<1> QED BY ONLY <1>4, <1>5

\* gem_irc_app_close_buffer: the pointers rotate and the tab shown goes along.
LEMMA ClosedKeeps ==
    ASSUME NEW t, Whole(t), NEW i \in 2..(t.count - 1), NEW u, u = ChatClosed(t, i)
    PROVE  /\ Whole(u) /\ HomeChannel(u) = HomeChannel(t)
           /\ u.kind[t.order[t.active]] # "FREE" =>
                 u.order[u.active] = t.order[t.active]
<1>0. t \in TabRecords
  BY DEF Whole
<1>1. t.count \in Int /\ t.count >= 2 /\ t.count <= Buffers /\ Buffers \in Int
      /\ t.active \in Int /\ 0 <= t.active /\ t.active < t.count
      /\ i \in Int /\ 2 <= i /\ i < t.count /\ i \in Slots /\ t.active \in Slots
  <2>1. t.count \in Int /\ t.count >= 2 /\ t.count <= Buffers /\ t.active \in Slots
    BY ActiveInSlots
  <2>2. i \in Int /\ 2 <= i /\ i < t.count /\ t.active \in Int /\ 0 <= t.active
        /\ t.active < t.count
    BY <2>1, SlotsThere DEF Whole
  <2>3. i \in 0..(t.count - 1)
    BY <2>1, <2>2
  <2> QED BY <2>1, <2>2, <2>3, ActiveInSlots, TabsAssumption
<1>2. PICK b \in Slots : b = t.order[i]
  BY <1>0, <1>1, TabFields
<1>3. PICK o : o = [k \in Slots |-> IF k < i \/ k >= t.count THEN t.order[k]
                                    ELSE IF k < t.count - 1 THEN t.order[k + 1]
                                    ELSE t.order[i]]
  OBVIOUS
<1>4. /\ o \in [Slots -> Slots]
      /\ \A k \in Slots : o[k] = t.order[CameFrom(t, i, k)]
  <2>1. t.order \in [Slots -> Slots]
    BY <1>0, TabFields
  <2>2. ASSUME NEW k \in Slots PROVE o[k] = t.order[CameFrom(t, i, k)] /\ o[k] \in Slots
    <3>1. o[k] = t.order[CameFrom(t, i, k)]
      BY ONLY <1>2, <1>3, k \in Slots DEF CameFrom
    <3>2. CameFrom(t, i, k) \in Slots
      BY Rotation
    <3> QED BY ONLY <2>1, <3>1, <3>2
  <2>3. o = [k \in Slots |-> o[k]]
    BY <1>3
  <2> QED BY ONLY <2>2, <2>3
<1>5. PICK r : r = BufferReset(t, b, "FREE")
  OBVIOUS
<1>6. /\ r \in TabRecords /\ r.order = t.order /\ r.count = t.count
      /\ r.active = t.active /\ r.kind = [t.kind EXCEPT ![b] = "FREE"]
      /\ r.activity = [t.activity EXCEPT ![b] = FALSE]
      /\ r.name = [t.name EXCEPT ![b] = NONE]
  <2>1. "FREE" \in TabKinds /\ b \in Slots
    BY DEF TabKinds
  <2> QED BY ONLY <1>0, <1>5, <2>1, ResetTo
<1>7. PICK v : v = SetOrder(r, o)
  OBVIOUS
<1>8. PICK w : w = SetCount(v, t.count - 1)
  OBVIOUS
<1>9. /\ v \in TabRecords /\ v.order = o /\ v.kind = r.kind /\ v.count = r.count
      /\ v.active = r.active /\ v.name = r.name /\ v.activity = r.activity
  BY <1>4, <1>6, <1>7, OneOrdered
<1>10. /\ w \in TabRecords /\ w.order = v.order /\ w.kind = v.kind
       /\ w.count = t.count - 1 /\ w.active = v.active /\ w.name = v.name
       /\ w.activity = v.activity
  <2>1. t.count - 1 \in Int
    BY <1>1
  <2> QED BY <1>8, <1>9, <2>1, OneCounted
<1>11. PICK back : back = IF t.active >= i /\ t.active > 0 THEN t.active - 1 ELSE t.active
  OBVIOUS
<1>12. PICK last : last = IF back >= w.count THEN w.count - 1 ELSE back
  OBVIOUS
<1>13. PICK place : place = IF w.kind[w.order[last]] = "FREE" THEN 0 ELSE last
  OBVIOUS
<1>14. last \in Int /\ 0 <= last /\ last < t.count - 1 /\ last \in Slots
  <2>1. last \in Int /\ 0 <= last /\ last < t.count - 1
    BY ONLY <1>1, <1>10, <1>11, <1>12
  <2>2. last \in 0..(t.count - 1)
    BY ONLY <1>1, <2>1
  <2> QED BY <2>1, <2>2, ActiveInSlots
<1>15. PICK z : z = SetActive(w, place)
  OBVIOUS
<1>16. place \in Int /\ 0 <= place /\ place < t.count - 1 /\ place \in Slots
  BY ONLY <1>1, <1>13, <1>14, SlotsThere
<1>17. PICK d \in Slots : d = w.order[place]
  BY <1>10, <1>16, TabFields
<1>18. u = ClearMark(z, d)
  <2>1. r = BufferReset(t, t.order[i], "FREE")
    BY <1>2, <1>5
  <2>2. w = Rotated(t, i)
    BY <1>3, <1>6, <1>7, <1>8, <2>1 DEF SetOrder, SetCount, Rotated, At
  <2>3. u = [w EXCEPT !.active = place, !.activity[w.order[place]] = FALSE]
    BY <1>11, <1>12, <1>13, <2>2 DEF ChatClosed, KindAt, At
  <2> QED BY ONLY <1>15, <1>17, <2>3 DEF SetActive, ClearMark
<1>19. /\ z \in TabRecords /\ z.order = w.order /\ z.kind = w.kind /\ z.count = w.count
       /\ z.active = place /\ z.name = w.name /\ z.activity = w.activity
  BY <1>10, <1>15, <1>16, OneShown
<1>20. /\ u \in TabRecords /\ u.order = z.order /\ u.kind = z.kind /\ u.count = z.count
       /\ u.active = z.active /\ u.name = z.name
       /\ u.activity = [z.activity EXCEPT ![d] = FALSE]
  BY <1>17, <1>18, <1>19, OneCleared
<1>21. u.order = o /\ u.count = t.count - 1 /\ u.active = place
       /\ u.kind = [t.kind EXCEPT ![b] = "FREE"] /\ u.name = [t.name EXCEPT ![b] = NONE]
  BY ONLY <1>6, <1>9, <1>10, <1>19, <1>20
<1>22. u.kind[b] = "FREE" /\ \A x \in Slots : x # b => u.kind[x] = t.kind[x]
  <2>1. t.kind \in [Slots -> TabKinds] /\ b \in Slots
    BY <1>0, TabFields
  <2> QED BY ONLY <1>21, <2>1
<1>23. \A x \in Slots : x # b => u.name[x] = t.name[x]
  <2>1. t.name \in [Slots -> Labels]
    BY <1>0, TabFields
  <2> QED BY ONLY <1>21, <2>1
<1>24. \A k \in Slots : k # i => t.order[k] \in Slots /\ t.order[k] # b
  BY <1>0, <1>1, <1>2, TabFields DEF Whole
<1>25. ASSUME NEW k \in Slots
       PROVE  u.kind[u.order[k]] = IF k = t.count - 1 THEN "FREE"
                                   ELSE t.kind[t.order[CameFrom(t, i, k)]]
  <2>1. u.order[k] = t.order[CameFrom(t, i, k)] /\ CameFrom(t, i, k) \in Slots
        /\ (CameFrom(t, i, k) = i <=> k = t.count - 1)
    BY <1>4, <1>21, Rotation
  <2> QED BY <1>2, <1>22, <1>24, <2>1
<1>26. CameFrom(t, i, 0) = 0 /\ CameFrom(t, i, 1) = 1 /\ 0 # t.count - 1 /\ 1 # t.count - 1
  BY ONLY <1>1 DEF CameFrom
<1>27. u.kind[u.order[0]] = "SERVER" /\ u.kind[u.order[1]] \in {"FREE", "CHANNEL"}
  BY <1>25, <1>26, SlotsThere DEF Whole
<1>28. ASSUME NEW k \in Slots, k >= 2
       PROVE  u.kind[u.order[k]] = IF k < u.count THEN "PRIVATE" ELSE "FREE"
  <2>1. k \in Int
    BY SlotsThere
  <2>2. CASE k = t.count - 1
    BY <1>1, <1>21, <1>25, <2>2
  <2>3. CASE k # t.count - 1
    <3>1. CameFrom(t, i, k) \in Slots
      BY Rotation
    <3>2. CameFrom(t, i, k) >= 2 /\ (CameFrom(t, i, k) < t.count <=> k < t.count - 1)
      BY ONLY <1>1, <1>28, <2>1, <2>3 DEF CameFrom
    <3>3. t.kind[t.order[CameFrom(t, i, k)]]
             = IF CameFrom(t, i, k) < t.count THEN "PRIVATE" ELSE "FREE"
      BY <3>1, <3>2 DEF Whole
    <3> QED BY <1>21, <1>25, <2>3, <3>2, <3>3
  <2> QED BY <2>2, <2>3
<1>29. u.kind[u.order[u.active]] # "FREE" /\ ~u.activity[u.order[u.active]]
  <2>1. u.order[u.active] = d
    BY ONLY <1>17, <1>19, <1>20
  <2>2. z.activity \in [Slots -> BOOLEAN]
    BY <1>19, TabFields
  <2>3. ~u.activity[d]
    BY ONLY <1>20, <2>2, d \in Slots
  <2>4. u.kind[u.order[place]] # "FREE"
    <3>1. w.kind = u.kind /\ w.order = u.order
      BY ONLY <1>19, <1>20
    <3> QED BY ONLY <1>13, <1>27, <3>1
  <2> QED BY ONLY <1>21, <2>1, <2>3, <2>4
<1>30. /\ \A j, k \in Slots : u.order[j] = u.order[k] => j = k
       /\ \A x \in Slots : \E k \in Slots : u.order[k] = x
  <2>1. ASSUME NEW j \in Slots, NEW k \in Slots, u.order[j] = u.order[k] PROVE j = k
    <3>1. CameFrom(t, i, j) \in Slots /\ CameFrom(t, i, k) \in Slots
      BY Rotation
    <3>2. t.order[CameFrom(t, i, j)] = t.order[CameFrom(t, i, k)]
      BY <1>4, <1>21, <2>1
    <3>3. CameFrom(t, i, j) = CameFrom(t, i, k)
      BY <3>1, <3>2 DEF Whole
    <3> QED BY <3>3, Rotation
  <2>2. ASSUME NEW x \in Slots PROVE \E k \in Slots : u.order[k] = x
    <3>1. PICK j \in Slots : t.order[j] = x
      BY DEF Whole
    <3>2. WentTo(t, i, j) \in Slots /\ CameFrom(t, i, WentTo(t, i, j)) = j
      BY Rotation
    <3>3. u.order[WentTo(t, i, j)] = x
      BY <1>4, <1>21, <3>1, <3>2
    <3> QED BY <3>2, <3>3
  <2> QED BY <2>1, <2>2
<1>31. u.count \in 2..Buffers /\ u.active \in 0..(u.count - 1)
  BY ONLY <1>1, <1>16, <1>21
<1>32. Whole(u)
  BY ONLY <1>20, <1>19, <1>27, <1>28, <1>29, <1>30, <1>31 DEF Whole
<1>33. HomeChannel(u) = HomeChannel(t)
  <2>1. u.order[1] = t.order[1]
    BY <1>4, <1>21, <1>26, SlotsThere
  <2>2. t.order[1] \in Slots /\ t.order[1] # b
    BY <1>1, <1>24, SlotsThere
  <2> QED BY <1>22, <1>23, <2>1, <2>2 DEF HomeChannel, KindAt, NameAt, At, CHANNEL
<1>34. ASSUME u.kind[t.order[t.active]] # "FREE"
       PROVE  u.order[u.active] = t.order[t.active]
  <2>1. t.active # i
    BY <1>2, <1>22, <1>34
  <2>2. CameFrom(t, i, last) = t.active
    BY ONLY <1>1, <1>10, <1>11, <1>12, <2>1 DEF CameFrom
  <2>3. u.order[last] = t.order[t.active]
    BY <1>4, <1>14, <1>21, <2>2
  <2>4. place = last
    <3>1. w.kind = u.kind /\ w.order = u.order
      BY ONLY <1>19, <1>20
    <3> QED BY ONLY <1>13, <1>34, <2>3, <3>1
  <2> QED BY <1>21, <2>3, <2>4
<1> QED BY <1>32, <1>33, <1>34

----------------------------------------------------------------------------
(* The roster *)

Entries == [name : Nicks, rank : Ranks \cup {5}]
NamesOf(r) == {r[k].name : k \in DOMAIN r}
Distinct(r) == \A j, k \in DOMAIN r : r[j].name = r[k].name => j = k

MeRecords ==
    [nick : Nicks, connected : BOOLEAN, closing : BOOLEAN, roster : Seq(Entries),
     overflow : BOOLEAN]

\* s is r with e put before the place p.
PutIn(s, r, p, e) ==
    /\ s \in Seq(Entries) /\ Len(s) = Len(r) + 1
    /\ \A j \in 1..(Len(r) + 1) :
          s[j] = IF j < p THEN r[j] ELSE IF j = p THEN e ELSE r[j - 1]

LEMMA InsertionIs ==
    ASSUME NEW r \in Seq(Entries), NEW e \in Entries, NEW p \in 1..(Len(r) + 1),
           NEW s, s = InsertAt(r, p, e)
    PROVE  PutIn(s, r, p, e)
<1> DEFINE front == SubSeq(r, 1, p - 1)
           back == SubSeq(r, p, Len(r))
           n == Len(r)
<1>1. n \in Nat /\ p \in Nat /\ 1 <= p /\ p <= n + 1
  BY LenProperties
<1>2. /\ front \in Seq(Entries) /\ Len(front) = p - 1
      /\ \A j \in 1..(p - 1) : front[j] = r[j]
  BY <1>1
<1>3. /\ back \in Seq(Entries) /\ Len(back) = n - p + 1
      /\ \A j \in 1..(n - p + 1) : back[j] = r[(p - 1) + j]
  BY <1>1
<1> HIDE DEF front, back
<1>4. PICK a : a = front \o <<e>>
  OBVIOUS
<1>5. a \in Seq(Entries) /\ Len(a) = p /\ a[p] = e /\ \A j \in 1..(p - 1) : a[j] = r[j]
  BY <1>1, <1>2, <1>4
<1>6. s = a \o back
  BY <1>4 DEF InsertAt, front, back
<1> HIDE DEF n
<1>7. /\ s \in Seq(Entries) /\ Len(s) = Len(a) + Len(back)
      /\ \A j \in 1..(Len(a) + Len(back)) :
            s[j] = IF j <= Len(a) THEN a[j] ELSE back[j - Len(a)]
  <2>1. a \in Seq(Entries) /\ back \in Seq(Entries)
    BY <1>3, <1>5
  <2> QED BY ONLY <1>6, <2>1, ConcatProperties
<1>8. Len(s) = n + 1 /\ Len(a) + Len(back) = n + 1
  BY ONLY <1>1, <1>3, <1>5, <1>7
<1>9. ASSUME NEW j \in 1..(n + 1)
      PROVE  s[j] = IF j < p THEN r[j] ELSE IF j = p THEN e ELSE r[j - 1]
  <2>1. s[j] = IF j <= p THEN a[j] ELSE back[j - p]
    BY <1>5, <1>7, <1>8
  <2>2. CASE j < p
    <3>1. j \in 1..(p - 1) /\ j <= p
      BY <1>1, <2>2
    <3> QED BY <1>5, <2>1, <2>2, <3>1
  <2>3. CASE j = p
    BY <1>1, <1>5, <2>1, <2>3
  <2>4. CASE j > p
    <3>1. PICK i : i = j - p
      OBVIOUS
    <3>2. i \in 1..(n - p + 1) /\ (p - 1) + i = j - 1 /\ ~(j <= p) /\ ~(j < p) /\ j # p
      BY <1>1, <2>4, <3>1
    <3>3. back[i] = r[(p - 1) + i]
      BY <1>3, <3>2
    <3> QED BY <2>1, <3>1, <3>2, <3>3
  <2> QED BY <1>1, <2>2, <2>3, <2>4
<1> QED BY <1>7, <1>8, <1>9 DEF PutIn, n

LEMMA PutInNames ==
    ASSUME NEW r \in Seq(Entries), NEW e \in Entries, NEW p \in 1..(Len(r) + 1),
           NEW s, PutIn(s, r, p, e), Distinct(r), e.name \notin NamesOf(r)
    PROVE  Distinct(s) /\ NamesOf(s) = NamesOf(r) \cup {e.name}
<1> DEFINE n == Len(r)
<1>1. n \in Nat /\ p \in Nat /\ 1 <= p /\ p <= n + 1 /\ DOMAIN r = 1..n
  BY LenProperties
<1>2. s \in Seq(Entries) /\ Len(s) = n + 1 /\ DOMAIN s = 1..(n + 1)
  BY LenProperties DEF PutIn
<1>3. \A j \in 1..(n + 1) :
         s[j] = IF j < p THEN r[j] ELSE IF j = p THEN e ELSE r[j - 1]
  BY DEF PutIn
<1> HIDE DEF n
<1> DEFINE from(j) == IF j < p THEN j ELSE j - 1
<1>4. ASSUME NEW j \in 1..(n + 1), j # p
      PROVE  from(j) \in 1..n /\ s[j] = r[from(j)]
  <2>1. CASE j < p
    <3>1. from(j) = j /\ j \in 1..n
      BY <1>1, <2>1
    <3> QED BY <1>3, <2>1, <3>1
  <2>2. CASE j > p
    <3>1. from(j) = j - 1 /\ j - 1 \in 1..n /\ ~(j < p) /\ j # p
      BY <1>1, <2>2
    <3> QED BY <1>3, <3>1
  <2> QED BY <1>1, <1>4, <2>1, <2>2
<1>5. s[p] = e /\ p \in 1..(n + 1)
  BY <1>1, <1>3
<1>6. \A k \in 1..n : r[k].name # e.name
  BY <1>1 DEF NamesOf
<1>7. ASSUME NEW j \in 1..(n + 1), NEW k \in 1..(n + 1), s[j].name = s[k].name
      PROVE  j = k
  <2>1. CASE j = p
    BY <1>4, <1>5, <1>6, <1>7, <2>1
  <2>2. CASE k = p
    BY <1>4, <1>5, <1>6, <1>7, <2>2
  <2>3. CASE j # p /\ k # p
    <3>1. from(j) \in 1..n /\ from(k) \in 1..n /\ r[from(j)].name = r[from(k)].name
      BY <1>4, <1>7, <2>3
    <3>2. from(j) = from(k)
      BY <1>1, <3>1 DEF Distinct
    <3>3. j \in Int /\ k \in Int
      BY <1>1
    <3> QED BY ONLY <1>1, <2>3, <3>2, <3>3
  <2> QED BY <2>1, <2>2, <2>3
<1>8. ASSUME NEW k \in 1..n PROVE r[k].name \in NamesOf(s)
  <2>1. CASE k < p
    <3>1. k \in 1..(n + 1) /\ k # p /\ from(k) = k
      BY <1>1, <2>1
    <3> QED BY <1>2, <1>4, <3>1 DEF NamesOf
  <2>2. CASE ~(k < p)
    <3>1. k + 1 \in 1..(n + 1) /\ k + 1 # p /\ from(k + 1) = k
      BY <1>1, <2>2
    <3> QED BY <1>2, <1>4, <3>1 DEF NamesOf
  <2> QED BY <2>1, <2>2
<1>9. ASSUME NEW j \in 1..(n + 1) PROVE s[j].name \in NamesOf(r) \cup {e.name}
  <2>1. CASE j = p
    BY <1>5, <2>1
  <2>2. CASE j # p
    BY <1>1, <1>4, <2>2 DEF NamesOf
  <2> QED BY <2>1, <2>2
<1>10. e.name \in NamesOf(s)
  BY <1>2, <1>5 DEF NamesOf
<1>11. NamesOf(r) \subseteq NamesOf(s)
  BY <1>1, <1>8 DEF NamesOf
<1>12. NamesOf(s) \subseteq NamesOf(r) \cup {e.name}
  <2>1. ASSUME NEW x \in NamesOf(s) PROVE x \in NamesOf(r) \cup {e.name}
    <3>1. PICK j \in 1..(n + 1) : x = s[j].name
      BY <1>2 DEF NamesOf
    <3> QED BY <1>9, <3>1
  <2> QED BY <2>1
<1>13. Distinct(s)
  BY <1>2, <1>7 DEF Distinct
<1> QED BY <1>10, <1>11, <1>12, <1>13

\* s is r without what was at i.
TakenOut(s, r, i) ==
    /\ s \in Seq(Entries) /\ Len(s) = Len(r) - 1
    /\ \A j \in 1..(Len(r) - 1) : s[j] = IF j < i THEN r[j] ELSE r[j + 1]

LEMMA RemovalIs ==
    ASSUME NEW r \in Seq(Entries), NEW i \in 1..Len(r), NEW s, s = RemoveAt(r, i)
    PROVE  TakenOut(s, r, i)
<1> DEFINE front == SubSeq(r, 1, i - 1)
           back == SubSeq(r, i + 1, Len(r))
           n == Len(r)
<1>1. n \in Nat /\ i \in Nat /\ 1 <= i /\ i <= n
  BY LenProperties
<1>2. /\ front \in Seq(Entries) /\ Len(front) = i - 1
      /\ \A j \in 1..(i - 1) : front[j] = r[j]
  BY <1>1
<1>3. /\ back \in Seq(Entries) /\ Len(back) = n - i
      /\ \A j \in 1..(n - i) : back[j] = r[i + j]
  BY <1>1
<1> HIDE DEF front, back
<1>4. s = front \o back
  BY DEF RemoveAt, front, back
<1> HIDE DEF n
<1>5. /\ s \in Seq(Entries) /\ Len(s) = Len(front) + Len(back)
      /\ \A j \in 1..(Len(front) + Len(back)) :
            s[j] = IF j <= Len(front) THEN front[j] ELSE back[j - Len(front)]
  BY <1>2, <1>3, <1>4, ConcatProperties
<1>6. Len(s) = n - 1 /\ Len(front) + Len(back) = n - 1
  BY ONLY <1>1, <1>2, <1>3, <1>5
<1>7. ASSUME NEW j \in 1..(n - 1) PROVE s[j] = IF j < i THEN r[j] ELSE r[j + 1]
  <2>1. s[j] = IF j <= i - 1 THEN front[j] ELSE back[j - (i - 1)]
    BY <1>2, <1>5, <1>6
  <2>2. CASE j < i
    <3>1. j \in 1..(i - 1) /\ j <= i - 1
      BY <1>1, <2>2
    <3> QED BY <1>2, <2>1, <2>2, <3>1
  <2>3. CASE ~(j < i)
    <3>1. PICK k : k = j - (i - 1)
      OBVIOUS
    <3>2. k \in 1..(n - i) /\ i + k = j + 1 /\ ~(j <= i - 1)
      BY <1>1, <2>3, <3>1
    <3>3. back[k] = r[i + k]
      BY <1>3, <3>2
    <3> QED BY <2>1, <2>3, <3>1, <3>2, <3>3
  <2> QED BY <2>2, <2>3
<1> QED BY <1>5, <1>6, <1>7 DEF TakenOut, n

LEMMA TakenOutNames ==
    ASSUME NEW r \in Seq(Entries), NEW i \in 1..Len(r), NEW s, TakenOut(s, r, i), Distinct(r)
    PROVE  Distinct(s) /\ NamesOf(s) = NamesOf(r) \ {r[i].name}
<1> DEFINE n == Len(r)
<1>1. n \in Nat /\ i \in Nat /\ 1 <= i /\ i <= n /\ DOMAIN r = 1..n
  BY LenProperties
<1>2. s \in Seq(Entries) /\ Len(s) = n - 1 /\ DOMAIN s = 1..(n - 1)
  BY LenProperties DEF TakenOut
<1>3. \A j \in 1..(n - 1) : s[j] = IF j < i THEN r[j] ELSE r[j + 1]
  BY DEF TakenOut
<1> HIDE DEF n
<1> DEFINE from(j) == IF j < i THEN j ELSE j + 1
<1>4. ASSUME NEW j \in 1..(n - 1)
      PROVE  from(j) \in 1..n /\ s[j] = r[from(j)] /\ from(j) # i
  <2>1. from(j) \in 1..n /\ from(j) # i
    BY <1>1
  <2> QED BY <1>3, <2>1
<1>5. \A j, k \in 1..n : r[j].name = r[k].name => j = k
  BY <1>1 DEF Distinct
<1>6. ASSUME NEW j \in 1..(n - 1), NEW k \in 1..(n - 1), s[j].name = s[k].name
      PROVE  j = k
  <2>1. from(j) = from(k)
    BY <1>4, <1>5, <1>6
  <2>2. j \in Int /\ k \in Int
    BY <1>1
  <2> QED BY ONLY <1>1, <2>1, <2>2
<1>7. ASSUME NEW j \in 1..(n - 1) PROVE s[j].name \in NamesOf(r) \ {r[i].name}
  <2>1. from(j) \in 1..n /\ s[j] = r[from(j)] /\ from(j) # i
    BY <1>4
  <2> HIDE DEF from
  <2> QED BY <1>1, <1>5, <2>1 DEF NamesOf
<1>8. ASSUME NEW k \in 1..n, k # i PROVE r[k].name \in NamesOf(s)
  <2>1. CASE k < i
    <3>1. k \in 1..(n - 1) /\ from(k) = k
      BY <1>1, <2>1
    <3> QED BY <1>2, <1>4, <3>1 DEF NamesOf
  <2>2. CASE k > i
    <3>1. k - 1 \in 1..(n - 1) /\ from(k - 1) = k
      BY <1>1, <2>2
    <3> QED BY <1>2, <1>4, <3>1 DEF NamesOf
  <2> QED BY <1>1, <1>8, <2>1, <2>2
<1>9. NamesOf(s) \subseteq NamesOf(r) \ {r[i].name}
  <2>1. ASSUME NEW x \in NamesOf(s) PROVE x \in NamesOf(r) \ {r[i].name}
    <3>1. PICK j \in 1..(n - 1) : x = s[j].name
      BY <1>2 DEF NamesOf
    <3> QED BY <1>7, <3>1
  <2> QED BY <2>1
<1>10. NamesOf(r) \ {r[i].name} \subseteq NamesOf(s)
  <2>1. ASSUME NEW x \in NamesOf(r) \ {r[i].name} PROVE x \in NamesOf(s)
    <3>1. PICK k \in 1..n : x = r[k].name
      BY <1>1 DEF NamesOf
    <3> QED BY <1>8, <3>1
  <2> QED BY <2>1
<1>11. Distinct(s)
  BY <1>2, <1>6 DEF Distinct
<1> QED BY <1>9, <1>10, <1>11

\* One assignment to what the client knows of itself.
SetRoster(m, r) == [m EXCEPT !.roster = r]
SetOverflow(m) == [m EXCEPT !.overflow = TRUE]
SetNick(m, nick) == [m EXCEPT !.nick = nick]

LEMMA RosterSet ==
    ASSUME NEW m \in MeRecords, NEW r \in Seq(Entries), NEW u, u = SetRoster(m, r)
    PROVE  /\ u \in MeRecords /\ u.nick = m.nick /\ u.closing = m.closing
           /\ u.connected = m.connected /\ u.overflow = m.overflow /\ u.roster = r
BY DEF MeRecords, SetRoster

LEMMA OverflowSet ==
    ASSUME NEW m \in MeRecords, NEW u, u = SetOverflow(m)
    PROVE  /\ u \in MeRecords /\ u.nick = m.nick /\ u.closing = m.closing
           /\ u.connected = m.connected /\ u.overflow /\ u.roster = m.roster
BY DEF MeRecords, SetOverflow

LEMMA NickSet ==
    ASSUME NEW m \in MeRecords, NEW nick \in Nicks, NEW u, u = SetNick(m, nick)
    PROVE  /\ u \in MeRecords /\ u.nick = nick /\ u.closing = m.closing
           /\ u.connected = m.connected /\ u.overflow = m.overflow /\ u.roster = m.roster
BY DEF MeRecords, SetNick

LEMMA MeFields ==
    ASSUME NEW m \in MeRecords
    PROVE  /\ m.nick \in Nicks /\ m.connected \in BOOLEAN /\ m.closing \in BOOLEAN
           /\ m.roster \in Seq(Entries) /\ m.overflow \in BOOLEAN
BY DEF MeRecords

\* The roster of u is that of m with the names in add more and those in less
\* gone, as long as it did not run over.
Becomes(m, u, less, add) ==
    /\ u \in MeRecords /\ Distinct(u.roster)
    /\ u.nick = m.nick /\ u.closing = m.closing /\ u.connected = m.connected
    /\ m.overflow => u.overflow
    /\ ~u.overflow => NamesOf(u.roster) = (NamesOf(m.roster) \ less) \cup add

LEMMA AddKeeps ==
    ASSUME NEW m \in MeRecords, Distinct(m.roster), NEW name \in Nicks,
           NEW rank \in Ranks \cup {5}, NEW u, u = RosterAdd(m, name, rank)
    PROVE  Becomes(m, u, {}, {name})
<1> DEFINE r == m.roster
           known == PositionOf(r, name)
           e == [name |-> name, rank |-> rank]
           after == {k \in DOMAIN r : SortsBefore(e, r[k])}
           place == IF after = {} THEN Len(r) + 1
                    ELSE CHOOSE k \in after : \A j \in after : k <= j
<1>1. r \in Seq(Entries) /\ Len(r) \in Nat /\ DOMAIN r = 1..Len(r) /\ e \in Entries
      /\ \A k \in 1..Len(r) : r[k] \in Entries
  <2>1. r \in Seq(Entries)
    BY MeFields
  <2>2. e \in Entries
    BY DEF Entries
  <2> HIDE DEF r
  <2> QED BY <2>1, <2>2, LenProperties
<1>2. CASE known # {}
  <2>1. PICK k \in known : k = CHOOSE j \in known : TRUE
    BY <1>2
  <2>2. k \in 1..Len(r) /\ r[k].name = name
    BY <1>1 DEF PositionOf
  <2>3. name \in NamesOf(r)
    BY <1>1, <2>2 DEF NamesOf
  <2>4. CASE rank = 5
    <3>1. u = m
      BY <1>2, <2>4 DEF RosterAdd
    <3> QED BY <2>3, <3>1 DEF Becomes
  <2>5. CASE rank # 5
    <3>1. PICK x : x = [r[k] EXCEPT !.rank = rank]
      OBVIOUS
    <3>2. x \in Entries /\ x.name = name
      BY <1>1, <2>2, <3>1 DEF Entries
    <3>3. PICK z : z = [r EXCEPT ![k] = x]
      OBVIOUS
    <3>4. z \in Seq(Entries) /\ DOMAIN z = 1..Len(r)
          /\ \A j \in 1..Len(r) : z[j].name = r[j].name
      <4>1. z \in Seq(Entries) /\ DOMAIN z = DOMAIN r
        BY <1>1, <2>2, <3>2, <3>3, ExceptSeq
      <4>2. \A j \in 1..Len(r) : z[j] = IF j = k THEN x ELSE r[j]
        BY <1>1, <3>3
      <4> HIDE DEF r
      <4> QED BY <1>1, <2>2, <3>2, <4>1, <4>2
    <3>5. u = SetRoster(m, z)
      BY <1>2, <2>1, <2>5, <3>1, <3>3 DEF RosterAdd, SetRoster
    <3>6. /\ u \in MeRecords /\ u.nick = m.nick /\ u.closing = m.closing
          /\ u.connected = m.connected /\ u.overflow = m.overflow /\ u.roster = z
      BY <3>4, <3>5, RosterSet
    <3>7. Distinct(z)
      BY <1>1, <3>4 DEF Distinct
    <3>8. NamesOf(z) = NamesOf(r)
      BY <1>1, <3>4 DEF NamesOf
    <3> QED BY <2>3, <3>6, <3>7, <3>8 DEF Becomes
  <2> QED BY <2>4, <2>5
<1>3. CASE known = {} /\ Len(r) >= NickSlots
  <2>1. u = SetOverflow(m)
    BY <1>3 DEF RosterAdd, SetOverflow
  <2>2. /\ u \in MeRecords /\ u.nick = m.nick /\ u.closing = m.closing
        /\ u.connected = m.connected /\ u.overflow /\ u.roster = m.roster
    BY <2>1, OverflowSet
  <2> QED BY <2>2 DEF Becomes
<1>4. CASE known = {} /\ ~(Len(r) >= NickSlots)
  <2>1. place \in 1..(Len(r) + 1)
    <3>1. CASE after = {}
      BY <1>1, <3>1
    <3>2. CASE after # {}
      <4>1. after \in SUBSET (1..Len(r)) /\ (1..Len(r)) \in SUBSET Nat
        BY <1>1
      <4>2. IsFiniteSet(1..Len(r))
        BY <1>1, FS_Interval
      <4> HIDE DEF after
      <4>3. after \in SUBSET Nat /\ IsFiniteSet(after)
        BY <4>1, <4>2, FS_Subset
      <4>4. \E k \in after : \A j \in after : k <= j
        BY <3>2, <4>3, LeastMember
      <4>5. place \in after
        BY <3>2, <4>4
      <4> HIDE DEF place, r
      <4> QED BY <1>1, <4>1, <4>5
    <3> QED BY <3>1, <3>2
  <2>2. PICK p \in 1..(Len(r) + 1) : p = place
    BY <2>1
  <2>3. PICK s : s = InsertAt(r, p, e)
    OBVIOUS
  <2>4. u = SetRoster(m, s)
    BY <1>4, <2>2, <2>3 DEF RosterAdd, SetRoster
  <2>5. e.name = name /\ name \notin NamesOf(r)
    BY <1>4 DEF PositionOf, NamesOf
  <2> HIDE DEF place, after, known, e
  <2>6. PutIn(s, r, p, e)
    <3> HIDE DEF r
    <3> QED BY <1>1, <2>3, InsertionIs
  <2>7. Distinct(s) /\ NamesOf(s) = NamesOf(r) \cup {name}
    <3>1. Distinct(r)
      OBVIOUS
    <3> HIDE DEF r
    <3> QED BY <1>1, <2>5, <2>6, <3>1, PutInNames
  <2>8. s \in Seq(Entries)
    BY <2>6 DEF PutIn
  <2>9. /\ u \in MeRecords /\ u.nick = m.nick /\ u.closing = m.closing
        /\ u.connected = m.connected /\ u.overflow = m.overflow /\ u.roster = s
    BY <2>4, <2>8, RosterSet
  <2> QED BY <2>7, <2>9 DEF Becomes
<1> QED BY <1>2, <1>3, <1>4

LEMMA RemoveKeeps ==
    ASSUME NEW m \in MeRecords, Distinct(m.roster), NEW name, NEW u, u = RosterRemove(m, name)
    PROVE  Becomes(m, u, {name}, {})
<1> DEFINE r == m.roster
           known == PositionOf(r, name)
<1>1. r \in Seq(Entries) /\ Len(r) \in Nat /\ DOMAIN r = 1..Len(r)
  <2>1. r \in Seq(Entries)
    BY MeFields
  <2> HIDE DEF r
  <2> QED BY <2>1, LenProperties
<1>2. CASE known = {}
  <2>1. u = m
    BY <1>2 DEF RosterRemove
  <2>2. name \notin NamesOf(r)
    BY <1>2 DEF PositionOf, NamesOf
  <2> QED BY <2>1, <2>2 DEF Becomes
<1>3. CASE known # {}
  <2>1. PICK k \in known : k = CHOOSE j \in known : TRUE
    BY <1>3
  <2>2. k \in 1..Len(r) /\ r[k].name = name
    BY <1>1 DEF PositionOf
  <2>3. PICK s : s = RemoveAt(r, k)
    OBVIOUS
  <2>4. u = SetRoster(m, s)
    BY <1>3, <2>1, <2>3 DEF RosterRemove, SetRoster
  <2>5. Distinct(s) /\ NamesOf(s) = NamesOf(r) \ {name} /\ s \in Seq(Entries)
    <3>1. Distinct(r)
      OBVIOUS
    <3> HIDE DEF r
    <3>2. TakenOut(s, r, k)
      BY <1>1, <2>2, <2>3, RemovalIs
    <3>3. Distinct(s) /\ NamesOf(s) = NamesOf(r) \ {r[k].name}
      BY <1>1, <2>2, <3>1, <3>2, TakenOutNames
    <3> QED BY <2>2, <3>2, <3>3 DEF TakenOut
  <2>6. /\ u \in MeRecords /\ u.nick = m.nick /\ u.closing = m.closing
        /\ u.connected = m.connected /\ u.overflow = m.overflow /\ u.roster = s
    BY <2>4, <2>5, RosterSet
  <2> QED BY <2>5, <2>6 DEF Becomes
<1> QED BY <1>2, <1>3

LEMMA RenameKeeps ==
    ASSUME NEW m \in MeRecords, Distinct(m.roster), NEW old, NEW new \in Nicks,
           NEW u, u = RosterRename(m, old, new)
    PROVE  \/ old \notin NamesOf(m.roster) /\ u = m
           \/ old \in NamesOf(m.roster) /\ Becomes(m, u, {old}, {new})
<1> DEFINE r == m.roster
           known == PositionOf(r, old)
<1>1. r \in Seq(Entries) /\ DOMAIN r = 1..Len(r)
      /\ \A k \in 1..Len(r) : r[k] \in Entries
  <2>1. r \in Seq(Entries)
    BY MeFields
  <2> HIDE DEF r
  <2> QED BY <2>1, LenProperties
<1>2. CASE known = {}
  BY <1>2 DEF RosterRename, PositionOf, NamesOf
<1>3. CASE known # {}
  <2>1. PICK k \in known : k = CHOOSE j \in known : TRUE
    BY <1>3
  <2>2. k \in 1..Len(r) /\ r[k].name = old /\ old \in NamesOf(r)
    BY <1>1 DEF PositionOf, NamesOf
  <2>3. PICK rank \in Ranks \cup {5} : rank = r[k].rank
    BY <1>1, <2>2 DEF Entries
  <2>4. PICK v : v = RosterRemove(m, old)
    OBVIOUS
  <2>5. u = RosterAdd(v, new, rank)
    BY <1>3, <2>1, <2>3, <2>4 DEF RosterRename
  <2>6. Becomes(m, v, {old}, {})
    BY <2>4, RemoveKeeps
  <2>7. v \in MeRecords /\ Distinct(v.roster)
    BY <2>6 DEF Becomes
  <2>8. Becomes(v, u, {}, {new})
    BY <2>5, <2>7, AddKeeps
  <2>9. Becomes(m, u, {old}, {new})
    BY <2>6, <2>8 DEF Becomes
  <2> QED BY <2>2, <2>9
<1> QED BY <1>2, <1>3

\* The names of a reply are added one after the other.
AddLoop(m, list, n, taken) ==
    /\ taken[0] = m /\ RosterNames(m, list) = taken[n]
    /\ \A k \in 1..n : taken[k] = RosterAdd(taken[k - 1], list[k].name, list[k].rank)

LEMMA AddTurns ==
    ASSUME NEW m, NEW list, NEW n \in Nat, n = Len(list)
    PROVE  \E taken : AddLoop(m, list, n, taken)
<1> DEFINE Is(f, k) == f = [i \in 0..k |-> IF i = 0 THEN m
                              ELSE RosterAdd(f[i - 1], list[i].name, list[i].rank)]
           P == {k \in 0..n : \E f : Is(f, k)}
<1>1. 0 \in P
  <2>1. Is([i \in 0..0 |-> m], 0)
    OBVIOUS
  <2>2. 0 \in 0..n
    OBVIOUS
  <2> HIDE DEF Is
  <2> QED BY <2>1, <2>2
<1>2. ASSUME NEW k \in 1..n, k - 1 \in P PROVE k \in P
  <2>1. PICK f : Is(f, k - 1)
    BY <1>2
  <2> DEFINE g == [i \in 0..k |-> IF i = k THEN RosterAdd(f[k - 1], list[k].name, list[k].rank)
                                  ELSE f[i]]
  <2>2. Is(g, k)
    BY <2>1
  <2>3. k \in 0..n
    OBVIOUS
  <2> HIDE DEF Is, g
  <2> QED BY <2>2, <2>3
<1>3. n \in P
  <2> HIDE DEF P
  <2> QED BY <1>1, <1>2, Turns
<1>4. PICK f : Is(f, n)
  BY <1>3
<1>5. RosterNames(m, list) = (CHOOSE g : Is(g, n))[n]
  BY DEF RosterNames
<1>6. Is(CHOOSE g : Is(g, n), n)
  <2> HIDE DEF Is
  <2> QED BY <1>4
<1>7. PICK taken : Is(taken, n) /\ RosterNames(m, list) = taken[n]
  <2> HIDE DEF Is
  <2> QED BY <1>5, <1>6
<1>8. /\ taken[0] = m
      /\ \A k \in 1..n : taken[k] = RosterAdd(taken[k - 1], list[k].name, list[k].rank)
  <2>1. \A k \in 1..n : k \in 0..n /\ k # 0
    OBVIOUS
  <2> QED BY ONLY <1>7, <2>1, n \in Nat
<1> HIDE DEF Is
<1> QED BY <1>7, <1>8 DEF AddLoop

LEMMA NamesKeeps ==
    ASSUME NEW m \in MeRecords, Distinct(m.roster), NEW list \in Seq(Entries),
           NEW u, u = RosterNames(m, list)
    PROVE  Becomes(m, u, {}, NamesOf(list))
<1>1. PICK n \in Nat : n = Len(list) /\ DOMAIN list = 1..n
  BY LenProperties
<1>2. PICK taken : AddLoop(m, list, n, taken)
  BY <1>1, AddTurns
<1> DEFINE Up(k) == {list[j].name : j \in 1..k}
           P == {k \in 0..n : Becomes(m, taken[k], {}, Up(k))}
<1>3. 0 \in P
  <2>1. Up(0) = {}
    OBVIOUS
  <2>2. taken[0] = m
    BY <1>2 DEF AddLoop
  <2>3. Becomes(m, m, {}, {})
    BY DEF Becomes
  <2> HIDE DEF Up
  <2>4. Becomes(m, taken[0], {}, Up(0))
    BY <2>1, <2>2, <2>3
  <2>5. 0 \in 0..n
    OBVIOUS
  <2> QED BY <2>4, <2>5
<1>4. ASSUME NEW k \in 1..n, k - 1 \in P PROVE k \in P
  <2>1. Becomes(m, taken[k - 1], {}, Up(k - 1)) /\ k \in 0..n
    BY <1>4
  <2>2. list[k] \in Entries
    BY <1>1
  <2>3. PICK name \in Nicks, rank \in Ranks \cup {5} : name = list[k].name /\ rank = list[k].rank
    BY <2>2 DEF Entries
  <2>4. Up(k) = Up(k - 1) \cup {name}
    <3>1. \A j \in 1..k : j \in 1..(k - 1) \/ j = k
      OBVIOUS
    <3>2. \A j \in 1..(k - 1) : j \in 1..k
      OBVIOUS
    <3>3. k \in 1..k
      OBVIOUS
    <3> QED BY <2>3, <3>1, <3>2, <3>3
  <2> HIDE DEF Up
  <2>5. PICK v : v = taken[k - 1]
    OBVIOUS
  <2>6. PICK w : w = taken[k]
    OBVIOUS
  <2>7. w = RosterAdd(v, name, rank)
    BY <1>2, <2>3, <2>5, <2>6 DEF AddLoop
  <2>8. v \in MeRecords /\ Distinct(v.roster)
    BY <2>1, <2>5 DEF Becomes
  <2>9. Becomes(v, w, {}, {name})
    BY <2>7, <2>8, AddKeeps
  <2>10. Becomes(m, w, {}, Up(k))
    BY <2>1, <2>4, <2>5, <2>9 DEF Becomes
  <2> QED BY <2>1, <2>6, <2>10
<1>5. n \in P
  <2> HIDE DEF P
  <2> QED BY <1>3, <1>4, Turns
<1>6. Up(n) = NamesOf(list)
  BY <1>1 DEF NamesOf
<1> HIDE DEF Up
<1> QED BY <1>2, <1>5, <1>6 DEF AddLoop

----------------------------------------------------------------------------
(* The server's side *)

Lines == ({"JOIN"} \X Channels) \cup ({"PART"} \X Labels) \cup ({"NICK"} \X Names)

SrvRecords ==
    [nick : Nicks, in : SUBSET Channels, members : [Channels -> SUBSET Entries],
     queue : Seq(Lines), sent : Nat, aware : BOOLEAN]

FiniteEach(p) == \A c \in Channels : IsFiniteSet(p[c])
Finite(s) == FiniteEach(s.members)

\* RosterFollows of any three records.
Matches(t, m, s) ==
    m.connected /\ s.aware /\ ~m.overflow /\ HomeChannel(t) \in s.in =>
        NamesOf(m.roster) = NamesIn(s, HomeChannel(t))

Sound(t, m, s) ==
    /\ Whole(t)
    /\ m \in MeRecords /\ Distinct(m.roster)
    /\ s \in SrvRecords /\ Finite(s)
    /\ Matches(t, m, s)

\* What holds of the tabs, the roster and the server in every state.
TabsInv == Sound(tabs, me, srv)

LEMMA SrvFields ==
    ASSUME NEW s \in SrvRecords
    PROVE  /\ s.nick \in Nicks /\ s.in \in SUBSET Channels
           /\ s.members \in [Channels -> SUBSET Entries] /\ s.queue \in Seq(Lines)
           /\ s.sent \in Nat /\ s.aware \in BOOLEAN
BY DEF SrvRecords

\* Nothing that Matches looks at changed.
LEMMA FollowsStill ==
    ASSUME NEW t, NEW m, NEW s, Sound(t, m, s), NEW u, HomeChannel(u) = HomeChannel(t),
           NEW n, n.roster = m.roster, n.overflow = m.overflow, n.connected = m.connected,
           NEW z, z.in = s.in, z.members = s.members, z.aware = s.aware
    PROVE  Matches(u, n, z)
BY DEF Sound, Matches, NamesIn

LEMMA NotedFine ==
    ASSUME NEW t, Whole(t), NEW i \in Slots, NEW u, u = Noted(t, i)
    PROVE  Whole(u) /\ HomeChannel(u) = HomeChannel(t) /\ u.count = t.count
           /\ u.active = t.active
<1>1. Whole(u) /\ SameTabs(t, u) /\ u.active = t.active
  BY NotedKeeps
<1> QED BY <1>1, SameHome DEF SameTabs

LEMMA ClearedRoster ==
    ASSUME NEW m \in MeRecords, NEW u, u = RosterClear(m)
    PROVE  /\ u \in MeRecords /\ u.nick = m.nick /\ u.closing = m.closing
           /\ u.connected = m.connected /\ ~u.overflow /\ u.roster = <<>>
           /\ Distinct(u.roster) /\ NamesOf(u.roster) = {}
<1>0. PICK r \in Seq(Entries) : r = <<>>
  BY EmptySeq
<1>1. PICK v : v = SetRoster(m, r)
  OBVIOUS
<1>2. u = [v EXCEPT !.overflow = FALSE]
  BY <1>0, <1>1 DEF RosterClear, SetRoster
<1>3. /\ v \in MeRecords /\ v.nick = m.nick /\ v.closing = m.closing
      /\ v.connected = m.connected /\ v.overflow = m.overflow /\ v.roster = r
  BY <1>1, RosterSet
<1>4. /\ u \in MeRecords /\ u.nick = v.nick /\ u.closing = v.closing
      /\ u.connected = v.connected /\ ~u.overflow /\ u.roster = v.roster
  BY <1>2, <1>3 DEF MeRecords
<1>5. Distinct(<<>>) /\ NamesOf(<<>>) = {}
  BY DEF Distinct, NamesOf
<1> QED BY <1>0, <1>3, <1>4, <1>5

LEMMA TabsInitially == TabsInit => TabsInv
<1> SUFFICES ASSUME TabsInit PROVE TabsInv
  OBVIOUS
<1>1. PICK t : t = tabs
  OBVIOUS
<1>2. t = [order |-> [k \in Slots |-> k],
           kind |-> [k \in Slots |-> IF k = 0 THEN "SERVER" ELSE "FREE"],
           name |-> [k \in Slots |-> NONE],
           activity |-> [k \in Slots |-> FALSE], active |-> 0, count |-> 2]
  BY <1>1 DEF TabsInit
<1>3. /\ t.order = [k \in Slots |-> k] /\ t.name = [k \in Slots |-> NONE]
      /\ t.kind = [k \in Slots |-> IF k = 0 THEN "SERVER" ELSE "FREE"]
      /\ t.activity = [k \in Slots |-> FALSE] /\ t.active = 0 /\ t.count = 2
  BY <1>2
<1>4. t \in TabRecords
  <2>1. /\ t.order \in [Slots -> Slots] /\ t.name \in [Slots -> Labels]
        /\ t.kind \in [Slots -> TabKinds] /\ t.activity \in [Slots -> BOOLEAN]
    BY <1>3 DEF Labels, Nicks, TabKinds
  <2> QED BY <1>2, <1>3, <2>1 DEF TabRecords
<1>5. Whole(t)
  <2>1. \A k \in Slots : t.order[k] = k /\ k \in Int
        /\ t.kind[k] = (IF k = 0 THEN "SERVER" ELSE "FREE") /\ ~t.activity[k]
    BY <1>3, SlotsThere
  <2>2. t.count \in 2..Buffers /\ t.active \in 0..(t.count - 1)
    BY <1>3, TabsAssumption
  <2>3. \A k \in Slots : k >= 2 =>
           t.kind[t.order[k]] = IF k < t.count THEN "PRIVATE" ELSE "FREE"
    BY <1>3, <2>1
  <2> QED BY <1>3, <1>4, <2>1, <2>2, <2>3, SlotsThere DEF Whole
<1>6. me \in MeRecords /\ Distinct(me.roster) /\ ~me.connected
  BY DEF TabsInit, MeRecords, Nicks, Distinct
<1>7. srv \in SrvRecords /\ Finite(srv)
  <2>1. srv.members = [c \in Channels |-> {}]
    BY DEF TabsInit
  <2>2. Finite(srv)
    BY <2>1, FS_EmptySet DEF Finite, FiniteEach
  <2>3. srv \in SrvRecords
    BY DEF TabsInit, SrvRecords, Nicks
  <2> QED BY <2>2, <2>3
<1>8. Matches(tabs, me, srv)
  BY <1>6 DEF Matches
<1> QED BY <1>1, <1>5, <1>6, <1>7, <1>8 DEF TabsInv, Sound

----------------------------------------------------------------------------
(* The client's own commands *)

LEMMA HomeInLabels ==
    ASSUME NEW t, Whole(t)
    PROVE  HomeChannel(t) \in Labels
<1>1. t.order[1] \in Slots /\ t.name \in [Slots -> Labels]
  BY SlotsThere, TabFields DEF Whole
<1>2. NONE \in Labels
  BY DEF Labels, Nicks
<1> QED BY <1>1, <1>2 DEF HomeChannel, NameAt, At, CHANNEL

LEMMA SentIs ==
    ASSUME NEW s \in SrvRecords, NEW lines \in Seq(Lines), NEW z, z = Sent(s, lines)
    PROVE  /\ z \in SrvRecords /\ z.nick = s.nick /\ z.in = s.in
           /\ z.members = s.members /\ z.aware = s.aware
<1>1. PICK q : q = s.queue \o lines
  OBVIOUS
<1>2. q \in Seq(Lines) /\ s.sent + 1 \in Nat
  BY <1>1, SrvFields, ConcatProperties
<1>3. z = [s EXCEPT !.queue = q, !.sent = s.sent + 1]
  BY <1>1 DEF Sent, SrvRecords
<1> QED BY <1>2, <1>3 DEF SrvRecords

\* Lines that are sent change nothing yet.
LEMMA SendingKeeps ==
    ASSUME NEW t, NEW m, NEW s, Sound(t, m, s), NEW lines \in Seq(Lines), NEW z, z = Sent(s, lines),
           NEW u, Whole(u), HomeChannel(u) = HomeChannel(t),
           NEW n \in MeRecords, n.roster = m.roster, n.overflow = m.overflow,
           n.connected = m.connected
    PROVE  Sound(u, n, z)
<1>1. /\ z \in SrvRecords /\ z.nick = s.nick /\ z.in = s.in
      /\ z.members = s.members /\ z.aware = s.aware
  BY SentIs DEF Sound
<1>2. Matches(u, n, z)
  BY <1>1, FollowsStill
<1> QED BY <1>1, <1>2 DEF Sound, Finite, FiniteEach

LEMMA OneLine == ASSUME NEW a \in Lines PROVE <<a>> \in Seq(Lines)
<1> DEFINE L == Lines
<1>1. a \in L
  OBVIOUS
<1> HIDE DEF L
<1>2. <<a>> \in Seq(L)
  BY <1>1
<1> QED BY <1>2 DEF L

LEMMA NoLines == <<>> \in Seq(Lines)
BY EmptySeq

LEMMA LinesAre ==
    /\ <<>> \in Seq(Lines)
    /\ \A c \in Channels : <<"JOIN", c>> \in Lines
    /\ \A c \in Labels : <<"PART", c>> \in Lines
    /\ \A c \in Names : <<"NICK", c>> \in Lines
<1>1. <<>> \in Seq(Lines)
  BY NoLines
<1>2. /\ \A c \in Channels : <<"JOIN", c>> \in Lines
      /\ \A c \in Labels : <<"PART", c>> \in Lines
      /\ \A c \in Names : <<"NICK", c>> \in Lines
  BY DEF Lines
<1> QED BY <1>1, <1>2

\* A step that takes no place from the tabs keeps the invariant.
TabsStep == TabsInv' /\ tabs.count <= tabs'.count

LEMMA CountIsInt == ASSUME NEW t, Whole(t) PROVE t.count \in Int /\ t.count <= t.count
BY ActiveInSlots

LEMMA ConnectKeeps == TabsInv /\ Connect => TabsStep
<1> SUFFICES ASSUME TabsInv, Connect PROVE TabsStep
  OBVIOUS
<1>1. Whole(tabs) /\ me \in MeRecords /\ srv \in SrvRecords /\ Finite(srv)
  BY DEF TabsInv, Sound
<1>2. PICK u : u = tabs'
  OBVIOUS
<1>3. Whole(u) /\ u.count = tabs.count
  BY <1>1, <1>2, NotedFine, SlotsThere DEF Connect
<1>4. PICK v : v = RosterClear(me)
  OBVIOUS
<1>5. v \in MeRecords /\ Distinct(v.roster)
  BY <1>1, <1>4, ClearedRoster
<1>6. me' = [v EXCEPT !.connected = TRUE]
  BY <1>4 DEF Connect
<1>7. me' \in MeRecords /\ Distinct(me'.roster)
  BY <1>5, <1>6 DEF MeRecords
<1>8. srv' \in SrvRecords /\ srv'.in = {} /\ srv'.members = srv.members
  <2>1. srv' = [srv EXCEPT !.nick = me.nick, !.in = {}, !.queue = <<>>, !.aware = TRUE]
    BY DEF Connect
  <2>2. PICK z : z = [srv EXCEPT !.nick = me.nick, !.in = {}]
    OBVIOUS
  <2>3. z \in SrvRecords /\ z.in = {} /\ z.members = srv.members
    BY <1>1, <2>2, MeFields DEF SrvRecords
  <2>4. srv' = [z EXCEPT !.queue = <<>>, !.aware = TRUE]
    BY <2>1, <2>2
  <2>5. <<>> \in Seq(Lines)
    BY NoLines
  <2> QED BY <2>3, <2>4, <2>5 DEF SrvRecords
<1>9. Matches(u, me', srv')
  BY <1>8 DEF Matches
<1>10. Sound(u, me', srv')
  BY <1>1, <1>3, <1>7, <1>8, <1>9 DEF Sound, Finite, FiniteEach
<1> QED BY <1>1, <1>2, <1>3, <1>10, CountIsInt DEF TabsStep, TabsInv

LEMMA OfflineKeeps == TabsInv /\ Offline => TabsStep
<1> SUFFICES ASSUME TabsInv, Offline PROVE TabsStep
  OBVIOUS
<1>1. Whole(tabs) /\ me \in MeRecords /\ srv \in SrvRecords /\ Finite(srv)
  BY DEF TabsInv, Sound
<1>2. PICK u : u = tabs'
  OBVIOUS
<1>3. Whole(u) /\ u.count = tabs.count
  BY <1>1, <1>2, NotedFine, SlotsThere DEF Offline
<1>4. PICK v : v = RosterClear(me)
  OBVIOUS
<1>5. v \in MeRecords /\ Distinct(v.roster)
  BY <1>1, <1>4, ClearedRoster
<1>6. me' = [v EXCEPT !.connected = FALSE]
  BY <1>4 DEF Offline
<1>7. me' \in MeRecords /\ Distinct(me'.roster) /\ ~me'.connected
  BY <1>5, <1>6 DEF MeRecords
<1>8. PICK q : q = [c \in Channels |-> {n \in srv.members[c] : n.name # srv.nick}]
  OBVIOUS
<1>9. q \in [Channels -> SUBSET Entries] /\ \A c \in Channels : IsFiniteSet(q[c])
  <2>1. srv.members \in [Channels -> SUBSET Entries]
    BY <1>1, SrvFields
  <2>2. ASSUME NEW c \in Channels PROVE q[c] \in SUBSET Entries /\ IsFiniteSet(q[c])
    <3>1. q[c] \subseteq srv.members[c] /\ IsFiniteSet(srv.members[c])
      BY <1>1, <1>8 DEF Finite, FiniteEach
    <3>2. srv.members[c] \in SUBSET Entries
      BY <2>1
    <3> QED BY <3>1, <3>2, FS_Subset
  <2> QED BY <1>8, <2>2
<1>10. srv' \in SrvRecords /\ srv'.members = q
  <2>1. srv' = [srv EXCEPT !.nick = NONE, !.in = {}, !.queue = <<>>, !.members = q]
    BY <1>8 DEF Offline
  <2>2. PICK z : z = [srv EXCEPT !.nick = NONE, !.in = {}]
    OBVIOUS
  <2>3. z \in SrvRecords
    BY <1>1, <2>2 DEF SrvRecords, Nicks
  <2>4. srv' = [z EXCEPT !.queue = <<>>, !.members = q]
    BY <2>1, <2>2
  <2>5. <<>> \in Seq(Lines)
    BY NoLines
  <2> QED BY <1>9, <2>3, <2>4, <2>5 DEF SrvRecords
<1>11. Matches(u, me', srv')
  BY <1>7 DEF Matches
<1>12. Sound(u, me', srv')
  BY <1>3, <1>7, <1>9, <1>10, <1>11 DEF Sound, Finite, FiniteEach
<1> QED BY <1>1, <1>2, <1>3, <1>12, CountIsInt DEF TabsStep, TabsInv

LEMMA JoinKeeps == TabsInv /\ CommandJoin => TabsStep
<1> SUFFICES ASSUME TabsInv, CommandJoin PROVE TabsStep
  OBVIOUS
<1>1. PICK channel \in Channels :
         LET home == HomeChannel(tabs)
             part == IF home \in {NONE, channel} THEN <<>> ELSE <<<<"PART", home>>>>
         IN  srv' = Sent(srv, IF Accepts(srv, Len(part) + 1)
                              THEN Append(part, <<"JOIN", channel>>)
                              ELSE IF Accepts(srv, Len(part)) THEN part ELSE <<>>)
  BY DEF CommandJoin
<1>2. Whole(tabs) /\ me \in MeRecords
  BY DEF TabsInv, Sound
<1>3. PICK a \in Lines : a = <<"PART", HomeChannel(tabs)>>
  BY <1>2, HomeInLabels, LinesAre
<1>4. PICK part \in Seq(Lines) :
         part = IF HomeChannel(tabs) \in {NONE, channel} THEN <<>> ELSE <<a>>
  BY OneLine, NoLines
<1>5. PICK b \in Lines : b = <<"JOIN", channel>>
  BY LinesAre
<1>6. PICK both \in Seq(Lines) : both = Append(part, b)
  BY AppendProperties
<1>7. PICK lines \in Seq(Lines) :
         lines = IF Accepts(srv, Len(part) + 1) THEN both
                 ELSE IF Accepts(srv, Len(part)) THEN part ELSE <<>>
  BY NoLines
<1>8. srv' = Sent(srv, lines)
  BY <1>1, <1>3, <1>4, <1>5, <1>6, <1>7
<1>9. Sound(tabs, me, srv')
  <2>1. Sound(tabs, me, srv)
    BY DEF TabsInv
  <2>2. PICK z : z = srv'
    OBVIOUS
  <2> QED BY <1>2, <1>8, <2>1, <2>2, SendingKeeps
<1> QED BY <1>2, <1>9, CountIsInt DEF TabsStep, TabsInv, CommandJoin

LEMMA PartKeeps == TabsInv /\ CommandPart => TabsStep
<1> SUFFICES ASSUME TabsInv, CommandPart PROVE TabsStep
  OBVIOUS
<1>1. Whole(tabs) /\ me \in MeRecords /\ Sound(tabs, me, srv)
  BY DEF TabsInv, Sound
<1>2. PICK a \in Lines : a = <<"PART", HomeChannel(tabs)>>
  BY <1>1, HomeInLabels, LinesAre
<1>3. PICK lines \in Seq(Lines) : lines = <<a>>
  BY OneLine
<1>4. PICK z : z = srv'
  OBVIOUS
<1>5. z = Sent(srv, lines)
  BY <1>2, <1>3, <1>4 DEF CommandPart
<1>6. Sound(tabs, me, z)
  BY <1>1, <1>5, SendingKeeps
<1> QED BY <1>1, <1>4, <1>6, CountIsInt DEF TabsStep, TabsInv, CommandPart

LEMMA NickKeeps == TabsInv /\ CommandNick => TabsStep
<1> SUFFICES ASSUME TabsInv, CommandNick PROVE TabsStep
  OBVIOUS
<1>1. Whole(tabs) /\ me \in MeRecords /\ Sound(tabs, me, srv)
  BY DEF TabsInv, Sound
<1>2. PICK nick \in Names : me' = [me EXCEPT !.nick = nick]
                            /\ srv' = Sent(srv, <<<<"NICK", nick>>>>)
  BY DEF CommandNick
<1>3. PICK a \in Lines : a = <<"NICK", nick>>
  BY LinesAre
<1>4. PICK lines \in Seq(Lines) : lines = <<a>>
  BY OneLine
<1>5. PICK z : z = srv'
  OBVIOUS
<1>6. z = Sent(srv, lines)
  BY <1>2, <1>3, <1>4, <1>5
<1>7. PICK n : n = me'
  OBVIOUS
<1>8. n = SetNick(me, nick) /\ nick \in Nicks
  BY <1>2, <1>7 DEF SetNick, Nicks
<1>9. /\ n \in MeRecords /\ n.roster = me.roster /\ n.overflow = me.overflow
      /\ n.connected = me.connected
  BY <1>1, <1>8, NickSet
<1>10. Sound(tabs, n, z)
  BY <1>1, <1>6, <1>9, SendingKeeps
<1> QED BY <1>1, <1>5, <1>7, <1>10, CountIsInt DEF TabsStep, TabsInv, CommandNick

\* Only tabs change, and not the channel's place.
LEMMA OnlyTabs ==
    ASSUME TabsInv, UNCHANGED <<me, srv>>, NEW u, u = tabs', Whole(u),
           HomeChannel(u) = HomeChannel(tabs), tabs.count <= u.count
    PROVE  TabsStep
<1>1. Matches(u, me, srv)
  BY FollowsStill DEF TabsInv
<1> QED BY <1>1 DEF TabsStep, TabsInv, Sound

LEMMA QueryKeeps == TabsInv /\ CommandQuery => TabsStep
<1> SUFFICES ASSUME TabsInv, CommandQuery PROVE TabsStep
  OBVIOUS
<1>1. Whole(tabs)
  BY DEF TabsInv, Sound
<1>2. PICK nick \in Names :
         tabs' = LET t == ChatOpened(tabs, nick)
                     index == ChatIndex(tabs, nick)
                 IN  IF index = 0 THEN Noted(t, 0) ELSE Switch(Noted(t, index), index)
  BY DEF CommandQuery
<1>3. PICK t : t = ChatOpened(tabs, nick)
  OBVIOUS
<1>4. PICK i : i = ChatIndex(tabs, nick)
  OBVIOUS
<1>5. Whole(t) /\ HomeChannel(t) = HomeChannel(tabs) /\ i \in Slots
      /\ tabs.count <= t.count
  <2>1. nick \in Labels
    BY DEF Labels, Nicks
  <2> QED BY <1>1, <1>3, <1>4, <2>1, OpenedKeeps
<1>6. PICK v : v = Noted(t, i)
  OBVIOUS
<1>7. Whole(v) /\ HomeChannel(v) = HomeChannel(t) /\ v.count = t.count
  BY <1>5, <1>6, NotedFine
<1>8. PICK u : u = tabs'
  OBVIOUS
<1>9. CASE i = 0
  <2>1. u = v
    BY <1>2, <1>3, <1>4, <1>6, <1>8, <1>9
  <2> QED BY <1>5, <1>7, <1>8, <2>1, OnlyTabs DEF CommandQuery
<1>10. CASE i # 0
  <2>1. u = Switch(v, i)
    BY <1>2, <1>3, <1>4, <1>6, <1>8, <1>10
  <2>2. Whole(u) /\ SameTabs(v, u)
    BY <1>5, <1>7, <2>1, SwitchKeeps
  <2>3. HomeChannel(u) = HomeChannel(v) /\ u.count = v.count
    BY <2>2, SameHome DEF SameTabs
  <2> QED BY <1>5, <1>7, <1>8, <2>2, <2>3, OnlyTabs DEF CommandQuery
<1> QED BY <1>9, <1>10

\* The echo of a message, or a message that came.
LEMMA ChatNotedFine ==
    ASSUME NEW t, Whole(t), NEW nick \in Labels,
           NEW u, u = Noted(ChatOpened(t, nick), ChatIndex(t, nick))
    PROVE  Whole(u) /\ HomeChannel(u) = HomeChannel(t) /\ t.count <= u.count
<1>1. PICK v : v = ChatOpened(t, nick)
  OBVIOUS
<1>2. PICK i : i = ChatIndex(t, nick)
  OBVIOUS
<1>3. Whole(v) /\ HomeChannel(v) = HomeChannel(t) /\ i \in Slots /\ t.count <= v.count
  BY <1>1, <1>2, OpenedKeeps
<1>4. u = Noted(v, i)
  BY <1>1, <1>2
<1>5. Whole(u) /\ HomeChannel(u) = HomeChannel(v) /\ u.count = v.count
  BY <1>3, <1>4, NotedFine
<1> QED BY <1>3, <1>5

LEMMA MessageKeeps == TabsInv /\ CommandMessage => TabsStep
<1> SUFFICES ASSUME TabsInv, CommandMessage PROVE TabsStep
  OBVIOUS
<1>1. Whole(tabs)
  BY DEF TabsInv, Sound
<1>2. PICK u : u = tabs'
  OBVIOUS
<1>3. PICK nick \in Names : u = Noted(ChatOpened(tabs, nick), ChatIndex(tabs, nick))
  BY <1>2 DEF CommandMessage
<1>4. nick \in Labels
  BY DEF Labels, Nicks
<1>5. Whole(u) /\ HomeChannel(u) = HomeChannel(tabs) /\ tabs.count <= u.count
  BY <1>1, <1>3, <1>4, ChatNotedFine
<1> QED BY <1>2, <1>5, OnlyTabs DEF CommandMessage

LEMMA TalkKeeps == TabsInv /\ MessageComes => TabsStep
<1> SUFFICES ASSUME TabsInv, MessageComes PROVE TabsStep
  OBVIOUS
<1>1. Whole(tabs)
  BY DEF TabsInv, Sound
<1>2. PICK u : u = tabs'
  OBVIOUS
<1>3. CASE \E i \in Slots : u = Noted(tabs, i)
  <2>1. Whole(u) /\ HomeChannel(u) = HomeChannel(tabs) /\ u.count = tabs.count
    BY <1>1, <1>3, NotedFine
  <2> QED BY <1>1, <1>2, <2>1, CountIsInt, OnlyTabs DEF MessageComes
<1>4. CASE \E from \in Names : u = Noted(ChatOpened(tabs, from), ChatIndex(tabs, from))
  <2>1. PICK from \in Names : u = Noted(ChatOpened(tabs, from), ChatIndex(tabs, from))
    BY <1>4
  <2>2. from \in Labels
    BY DEF Labels, Nicks
  <2>3. Whole(u) /\ HomeChannel(u) = HomeChannel(tabs) /\ tabs.count <= u.count
    BY <1>1, <2>1, <2>2, ChatNotedFine
  <2> QED BY <1>2, <2>3, OnlyTabs DEF MessageComes
<1>5. (\E i \in Slots : u = Noted(tabs, i))
      \/ \E from \in Names : u = Noted(ChatOpened(tabs, from), ChatIndex(tabs, from))
  BY <1>2, SlotsThere DEF MessageComes, CHANNEL
<1> QED BY <1>3, <1>4, <1>5

LEMMA SwitchTabKeeps == TabsInv /\ SwitchTab => TabsStep
<1> SUFFICES ASSUME TabsInv, SwitchTab PROVE TabsStep
  OBVIOUS
<1>1. Whole(tabs)
  BY DEF TabsInv, Sound
<1>2. PICK u : u = tabs'
  OBVIOUS
<1>3. Whole(u) /\ SameTabs(tabs, u)
  <2>1. CASE \E i \in Slots : u = Switch(tabs, i)
    BY <1>1, <2>1, SwitchKeeps
  <2>2. CASE \E d \in {-1, 1} : u = Cycled(tabs, d)
    BY <1>1, <2>2, CycledKeeps
  <2> QED BY <1>2, <2>1, <2>2 DEF SwitchTab
<1>4. HomeChannel(u) = HomeChannel(tabs) /\ u.count = tabs.count
  BY <1>3, SameHome DEF SameTabs
<1> QED BY <1>1, <1>2, <1>3, <1>4, CountIsInt, OnlyTabs DEF SwitchTab

LEMMA CloseKeeps == TabsInv /\ CommandClose => TabsStep
<1> SUFFICES ASSUME TabsInv, CommandClose PROVE TabsStep
  OBVIOUS
<1>1. Whole(tabs) /\ me \in MeRecords /\ Sound(tabs, me, srv)
  BY DEF TabsInv, Sound
<1>2. PICK n : n = me'
  OBVIOUS
<1>3. n = [me EXCEPT !.closing = TRUE]
  BY <1>2 DEF CommandClose
<1>4. /\ n \in MeRecords /\ n.roster = me.roster /\ n.overflow = me.overflow
      /\ n.connected = me.connected
  BY <1>1, <1>3 DEF MeRecords
<1>5. Matches(tabs, n, srv)
  BY <1>1, <1>4, FollowsStill
<1> QED BY <1>1, <1>2, <1>4, <1>5, CountIsInt DEF TabsStep, TabsInv, Sound, CommandClose

\* The close box: a chat goes and the tab shown stays shown unless it was
\* that one; the channel's tab is asked to go, or goes at once.
LEMMA CloseTabKeeps == TabsInv /\ CloseTab => TabsInv' /\ ShownTabStays
<1> SUFFICES ASSUME TabsInv, CloseTab PROVE TabsInv' /\ ShownTabStays
  OBVIOUS
<1>1. Whole(tabs) /\ me \in MeRecords /\ Sound(tabs, me, srv)
  BY DEF TabsInv, Sound
<1>2. tabs.count \in Int
  BY <1>1, ActiveInSlots
<1>3. PICK u : u = tabs'
  OBVIOUS
<1>4. PICK i \in 1..(tabs.count - 1) :
        IF i # CHANNEL
        THEN tabs' = ChatClosed(tabs, i) /\ UNCHANGED <<me, srv>>
        ELSE IF ~me.connected
        THEN tabs' = ChannelClear(tabs) /\ UNCHANGED <<me, srv>>
        ELSE /\ HomeChannel(tabs) # NONE /\ Accepts(srv, 1) /\ MaySend
             /\ srv' = Sent(srv, <<<<"PART", HomeChannel(tabs)>>>>)
             /\ UNCHANGED <<tabs, me>>
  BY DEF CloseTab
<1>5. CASE i # CHANNEL
  <2>1. i \in 2..(tabs.count - 1)
    BY <1>2, <1>5 DEF CHANNEL
  <2>2. u = ChatClosed(tabs, i) /\ UNCHANGED <<me, srv>>
    BY <1>3, <1>4, <1>5
  <2>3. /\ Whole(u) /\ HomeChannel(u) = HomeChannel(tabs)
        /\ u.kind[tabs.order[tabs.active]] # "FREE" =>
              u.order[u.active] = tabs.order[tabs.active]
    BY <1>1, <2>1, <2>2, ClosedKeeps
  <2>4. Matches(u, me, srv)
    BY <1>1, <2>3, FollowsStill
  <2> QED BY <1>1, <1>3, <2>2, <2>3, <2>4 DEF TabsInv, Sound, ShownTabStays, At
<1>6. CASE i = CHANNEL /\ ~me.connected
  <2>1. u = ChannelClear(tabs) /\ UNCHANGED <<me, srv>>
    BY <1>3, <1>4, <1>6
  <2>2. Whole(u) /\ HomeChannel(u) = NONE /\ u.count = tabs.count
    BY <1>1, <2>1, ClearKeeps
  <2>3. Matches(u, me, srv)
    BY <1>6 DEF Matches
  <2> QED BY <1>1, <1>2, <1>3, <2>1, <2>2, <2>3 DEF TabsInv, Sound, ShownTabStays
<1>7. CASE i = CHANNEL /\ me.connected
  <2>1. srv' = Sent(srv, <<<<"PART", HomeChannel(tabs)>>>>) /\ UNCHANGED <<tabs, me>>
    BY <1>4, <1>7
  <2>2. PICK a \in Lines : a = <<"PART", HomeChannel(tabs)>>
    BY <1>1, HomeInLabels, LinesAre
  <2>3. PICK lines \in Seq(Lines) : lines = <<a>>
    BY OneLine
  <2>4. PICK z : z = srv'
    OBVIOUS
  <2>5. z = Sent(srv, lines)
    BY <2>1, <2>2, <2>3, <2>4
  <2>6. Sound(tabs, me, z)
    BY <1>1, <2>5, SendingKeeps
  <2> QED BY <1>1, <1>2, <2>1, <2>4, <2>6 DEF TabsInv, ShownTabStays
<1> QED BY <1>5, <1>6, <1>7

----------------------------------------------------------------------------
(* What the server does *)

SetLines(s, q) == [s EXCEPT !.queue = q]
SetIn(s, i) == [s EXCEPT !.in = i]
SetMembers(s, p) == [s EXCEPT !.members = p]
SetKnown(s, n) == [s EXCEPT !.nick = n]

LEMMA LinesSet ==
    ASSUME NEW s \in SrvRecords, NEW q \in Seq(Lines), NEW z, z = SetLines(s, q)
    PROVE  /\ z \in SrvRecords /\ z.nick = s.nick /\ z.in = s.in /\ z.queue = q
           /\ z.members = s.members /\ z.aware = s.aware
BY DEF SrvRecords, SetLines

LEMMA InSet ==
    ASSUME NEW s \in SrvRecords, NEW i \in SUBSET Channels, NEW z, z = SetIn(s, i)
    PROVE  /\ z \in SrvRecords /\ z.nick = s.nick /\ z.in = i /\ z.queue = s.queue
           /\ z.members = s.members /\ z.aware = s.aware
BY DEF SrvRecords, SetIn

LEMMA MembersSet ==
    ASSUME NEW s \in SrvRecords, NEW p \in [Channels -> SUBSET Entries],
           NEW z, z = SetMembers(s, p)
    PROVE  /\ z \in SrvRecords /\ z.nick = s.nick /\ z.in = s.in /\ z.queue = s.queue
           /\ z.members = p /\ z.aware = s.aware
BY DEF SrvRecords, SetMembers

LEMMA KnownSet ==
    ASSUME NEW s \in SrvRecords, NEW n \in Nicks, NEW z, z = SetKnown(s, n)
    PROVE  /\ z \in SrvRecords /\ z.nick = n /\ z.in = s.in /\ z.queue = s.queue
           /\ z.members = s.members /\ z.aware = s.aware
BY DEF SrvRecords, SetKnown

LEMMA AwareIs ==
    ASSUME srv \in SrvRecords, NEW z, z = Aware
    PROVE  /\ z \in SrvRecords /\ z.nick = srv.nick /\ z.in = srv.in
           /\ z.queue = srv.queue /\ z.members = srv.members
           /\ z.aware => srv.aware /\ me.nick = srv.nick
<1>1. PICK b : b = (srv.aware /\ me.nick = srv.nick)
  OBVIOUS
<1>2. b \in BOOLEAN /\ (b => srv.aware /\ me.nick = srv.nick)
  BY <1>1
<1>3. z = [srv EXCEPT !.aware = b]
  BY <1>1 DEF Aware
<1> QED BY <1>2, <1>3 DEF SrvRecords

\* A command that is done leaves the queue.
LEMMA QueueMoves ==
    ASSUME srv \in SrvRecords, srv.queue # <<>>
    PROVE  Head(srv.queue) \in Lines /\ Tail(srv.queue) \in Seq(Lines)
<1>1. PICK q \in Seq(Lines) : q = srv.queue
  BY SrvFields
<1> QED BY <1>1, HeadTailProperties

\* One channel's members change.
Instead(p, c, joined) == [p EXCEPT ![c] = joined]
KeptElsewhere(p, o, c) == \A d \in Channels : d # c => p[d] = o[d]

LEMMA OneChannel ==
    ASSUME NEW s \in SrvRecords, Finite(s), NEW c \in Channels,
           NEW joined \in SUBSET Entries, IsFiniteSet(joined),
           NEW p, p = Instead(s.members, c, joined)
    PROVE  /\ p \in [Channels -> SUBSET Entries] /\ FiniteEach(p)
           /\ p[c] = joined /\ KeptElsewhere(p, s.members, c)
<1>1. s.members \in [Channels -> SUBSET Entries]
  BY SrvFields
<1>2. p[c] = joined /\ (\A d \in Channels : d # c => p[d] = s.members[d])
  BY <1>1 DEF Instead
<1>3. p \in [Channels -> SUBSET Entries]
  BY <1>1 DEF Instead
<1> QED BY <1>1, <1>2, <1>3 DEF Finite, FiniteEach, KeptElsewhere

\* A channel's members in some order: all of them.
LEMMA ListedAll ==
    ASSUME NEW joined \in SUBSET Entries, IsFiniteSet(joined),
           NEW list \in SetToSeqs(joined)
    PROVE  list \in Seq(Entries) /\ NamesOf(list) = {e.name : e \in joined}
<1>1. PICK n \in Nat : n = Cardinality(joined)
  BY FS_CardinalityType
<1>2. list \in [1..n -> joined] /\ (\A i, j \in 1..n : i # j => list[i] # list[j])
  BY <1>1 DEF SetToSeqs
<1>3. list \in Injection(1..n, joined)
  BY <1>2 DEF Injection, IsInjective
<1>4. Cardinality(1..n) = n
  BY FS_Interval
<1>5. list \in Surjection(1..n, joined)
  BY <1>1, <1>3, <1>4, FS_Injection
<1>6. list \in Seq(joined) /\ DOMAIN list = 1..n
  BY <1>2
<1>7. list \in Seq(Entries)
  <2>1. list \in [1..n -> Entries]
    BY <1>2
  <2> QED BY <2>1
<1>8. NamesOf(list) = {e.name : e \in joined}
  BY <1>2, <1>5, <1>6 DEF NamesOf, Surjection
<1> QED BY <1>7, <1>8

\* The server lets a client into a channel, or out of it.
Moved(w, q, i, channel, left) ==
    [w EXCEPT !.queue = q, !.in = i, !.members[channel] = left]

LEMMA ServerMoves ==
    ASSUME NEW w \in SrvRecords, Finite(w), NEW q \in Seq(Lines), NEW i \in SUBSET Channels,
           NEW channel \in Channels, NEW left \in SUBSET Entries, IsFiniteSet(left),
           NEW z, z = Moved(w, q, i, channel, left)
    PROVE  /\ z \in SrvRecords /\ Finite(z) /\ z.in = i /\ z.members[channel] = left
           /\ KeptElsewhere(z.members, w.members, channel) /\ z.aware = w.aware
<1>1. PICK p : p = Instead(w.members, channel, left)
  OBVIOUS
<1>2. /\ p \in [Channels -> SUBSET Entries] /\ FiniteEach(p)
      /\ p[channel] = left /\ KeptElsewhere(p, w.members, channel)
  BY <1>1, OneChannel
<1>3. PICK a : a = SetLines(w, q)
  OBVIOUS
<1>4. PICK b : b = SetIn(a, i)
  OBVIOUS
<1>5. /\ a \in SrvRecords /\ a.nick = w.nick /\ a.in = w.in /\ a.queue = q
      /\ a.members = w.members /\ a.aware = w.aware
  BY <1>3, LinesSet
<1>6. /\ b \in SrvRecords /\ b.nick = a.nick /\ b.in = i /\ b.queue = a.queue
      /\ b.members = a.members /\ b.aware = a.aware
  BY <1>4, <1>5, InSet
<1>7. z = SetMembers(b, p)
  <2>1. z = [w EXCEPT !.queue = q, !.in = i, !.members = p]
    BY <1>1 DEF SrvRecords, Instead, Moved
  <2> QED BY <1>3, <1>4, <2>1 DEF SetLines, SetIn, SetMembers
<1>8. /\ z \in SrvRecords /\ z.nick = b.nick /\ z.in = b.in /\ z.queue = b.queue
      /\ z.members = p /\ z.aware = b.aware
  BY <1>2, <1>6, <1>7, MembersSet
<1> QED BY <1>2, <1>5, <1>6, <1>8 DEF Finite

LEMMA ServerJoinsKeeps ==
    ASSUME TabsInv, srv.queue # <<>>, NEW channel \in Channels, ServerJoins(channel)
    PROVE  TabsStep
<1>1. /\ Whole(tabs) /\ me \in MeRecords /\ Distinct(me.roster) /\ srv \in SrvRecords
      /\ Finite(srv) /\ Sound(tabs, me, srv) /\ srv.nick \in Nicks
  BY SrvFields DEF TabsInv, Sound
<1>2. PICK u, n, z : u = tabs' /\ n = me' /\ z = srv'
  OBVIOUS
<1>3. CASE channel \in srv.in
  <2>1. z = [srv EXCEPT !.queue = Tail(@)] /\ UNCHANGED <<tabs, me>>
    BY <1>2, <1>3 DEF ServerJoins
  <2>2. PICK q \in Seq(Lines) : q = Tail(srv.queue)
    BY <1>1, QueueMoves
  <2>3. z = SetLines(srv, q)
    BY <2>1, <2>2 DEF SetLines
  <2>4. /\ z \in SrvRecords /\ z.nick = srv.nick /\ z.in = srv.in /\ z.queue = q
        /\ z.members = srv.members /\ z.aware = srv.aware
    BY <1>1, <2>3, LinesSet
  <2>5. Matches(tabs, me, z)
    BY <1>1, <2>4, FollowsStill
  <2> QED BY <1>1, <1>2, <2>1, <2>4, <2>5, CountIsInt DEF TabsStep, TabsInv, Sound, Finite
<1>4. CASE channel \notin srv.in
  <2>1. PICK e : e = [name |-> srv.nick, rank |-> 5]
    OBVIOUS
  <2>2. PICK joined : joined = srv.members[channel] \cup {e}
    OBVIOUS
  <2>3. joined \in SUBSET Entries /\ IsFiniteSet(joined) /\ e \in joined
    <3>1. e \in Entries
      BY <1>1, <2>1 DEF Entries
    <3>2. srv.members[channel] \in SUBSET Entries /\ IsFiniteSet(srv.members[channel])
      BY <1>1, SrvFields DEF Finite, FiniteEach
    <3> QED BY <2>2, <3>1, <3>2, FS_AddElement
  <2>4. PICK t : t = IF me.nick = srv.nick THEN ChannelSet(tabs, channel) ELSE tabs
    OBVIOUS
  <2>5. PICK c : c = IF me.nick = srv.nick THEN RosterAdd(RosterClear(me), srv.nick, 5)
                     ELSE IF IsHome(channel) THEN RosterAdd(me, srv.nick, 5) ELSE me
    OBVIOUS
  <2> DEFINE in == srv.in \cup {channel}
             rest == Tail(srv.queue)
  <2>6. /\ z = Moved(Aware, rest, in, channel, joined)
        /\ u = Noted(t, CHANNEL)
        /\ \E list \in SetToSeqs(joined) :
              n = IF HomeChannel(t) = channel THEN RosterNames(c, list) ELSE c
    <3>1. Aware.queue = srv.queue /\ Aware.in = srv.in
      BY <1>1, AwareIs
    <3>2. z = Moved(Aware, Tail(Aware.queue), Aware.in \cup {channel}, channel, joined)
      BY <1>2, <1>4, <2>1, <2>2 DEF ServerJoins, Moved
    <3>3. /\ u = Noted(t, CHANNEL)
          /\ \E list \in SetToSeqs(joined) :
                n = IF HomeChannel(t) = channel THEN RosterNames(c, list) ELSE c
      BY <1>2, <1>4, <2>1, <2>2, <2>4, <2>5 DEF ServerJoins
    <3> QED BY <3>1, <3>2, <3>3
  <2>7. PICK list \in SetToSeqs(joined) :
           n = IF HomeChannel(t) = channel THEN RosterNames(c, list) ELSE c
    BY <2>6
  <2>8. list \in Seq(Entries) /\ NamesOf(list) = {x.name : x \in joined}
    BY <2>3, ListedAll
  <2>9. /\ z \in SrvRecords /\ Finite(z) /\ z.members[channel] = joined
        /\ (z.aware => me.nick = srv.nick)
    <3>1. PICK w : w = Aware
      OBVIOUS
    <3>2. /\ w \in SrvRecords /\ w.nick = srv.nick /\ w.in = srv.in
          /\ w.queue = srv.queue /\ w.members = srv.members
          /\ w.aware => srv.aware /\ me.nick = srv.nick
      BY <1>1, <3>1, AwareIs
    <3>3. Finite(w)
      BY <1>1, <3>2 DEF Finite
    <3>4. rest \in Seq(Lines) /\ in \in SUBSET Channels
      BY <1>1, QueueMoves, SrvFields
    <3>5. z = Moved(w, rest, in, channel, joined)
      BY <2>6, <3>1
    <3> HIDE DEF rest, in
    <3>6. /\ z \in SrvRecords /\ Finite(z) /\ z.in = in /\ z.members[channel] = joined
          /\ KeptElsewhere(z.members, w.members, channel) /\ z.aware = w.aware
      BY <2>3, <3>2, <3>3, <3>4, <3>5, ServerMoves
    <3> QED BY <3>2, <3>6
  <2>10. Whole(t) /\ t.count = tabs.count
         /\ (me.nick = srv.nick => HomeChannel(t) = channel)
    BY <1>1, <2>4, SetKeeps
  <2>11. Whole(u) /\ HomeChannel(u) = HomeChannel(t) /\ u.count = t.count
    BY <2>6, <2>10, NotedFine, SlotsThere DEF CHANNEL
  <2>12. CASE me.nick = srv.nick
    <3>1. PICK v : v = RosterClear(me)
      OBVIOUS
    <3>2. /\ v \in MeRecords /\ ~v.overflow
          /\ Distinct(v.roster) /\ NamesOf(v.roster) = {}
      BY <1>1, <3>1, ClearedRoster
    <3>3. c = RosterAdd(v, srv.nick, 5)
      BY <2>5, <2>12, <3>1
    <3>4. Becomes(v, c, {}, {srv.nick})
      BY <1>1, <3>2, <3>3, AddKeeps
    <3>5. c \in MeRecords /\ Distinct(c.roster)
      BY <3>4 DEF Becomes
    <3>6. n = RosterNames(c, list)
      BY <2>7, <2>10, <2>12
    <3>7. Becomes(c, n, {}, NamesOf(list))
      BY <2>8, <3>5, <3>6, NamesKeeps
    <3>8. n \in MeRecords /\ Distinct(n.roster)
      BY <3>7 DEF Becomes
    <3>9. ~n.overflow => NamesOf(n.roster) = {srv.nick} \cup NamesOf(list)
      BY <3>2, <3>4, <3>7 DEF Becomes
    <3>10. srv.nick \in NamesOf(list)
      BY <2>1, <2>3, <2>8
    <3>11. NamesOf(list) = NamesIn(z, channel)
      BY <2>8, <2>9 DEF NamesIn
    <3>12. Matches(u, n, z)
      BY <2>10, <2>11, <2>12, <3>9, <3>10, <3>11 DEF Matches
    <3> QED BY <1>1, <1>2, <2>9, <2>10, <2>11, <3>8, <3>12, CountIsInt
         DEF TabsStep, TabsInv, Sound
  <2>13. CASE me.nick # srv.nick
    <3>1. c \in MeRecords /\ Distinct(c.roster)
      <4>1. PICK v : v = RosterAdd(me, srv.nick, 5)
        OBVIOUS
      <4>2. Becomes(me, v, {}, {srv.nick})
        BY <1>1, <4>1, AddKeeps
      <4> QED BY <1>1, <2>5, <2>13, <4>1, <4>2 DEF Becomes
    <3>2. n \in MeRecords /\ Distinct(n.roster)
      <4>1. PICK v : v = RosterNames(c, list)
        OBVIOUS
      <4>2. Becomes(c, v, {}, NamesOf(list))
        BY <2>8, <3>1, <4>1, NamesKeeps
      <4> QED BY <2>7, <3>1, <4>1, <4>2 DEF Becomes
    <3>3. Matches(u, n, z)
      BY <2>9, <2>13 DEF Matches
    <3> QED BY <1>1, <1>2, <2>9, <2>10, <2>11, <3>2, <3>3, CountIsInt
         DEF TabsStep, TabsInv, Sound
  <2> QED BY <2>12, <2>13
<1> QED BY <1>3, <1>4

----------------------------------------------------------------------------
(* Members who leave, and change their names *)

\* Without one name.
Called(S) == {e.name : e \in S}
AllBut(S, name) == {n \in S : n.name # name}
MemberSet(S) == S \in SUBSET Entries /\ IsFiniteSet(S)

LEMMA LeftBehind ==
    ASSUME NEW s \in SrvRecords, Finite(s), NEW c \in Channels, NEW name,
           NEW left, left = AllBut(s.members[c], name)
    PROVE  MemberSet(left) /\ Called(left) = NamesIn(s, c) \ {name}
<1>1. s.members[c] \in SUBSET Entries /\ IsFiniteSet(s.members[c])
  BY SrvFields DEF Finite, FiniteEach
<1>2. left \in SUBSET s.members[c]
  BY DEF AllBut
<1>3. IsFiniteSet(left)
  BY <1>1, <1>2, FS_Subset
<1>4. Called(left) = NamesIn(s, c) \ {name}
  BY DEF NamesIn, Called, AllBut
<1> QED BY <1>1, <1>2, <1>3, <1>4 DEF MemberSet

\* A step of the server that the roster takes part in.
LEMMA FollowsChange ==
    ASSUME NEW t, NEW m, NEW s, Sound(t, m, s), NEW u, HomeChannel(u) = HomeChannel(t),
           NEW less, NEW add, NEW n, Becomes(m, n, less, add),
           NEW z, z.in = s.in, z.aware = s.aware,
           HomeChannel(t) \in s.in =>
              NamesIn(z, HomeChannel(t)) = (NamesIn(s, HomeChannel(t)) \ less) \cup add
    PROVE  Matches(u, n, z)
BY DEF Sound, Matches, Becomes

LEMMA StaysSame == ASSUME NEW m \in MeRecords, Distinct(m.roster) PROVE Becomes(m, m, {}, {})
BY DEF Becomes

\* One channel changed its members; the roster, where it is that channel's.
LEMMA MembersChange ==
    ASSUME TabsInv, NEW channel \in Channels, NEW left \in SUBSET Entries, IsFiniteSet(left),
           NEW less, NEW add,
           Called(left) = (NamesIn(srv, channel) \ less) \cup add,
           NEW z, z = SetMembers(srv, Instead(srv.members, channel, left)),
           NEW u, Whole(u), HomeChannel(u) = HomeChannel(tabs), u.count = tabs.count,
           NEW n, IF channel \in srv.in /\ IsHome(channel) THEN Becomes(me, n, less, add)
                  ELSE n = me
    PROVE  Sound(u, n, z)
<1>1. /\ me \in MeRecords /\ Distinct(me.roster) /\ srv \in SrvRecords
      /\ Finite(srv) /\ Sound(tabs, me, srv)
  BY DEF TabsInv, Sound
<1>2. PICK p : p = Instead(srv.members, channel, left)
  OBVIOUS
<1>3. /\ p \in [Channels -> SUBSET Entries] /\ FiniteEach(p)
      /\ p[channel] = left /\ KeptElsewhere(p, srv.members, channel)
  BY <1>1, <1>2, OneChannel
<1>4. z = SetMembers(srv, p)
  BY <1>2
<1>5. /\ z \in SrvRecords /\ z.nick = srv.nick /\ z.in = srv.in /\ z.queue = srv.queue
      /\ z.members = p /\ z.aware = srv.aware
  BY <1>1, <1>3, <1>4, MembersSet
<1>6. Finite(z)
  BY <1>3, <1>5 DEF Finite
<1>7. NamesIn(z, channel) = (NamesIn(srv, channel) \ less) \cup add
  BY <1>3, <1>5 DEF NamesIn, Called
<1>8. \A d \in Channels : d # channel => NamesIn(z, d) = NamesIn(srv, d)
  BY <1>3, <1>5 DEF NamesIn, KeptElsewhere
<1>9. CASE channel \in srv.in /\ IsHome(channel)
  <2>1. Becomes(me, n, less, add) /\ HomeChannel(tabs) = channel
    BY <1>9 DEF IsHome
  <2>2. Matches(u, n, z)
    BY <1>1, <1>5, <1>7, <2>1, FollowsChange
  <2>3. n \in MeRecords /\ Distinct(n.roster)
    BY <2>1 DEF Becomes
  <2> QED BY <1>5, <1>6, <2>2, <2>3 DEF Sound
<1>10. CASE ~(channel \in srv.in /\ IsHome(channel))
  <2>1. n = me /\ Becomes(me, n, {}, {})
    BY <1>1, <1>10, StaysSame
  <2>2. PICK home : home = HomeChannel(tabs)
    OBVIOUS
  <2>3. home \in srv.in => home \in Channels /\ home # channel
    BY <1>1, <1>10, <2>2, SrvFields DEF IsHome
  <2>4. home \in srv.in => NamesIn(z, home) = (NamesIn(srv, home) \ {}) \cup {}
    BY <1>8, <2>3
  <2>5. Matches(u, n, z)
    BY <1>1, <1>5, <2>1, <2>2, <2>4, FollowsChange
  <2> QED BY <1>1, <1>5, <1>6, <2>1, <2>5 DEF Sound
<1> QED BY <1>9, <1>10

LEMMA PeerJoinsKeeps == TabsInv /\ PeerJoins => TabsStep
<1> SUFFICES ASSUME TabsInv, PeerJoins PROVE TabsStep
  OBVIOUS
<1>1. /\ Whole(tabs) /\ me \in MeRecords /\ Distinct(me.roster) /\ srv \in SrvRecords
      /\ Finite(srv)
  BY DEF TabsInv, Sound
<1>2. PICK channel \in Channels, name \in Names, rank \in Ranks :
        /\ srv' = [srv EXCEPT !.members[channel] = @ \cup {[name |-> name, rank |-> rank]}]
        /\ IF channel \notin srv.in THEN UNCHANGED <<tabs, me>>
           ELSE /\ rank = 5
                /\ tabs' = Noted(tabs, CHANNEL)
                /\ me' = IF IsHome(channel) THEN RosterAdd(me, name, 5) ELSE me
  BY DEF PeerJoins
<1>3. PICK e : e = [name |-> name, rank |-> rank]
  OBVIOUS
<1>4. PICK left : left = srv.members[channel] \cup {e}
  OBVIOUS
<1>5. left \in SUBSET Entries /\ IsFiniteSet(left)
  <2>1. e \in Entries
    BY <1>3 DEF Entries, Nicks
  <2>2. srv.members[channel] \in SUBSET Entries /\ IsFiniteSet(srv.members[channel])
    BY <1>1, SrvFields DEF Finite, FiniteEach
  <2> QED BY <1>4, <2>1, <2>2, FS_AddElement
<1>6. Called(left) = (NamesIn(srv, channel) \ {}) \cup {name}
  BY <1>3, <1>4 DEF NamesIn, Called
<1>7. PICK u, n, z : u = tabs' /\ n = me' /\ z = srv'
  OBVIOUS
<1>8. z = SetMembers(srv, Instead(srv.members, channel, left))
  BY <1>1, <1>2, <1>3, <1>4, <1>7 DEF SetMembers, Instead, SrvRecords
<1>9. Whole(u) /\ HomeChannel(u) = HomeChannel(tabs) /\ u.count = tabs.count
  <2>1. PICK v : v = Noted(tabs, CHANNEL)
    OBVIOUS
  <2>2. Whole(v) /\ HomeChannel(v) = HomeChannel(tabs) /\ v.count = tabs.count
    BY <1>1, <2>1, NotedFine, SlotsThere DEF CHANNEL
  <2> QED BY <1>1, <1>2, <1>7, <2>1, <2>2
<1>10. IF channel \in srv.in /\ IsHome(channel) THEN Becomes(me, n, {}, {name}) ELSE n = me
  <2>1. PICK v : v = RosterAdd(me, name, 5)
    OBVIOUS
  <2>2. name \in Nicks
    BY DEF Nicks
  <2>3. Becomes(me, v, {}, {name})
    BY <1>1, <2>1, <2>2, AddKeeps
  <2> QED BY <1>2, <1>7, <2>1, <2>3
<1>11. Sound(u, n, z)
  BY <1>5, <1>6, <1>8, <1>9, <1>10, MembersChange
<1> QED BY <1>1, <1>7, <1>9, <1>11, CountIsInt DEF TabsStep, TabsInv

LEMMA PeerLeavesKeeps == TabsInv /\ PeerLeaves => TabsStep
<1> SUFFICES ASSUME TabsInv, PeerLeaves PROVE TabsStep
  OBVIOUS
<1>1. /\ Whole(tabs) /\ me \in MeRecords /\ Distinct(me.roster) /\ srv \in SrvRecords
      /\ Finite(srv)
  BY DEF TabsInv, Sound
<1>0. PICK channel \in srv.in : \E name :
        /\ srv' = [srv EXCEPT !.members[channel] = {n \in @ : n.name # name}]
        /\ tabs' = Noted(tabs, CHANNEL)
        /\ me' = IF IsHome(channel) THEN RosterRemove(me, name) ELSE me
  BY DEF PeerLeaves
<1>2. PICK name :
        /\ srv' = [srv EXCEPT !.members[channel] = {n \in @ : n.name # name}]
        /\ tabs' = Noted(tabs, CHANNEL)
        /\ me' = IF IsHome(channel) THEN RosterRemove(me, name) ELSE me
  BY <1>0
<1>3. channel \in Channels
  BY <1>1, SrvFields
<1>4. PICK left : left = AllBut(srv.members[channel], name)
  OBVIOUS
<1>5. MemberSet(left) /\ Called(left) = NamesIn(srv, channel) \ {name}
  BY <1>1, <1>3, <1>4, LeftBehind
<1>6. Called(left) = (NamesIn(srv, channel) \ {name}) \cup {}
  BY <1>5
<1>7. PICK u, n, z : u = tabs' /\ n = me' /\ z = srv'
  OBVIOUS
<1>8. z = SetMembers(srv, Instead(srv.members, channel, left))
  BY <1>1, <1>2, <1>4, <1>7 DEF SetMembers, Instead, SrvRecords, AllBut
<1>9. Whole(u) /\ HomeChannel(u) = HomeChannel(tabs) /\ u.count = tabs.count
  BY <1>1, <1>2, <1>7, NotedFine, SlotsThere DEF CHANNEL
<1>10. IF channel \in srv.in /\ IsHome(channel) THEN Becomes(me, n, {name}, {}) ELSE n = me
  <2>1. PICK v : v = RosterRemove(me, name)
    OBVIOUS
  <2>2. Becomes(me, v, {name}, {})
    BY <1>1, <2>1, RemoveKeeps
  <2> QED BY <1>2, <1>7, <2>1, <2>2
<1>11. Sound(u, n, z)
  <2>1. left \in SUBSET Entries /\ IsFiniteSet(left)
    BY <1>5 DEF MemberSet
  <2> QED BY <1>3, <1>6, <1>8, <1>9, <1>10, <2>1, MembersChange
<1> QED BY <1>1, <1>7, <1>9, <1>11, CountIsInt DEF TabsStep, TabsInv

LEMMA PeerQuitsKeeps == TabsInv /\ PeerQuits => TabsStep
<1> SUFFICES ASSUME TabsInv, PeerQuits PROVE TabsStep
  OBVIOUS
<1>1. /\ Whole(tabs) /\ me \in MeRecords /\ Distinct(me.roster) /\ srv \in SrvRecords
      /\ Finite(srv) /\ Sound(tabs, me, srv)
  BY DEF TabsInv, Sound
<1>2. PICK name :
        /\ srv' = [srv EXCEPT !.members = [c \in Channels |-> {n \in @[c] : n.name # name}]]
        /\ tabs' = Noted(tabs, CHANNEL)
        /\ me' = RosterRemove(me, name)
  BY DEF PeerQuits
<1>3. PICK p : p = [c \in Channels |-> {n \in srv.members[c] : n.name # name}]
  OBVIOUS
<1>4. ASSUME NEW c \in Channels
      PROVE  /\ p[c] \in SUBSET Entries /\ IsFiniteSet(p[c])
             /\ Called(p[c]) = NamesIn(srv, c) \ {name}
  <2>1. PICK left : left = AllBut(srv.members[c], name)
    OBVIOUS
  <2>2. p[c] = left
    BY <1>3, <2>1 DEF AllBut
  <2>3. MemberSet(left) /\ Called(left) = NamesIn(srv, c) \ {name}
    BY <1>1, <2>1, LeftBehind
  <2> QED BY <2>2, <2>3 DEF MemberSet
<1>5. p \in [Channels -> SUBSET Entries] /\ FiniteEach(p)
  BY <1>3, <1>4 DEF FiniteEach
<1>6. PICK u, n, z : u = tabs' /\ n = me' /\ z = srv'
  OBVIOUS
<1>7. z = SetMembers(srv, p)
  BY <1>1, <1>2, <1>3, <1>6 DEF SetMembers, SrvRecords
<1>8. /\ z \in SrvRecords /\ z.nick = srv.nick /\ z.in = srv.in /\ z.queue = srv.queue
      /\ z.members = p /\ z.aware = srv.aware
  BY <1>1, <1>5, <1>7, MembersSet
<1>9. Whole(u) /\ HomeChannel(u) = HomeChannel(tabs) /\ u.count = tabs.count
  BY <1>1, <1>2, <1>6, NotedFine, SlotsThere DEF CHANNEL
<1>10. Becomes(me, n, {name}, {})
  BY <1>1, <1>2, <1>6, RemoveKeeps
<1>11. PICK home : home = HomeChannel(tabs)
  OBVIOUS
<1>12. home \in srv.in => NamesIn(z, home) = (NamesIn(srv, home) \ {name}) \cup {}
  <2>1. home \in srv.in => home \in Channels
    BY <1>1, SrvFields
  <2> QED BY <1>4, <1>8, <2>1 DEF NamesIn, Called
<1>13. Matches(u, n, z)
  BY <1>1, <1>8, <1>9, <1>10, <1>11, <1>12, FollowsChange
<1>14. Sound(u, n, z)
  BY <1>5, <1>8, <1>9, <1>10, <1>13 DEF Sound, Becomes, Finite
<1> QED BY <1>1, <1>6, <1>9, <1>14, CountIsInt DEF TabsStep, TabsInv

\* Out of a channel, by PART or KICK.
LEMMA RemovesUsKeeps ==
    ASSUME TabsInv, NEW channel \in Channels, NEW lines \in Seq(Lines),
           ServerRemovesUs(channel, lines)
    PROVE  TabsStep
<1>1. /\ Whole(tabs) /\ me \in MeRecords /\ Distinct(me.roster) /\ srv \in SrvRecords
      /\ Finite(srv) /\ Sound(tabs, me, srv)
  BY DEF TabsInv, Sound
<1>2. PICK u, n, z : u = tabs' /\ n = me' /\ z = srv'
  OBVIOUS
<1>3. PICK w : w = Aware
  OBVIOUS
<1>4. /\ w \in SrvRecords /\ w.nick = srv.nick /\ w.in = srv.in
      /\ w.queue = srv.queue /\ w.members = srv.members
      /\ w.aware => srv.aware /\ me.nick = srv.nick
  BY <1>1, <1>3, AwareIs
<1>5. Finite(w)
  BY <1>1, <1>4 DEF Finite
<1>6. PICK i \in SUBSET Channels : i = srv.in \ {channel}
  BY <1>1, SrvFields
<1>7. PICK left : left = AllBut(srv.members[channel], srv.nick)
  OBVIOUS
<1>8. left \in SUBSET Entries /\ IsFiniteSet(left)
  <2>1. srv.members[channel] \in SUBSET Entries /\ IsFiniteSet(srv.members[channel])
    BY <1>1, SrvFields DEF Finite, FiniteEach
  <2>2. left \in SUBSET srv.members[channel]
    BY <1>7 DEF AllBut
  <2> QED BY <2>1, <2>2, FS_Subset
<1>9. z = Moved(w, lines, i, channel, left)
  BY <1>2, <1>3, <1>4, <1>6, <1>7 DEF ServerRemovesUs, Moved, AllBut
<1>10. /\ z \in SrvRecords /\ Finite(z) /\ z.in = i /\ z.members[channel] = left
       /\ KeptElsewhere(z.members, w.members, channel) /\ z.aware = w.aware
  BY <1>4, <1>5, <1>8, <1>9, ServerMoves
<1>11. PICK t : t = Noted(tabs, CHANNEL)
  OBVIOUS
<1>12. Whole(t) /\ HomeChannel(t) = HomeChannel(tabs) /\ t.count = tabs.count
  BY <1>1, <1>11, NotedFine, SlotsThere DEF CHANNEL
<1>13. n \in MeRecords /\ Distinct(n.roster)
  <2>1. PICK a : a = RosterClear(me)
    OBVIOUS
  <2>2. a \in MeRecords /\ Distinct(a.roster)
    BY <1>1, <2>1, ClearedRoster
  <2>3. PICK name : name = srv.nick
    OBVIOUS
  <2>4. PICK b : b = RosterRemove(me, name)
    OBVIOUS
  <2>5. Becomes(me, b, {name}, {})
    BY <1>1, <2>4, RemoveKeeps
  <2> QED BY <1>1, <1>2, <2>1, <2>2, <2>3, <2>4, <2>5 DEF ServerRemovesUs, Becomes
<1>14. CASE me.nick = srv.nick /\ IsHome(channel)
  <2>1. u = ChannelClear(t)
    BY <1>2, <1>11, <1>14 DEF ServerRemovesUs
  <2>2. Whole(u) /\ HomeChannel(u) = NONE /\ u.count = t.count
    BY <1>12, <2>1, ClearKeeps
  <2>3. Matches(u, n, z)
    BY <1>6, <1>10, <2>2, TabsAssumption DEF Matches
  <2> QED BY <1>1, <1>2, <1>10, <1>12, <1>13, <2>2, <2>3, CountIsInt
       DEF TabsStep, TabsInv, Sound
<1>15. CASE ~(me.nick = srv.nick /\ IsHome(channel))
  <2>1. u = t
    BY <1>2, <1>11, <1>15 DEF ServerRemovesUs
  <2>2. Matches(u, n, z)
    <3>1. CASE me.nick # srv.nick
      BY <1>4, <1>10, <3>1 DEF Matches
    <3>2. CASE ~IsHome(channel)
      <4>1. n = me
        BY <1>2, <3>2 DEF ServerRemovesUs
      <4>2. PICK home : home = HomeChannel(tabs)
        OBVIOUS
      <4>3. home \in i => home \in Channels /\ home # channel /\ home \in srv.in
        BY <1>6, <3>2, <4>2 DEF IsHome
      <4>4. home \in i => z.members[home] = srv.members[home]
        BY <1>4, <1>10, <4>3 DEF KeptElsewhere
      <4>5. Matches(tabs, me, srv)
        BY <1>1 DEF Sound
      <4> QED BY <1>4, <1>10, <1>12, <2>1, <4>1, <4>2, <4>3, <4>4, <4>5
           DEF Matches, NamesIn
    <3> QED BY <1>15, <3>1, <3>2
  <2> QED BY <1>1, <1>2, <1>10, <1>12, <1>13, <2>1, <2>2, CountIsInt
       DEF TabsStep, TabsInv, Sound
<1> QED BY <1>14, <1>15

LEMMA KickedKeeps == TabsInv /\ KickedOut => TabsStep
<1> SUFFICES ASSUME TabsInv, KickedOut PROVE TabsStep
  OBVIOUS
<1>1. PICK channel \in srv.in : ServerRemovesUs(channel, srv.queue)
  BY DEF KickedOut
<1>2. channel \in Channels /\ srv.queue \in Seq(Lines)
  BY SrvFields DEF TabsInv, Sound
<1>3. PICK lines \in Seq(Lines) : lines = srv.queue
  BY <1>2
<1> QED BY <1>1, <1>2, <1>3, RemovesUsKeeps

\* The members of a channel once one of them has another name.
Renamed(S, old, new) == {IF n.name = old THEN [n EXCEPT !.name = new] ELSE n : n \in S}

LEMMA RenamedMembers ==
    ASSUME NEW S, MemberSet(S), NEW old, NEW new \in Nicks, NEW T, T = Renamed(S, old, new)
    PROVE  /\ MemberSet(T)
           /\ Called(T) = IF old \in Called(S) THEN (Called(S) \ {old}) \cup {new}
                          ELSE Called(S)
<1> DEFINE f == [n \in S |-> IF n.name = old THEN [n EXCEPT !.name = new] ELSE n]
<1>1. T = {f[n] : n \in S}
  BY DEF Renamed
<1>2. S \in SUBSET Entries /\ IsFiniteSet(S)
  BY DEF MemberSet
<1>3. ASSUME NEW n \in S
      PROVE  f[n] \in Entries /\ f[n].name = (IF n.name = old THEN new ELSE n.name)
  <2>1. n \in Entries
    BY <1>2
  <2>2. CASE n.name = old
    <3>1. f[n] = [n EXCEPT !.name = new]
      BY <2>2
    <3> HIDE DEF f
    <3> QED BY <2>1, <2>2, <3>1 DEF Entries
  <2>3. CASE n.name # old
    BY <2>1, <2>3
  <2> QED BY <2>2, <2>3
<1>4. DOMAIN f = S /\ f \in [S -> T]
  BY <1>1
<1> HIDE DEF f
<1>5. f \in Surjection(S, T)
  BY <1>1, <1>4 DEF Surjection
<1>6. IsFiniteSet(T)
  BY <1>2, <1>5, FS_Surjection
<1>7. T \in SUBSET Entries
  BY <1>1, <1>3
<1>8. Called(T) = {IF n.name = old THEN new ELSE n.name : n \in S}
  BY <1>1, <1>3 DEF Called
<1>9. CASE old \in Called(S)
  <2>1. Called(T) = (Called(S) \ {old}) \cup {new}
    BY <1>8, <1>9 DEF Called
  <2> QED BY <1>6, <1>7, <1>9, <2>1 DEF MemberSet
<1>10. CASE old \notin Called(S)
  <2>1. Called(T) = Called(S)
    BY <1>8, <1>10 DEF Called
  <2> QED BY <1>6, <1>7, <1>10, <2>1 DEF MemberSet
<1> QED BY <1>9, <1>10

\* A change of nickname, the client's own (s then knows the new one) or another's.
LEMMA RenamesKeeps ==
    ASSUME TabsInv, NEW s \in SrvRecords, s.in = srv.in, s.members = srv.members,
           s.aware = srv.aware, NEW old \in Nicks, NEW new \in Nicks,
           ServerRenames(s, old, new)
    PROVE  TabsStep
<1>1. /\ Whole(tabs) /\ me \in MeRecords /\ Distinct(me.roster) /\ srv \in SrvRecords
      /\ Finite(srv) /\ Sound(tabs, me, srv)
  BY DEF TabsInv, Sound
<1>2. PICK u, n, z : u = tabs' /\ n = me' /\ z = srv'
  OBVIOUS
<1>3. PICK p : p = [c \in Channels |-> Renamed(s.members[c], old, new)]
  OBVIOUS
<1>4. ASSUME NEW c \in Channels
      PROVE  /\ MemberSet(p[c])
             /\ Called(p[c]) = IF old \in NamesIn(srv, c) THEN (NamesIn(srv, c) \ {old}) \cup {new}
                               ELSE NamesIn(srv, c)
  <2>1. PICK S : S = s.members[c]
    OBVIOUS
  <2>2. PICK T : T = Renamed(S, old, new)
    OBVIOUS
  <2>3. MemberSet(S)
    BY <1>1, <2>1, SrvFields DEF MemberSet, Finite, FiniteEach
  <2>4. /\ MemberSet(T)
        /\ Called(T) = IF old \in Called(S) THEN (Called(S) \ {old}) \cup {new}
                       ELSE Called(S)
    BY <2>2, <2>3, RenamedMembers
  <2>5. Called(S) = NamesIn(srv, c)
    BY <2>1 DEF Called, NamesIn
  <2> QED BY <1>3, <2>1, <2>2, <2>4, <2>5
<1>5. p \in [Channels -> SUBSET Entries] /\ FiniteEach(p)
  BY <1>3, <1>4 DEF FiniteEach, MemberSet
<1>6. z = SetMembers(s, p)
  <2>1. s.members \in [Channels -> SUBSET Entries]
    BY SrvFields
  <2> QED BY <1>2, <1>3, <2>1 DEF ServerRenames, SetMembers, SrvRecords, Renamed
<1>7. /\ z \in SrvRecords /\ z.nick = s.nick /\ z.in = s.in /\ z.queue = s.queue
      /\ z.members = p /\ z.aware = s.aware
  BY <1>5, <1>6, MembersSet
<1>8. Whole(u) /\ HomeChannel(u) = HomeChannel(tabs) /\ u.count = tabs.count
  <2>1. PICK t : t = Noted(tabs, CHANNEL)
    OBVIOUS
  <2>2. Whole(t) /\ HomeChannel(t) = HomeChannel(tabs) /\ t.count = tabs.count
    BY <1>1, <2>1, NotedFine, SlotsThere DEF CHANNEL
  <2>3. u = ChatRenamed(t, old, new)
    BY <1>2, <2>1 DEF ServerRenames
  <2>4. old \in Labels /\ new \in Labels
    BY DEF Labels
  <2>5. Whole(u) /\ SameTabs(t, u) /\ u.active = t.active
    BY <2>2, <2>3, <2>4, RenamedKeeps
  <2> QED BY <2>2, <2>5, SameHome DEF SameTabs
<1>9. PICK nick \in Nicks : nick = IF me.nick = old THEN new ELSE me.nick
  BY <1>1, MeFields
<1>10. PICK m : m = SetNick(me, nick)
  OBVIOUS
<1>11. /\ m \in MeRecords /\ m.nick = nick /\ m.closing = me.closing
       /\ m.connected = me.connected /\ m.overflow = me.overflow /\ m.roster = me.roster
  BY <1>1, <1>10, NickSet
<1>12. n = RosterRename(m, old, new)
  BY <1>1, <1>2, <1>9, <1>10 DEF ServerRenames, SetNick, MeRecords
<1>13. \/ old \notin NamesOf(m.roster) /\ n = m
       \/ old \in NamesOf(m.roster) /\ Becomes(m, n, {old}, {new})
  BY <1>1, <1>11, <1>12, RenameKeeps
<1>14. Sound(tabs, m, srv)
  <2>1. Matches(tabs, m, srv)
    BY <1>1, <1>11, FollowsStill
  <2> QED BY <1>1, <1>11, <2>1 DEF Sound
<1>15. PICK home : home = HomeChannel(tabs)
  OBVIOUS
<1>16. home \in srv.in => home \in Channels
  BY <1>1, SrvFields
<1>17. home \in srv.in =>
          NamesIn(z, home) = IF old \in NamesIn(srv, home)
                             THEN (NamesIn(srv, home) \ {old}) \cup {new}
                             ELSE NamesIn(srv, home)
  BY <1>4, <1>7, <1>16 DEF NamesIn, Called
<1>18. m.connected /\ srv.aware /\ ~m.overflow /\ home \in srv.in =>
          NamesOf(m.roster) = NamesIn(srv, home)
  BY <1>14, <1>15 DEF Sound, Matches
<1>19. n \in MeRecords /\ Distinct(n.roster) /\ Matches(u, n, z)
  <2>1. CASE old \notin NamesOf(m.roster) /\ n = m
    <3>1. Matches(u, n, z)
      BY <1>7, <1>8, <1>15, <1>17, <1>18, <2>1 DEF Matches
    <3> QED BY <1>1, <1>11, <2>1, <3>1
  <2>2. CASE old \in NamesOf(m.roster) /\ Becomes(m, n, {old}, {new})
    <3>1. Matches(u, n, z)
      BY <1>7, <1>8, <1>15, <1>17, <1>18, <2>2 DEF Matches, Becomes
    <3> QED BY <2>2, <3>1 DEF Becomes
  <2> QED BY <1>13, <2>1, <2>2
<1>20. Sound(u, n, z)
  BY <1>5, <1>7, <1>8, <1>19 DEF Sound, Finite
<1> QED BY <1>1, <1>2, <1>8, <1>20, CountIsInt DEF TabsStep, TabsInv

LEMMA PeerRenamesKeeps == TabsInv /\ PeerRenames => TabsStep
<1> SUFFICES ASSUME TabsInv, PeerRenames PROVE TabsStep
  OBVIOUS
<1>1. srv \in SrvRecords
  BY DEF TabsInv, Sound
<1>2. PICK channel \in srv.in :
        \E old \in NamesIn(srv, channel), new \in Names : ServerRenames(srv, old, new)
  BY DEF PeerRenames
<1>3. PICK old \in NamesIn(srv, channel), new \in Names : ServerRenames(srv, old, new)
  BY <1>2
<1>4. old \in Nicks /\ new \in Nicks
  <2>1. srv.members[channel] \in SUBSET Entries
    BY <1>1, SrvFields
  <2>2. old \in Nicks
    BY <2>1 DEF NamesIn, Entries
  <2> QED BY <2>2 DEF Nicks
<1> QED BY <1>1, <1>3, <1>4, RenamesKeeps

\* A command that only leaves the queue, with or without a word about it.
LEMMA DoneKeeps ==
    ASSUME TabsInv, srv.queue # <<>>, srv' = [srv EXCEPT !.queue = Tail(@)], me' = me,
           tabs' = tabs \/ tabs' = Noted(tabs, 0)
    PROVE  TabsStep
<1>1. /\ Whole(tabs) /\ me \in MeRecords /\ Distinct(me.roster) /\ srv \in SrvRecords
      /\ Finite(srv) /\ Sound(tabs, me, srv)
  BY DEF TabsInv, Sound
<1>2. PICK u, z : u = tabs' /\ z = srv'
  OBVIOUS
<1>3. Whole(u) /\ HomeChannel(u) = HomeChannel(tabs) /\ u.count = tabs.count
  <2>1. PICK t : t = Noted(tabs, 0)
    OBVIOUS
  <2>2. Whole(t) /\ HomeChannel(t) = HomeChannel(tabs) /\ t.count = tabs.count
    BY <1>1, <2>1, NotedFine, SlotsThere
  <2> QED BY <1>1, <1>2, <2>1, <2>2
<1>4. PICK q \in Seq(Lines) : q = Tail(srv.queue)
  BY <1>1, QueueMoves
<1>5. z = SetLines(srv, q)
  BY <1>2, <1>4 DEF SetLines
<1>6. /\ z \in SrvRecords /\ z.nick = srv.nick /\ z.in = srv.in /\ z.queue = q
      /\ z.members = srv.members /\ z.aware = srv.aware
  BY <1>1, <1>5, LinesSet
<1>7. Matches(u, me, z)
  BY <1>1, <1>3, <1>6, FollowsStill
<1> QED BY <1>1, <1>2, <1>3, <1>6, <1>7, CountIsInt DEF TabsStep, TabsInv, Sound, Finite

LEMMA ServerActsKeeps == TabsInv /\ ServerActs => TabsStep
<1> SUFFICES ASSUME TabsInv, ServerActs PROVE TabsStep
  OBVIOUS
<1>1. srv \in SrvRecords /\ srv.queue # <<>>
  BY DEF TabsInv, Sound, ServerActs
<1>2. PICK command \in Lines : command = Head(srv.queue)
  BY <1>1, QueueMoves
<1>3. PICK q \in Seq(Lines) : q = Tail(srv.queue)
  BY <1>1, QueueMoves
<1>4. CASE command[1] = "JOIN"
  <2>1. command[2] \in Channels
    BY <1>4 DEF Lines
  <2>2. ServerJoins(command[2])
    BY <1>2, <1>4 DEF ServerActs
  <2> QED BY <1>1, <2>1, <2>2, ServerJoinsKeeps
<1>5. CASE command[1] = "PART"
  <2>1. IF command[2] \in srv.in THEN ServerRemovesUs(command[2], q)
        ELSE srv' = [srv EXCEPT !.queue = Tail(@)] /\ UNCHANGED me /\ tabs' = Noted(tabs, 0)
    BY <1>2, <1>3, <1>5 DEF ServerActs
  <2>2. CASE command[2] \in srv.in
    <3>1. command[2] \in Channels
      BY <1>1, <2>2, SrvFields
    <3> QED BY <2>1, <2>2, <3>1, RemovesUsKeeps
  <2>3. CASE command[2] \notin srv.in
    BY <1>1, <2>1, <2>3, DoneKeeps
  <2> QED BY <2>2, <2>3
<1>6. CASE command[1] # "JOIN" /\ command[1] # "PART"
  <2>1. PICK new \in Names : new = command[2]
    BY <1>6 DEF Lines
  <2>2. PICK done : done = [srv EXCEPT !.queue = Tail(@)]
    OBVIOUS
  <2>3. IF new = srv.nick THEN srv' = done /\ UNCHANGED <<tabs, me>>
        ELSE IF Taken(new) THEN srv' = done /\ UNCHANGED me /\ tabs' = Noted(tabs, 0)
        ELSE ServerRenames([done EXCEPT !.nick = new], srv.nick, new)
    BY <1>2, <1>6, <2>1, <2>2 DEF ServerActs
  <2>4. CASE new = srv.nick \/ Taken(new)
    BY <1>1, <2>2, <2>3, <2>4, DoneKeeps
  <2>5. CASE ~(new = srv.nick \/ Taken(new))
    <3>1. PICK s : s = [done EXCEPT !.nick = new]
      OBVIOUS
    <3>2. PICK old : old = srv.nick
      OBVIOUS
    <3>3. new \in Nicks /\ old \in Nicks
      BY <1>1, <3>2, SrvFields DEF Nicks
    <3>4. done = SetLines(srv, q) /\ s = SetKnown(done, new)
      BY <1>3, <2>2, <3>1 DEF SetLines, SetKnown
    <3>5. /\ done \in SrvRecords /\ done.nick = srv.nick /\ done.in = srv.in
          /\ done.queue = q /\ done.members = srv.members /\ done.aware = srv.aware
      BY <1>1, <3>4, LinesSet
    <3>6. /\ s \in SrvRecords /\ s.nick = new /\ s.in = done.in
          /\ s.queue = done.queue /\ s.members = done.members /\ s.aware = done.aware
      BY <3>3, <3>4, <3>5, KnownSet
    <3>7. ServerRenames(s, old, new)
      BY <2>3, <2>5, <3>1, <3>2
    <3> QED BY <3>3, <3>5, <3>6, <3>7, RenamesKeeps
  <2> QED BY <2>4, <2>5
<1> QED BY <1>4, <1>5, <1>6

----------------------------------------------------------------------------
(* The theorems *)

LEMMA TabsNextKeeps ==
    TabsInv /\ [TabsNext]_tabVars => TabsInv' /\ (ShownTabStays \/ UNCHANGED tabVars)
<1> SUFFICES ASSUME TabsInv, [TabsNext]_tabVars
             PROVE  TabsInv' /\ (ShownTabStays \/ UNCHANGED tabVars)
  OBVIOUS
<1>1. CASE UNCHANGED tabVars
  BY <1>1 DEF tabVars, TabsInv
<1>2. TabsStep => ShownTabStays
  <2>1. Whole(tabs)
    BY DEF TabsInv, Sound
  <2>2. tabs.count \in Int
    BY <2>1, ActiveInSlots
  <2>3. TabsInv' => tabs'.count \in Int
    <3>1. PICK u : u = tabs'
      OBVIOUS
    <3>2. TabsInv' => Whole(u)
      BY <3>1 DEF TabsInv, Sound
    <3>3. Whole(u) => u.count \in Int
      BY ActiveInSlots
    <3> QED BY <3>1, <3>2, <3>3
  <2> QED BY <2>2, <2>3 DEF TabsStep, ShownTabStays
<1>3. CASE TabsNext
  <2>1. CASE CloseTab
    BY <2>1, CloseTabKeeps
  <2>2. CASE Connect \/ Offline \/ CommandJoin \/ CommandPart \/ CommandNick
    BY <2>2, <1>2, ConnectKeeps, OfflineKeeps, JoinKeeps, PartKeeps, NickKeeps DEF TabsStep
  <2>3. CASE CommandQuery \/ CommandMessage \/ CommandClose \/ SwitchTab \/ MessageComes
    BY <2>3, <1>2, QueryKeeps, MessageKeeps, CloseKeeps, SwitchTabKeeps, TalkKeeps DEF TabsStep
  <2>4. CASE ServerActs \/ PeerJoins \/ PeerLeaves \/ PeerQuits \/ PeerRenames \/ KickedOut
    BY <2>4, <1>2, ServerActsKeeps, PeerJoinsKeeps, PeerLeavesKeeps, PeerQuitsKeeps,
       PeerRenamesKeeps, KickedKeeps DEF TabsStep
  <2> QED BY <1>3, <2>1, <2>2, <2>3, <2>4 DEF TabsNext
<1> QED BY <1>1, <1>2, <1>3

\* The invariant of the tabs, the roster and the server's side.
THEOREM TabsInvariance == TabsSpec => []TabsInv
<1>1. TabsInit => TabsInv
  BY TabsInitially
<1>2. TabsInv /\ [TabsNext]_tabVars => TabsInv'
  BY TabsNextKeeps
<1> QED BY <1>1, <1>2, PTL DEF TabsSpec

\* What the invariant says in the model's own words.
LEMMA TabsInvMeans == TabsInv => TabSafety
<1> SUFFICES ASSUME TabsInv PROVE TabSafety
  OBVIOUS
<1>1. Whole(tabs) /\ Distinct(me.roster) /\ Matches(tabs, me, srv) /\ me \in MeRecords
  BY DEF TabsInv, Sound
<1>2. TabsAreWhole
  <2>1. tabs.order \in [Slots -> Slots] /\ tabs.count \in Int
    BY <1>1, TabFields, ActiveInSlots DEF Whole
  <2>2. {tabs.order[k] : k \in Slots} = Slots
    BY <1>1, <2>1 DEF Whole
  <2>3. \A k \in 2..(Buffers - 1) : k \in Slots /\ k >= 2
    BY TabsAssumption DEF Slots
  <2> QED BY <1>1, <2>2, <2>3 DEF Whole, TabsAreWhole, KindAt, At, CHANNEL
<1>3. {n.name : n \in Range(me.roster)} = NamesOf(me.roster)
  BY DEF Range, NamesOf
<1>4. RosterFollows
  BY <1>1, <1>3 DEF RosterFollows, Distinct, Matches
<1> QED BY <1>2, <1>4 DEF TabSafety

\* The tabs stay whole, and the roster is the channel's list of members, for
\* any number of tabs, of places in the roster, of names and of channels.
THEOREM TabsAreSafe == TabsSpec => []TabSafety
BY TabsInvariance, TabsInvMeans, PTL

\* Closing a chat never takes another tab off the screen.
THEOREM TabsStayShown == TabsSpec => [][ShownTabStays]_tabVars
<1>1. TabsInv /\ [TabsNext]_tabVars => [ShownTabStays]_tabVars
  BY TabsNextKeeps
<1> QED BY <1>1, TabsInvariance, PTL DEF TabsSpec
=============================================================================
