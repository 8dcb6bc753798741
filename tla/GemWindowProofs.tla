--------------------------- MODULE GemWindowProofs ---------------------------
(***************************************************************************)
(* The window manager, for any number of handles, any pool of rectangles,  *)
(* any screen and any rectangles the programs ask for.                     *)
(*                                                                         *)
(* TreeSafety says where the lists of visible rectangles lie: no two       *)
(* pieces on a cell, an open window's pieces inside it and under none      *)
(* above, every cell of the screen on some list.  It is not inductive: the *)
(* next step may open, move or close any window, so one must know where    *)
(* the lists come from.  IInv says that a rebuild would change nothing     *)
(* (Settled), unless the last one ran out of rectangles, and that the tree *)
(* and the frames are what a rebuild expects (Good).                       *)
(*                                                                         *)
(* The proof has three layers.  Geometry: a rectangle that is cut leaves   *)
(* pieces that are apart and cover just the cells outside the occluder     *)
(* (Cells), so a list that is cut by all windows above covers just the     *)
(* cells under none of them.  Rebuild: whatever the lists were, the result *)
(* depends on order and frames alone and takes from the pool what it puts  *)
(* on lists (Held).  Steps: each is Steady (lists and arrangement stay),   *)
(* Arranged (a new arrangement, rebuilt) or Reverted (the rebuild ran out  *)
(* and the old arrangement is rebuilt), and each property of steps follows *)
(* from the kind of step.                                                  *)
(*                                                                         *)
(* The loops over lists are recursive functions (Along).  What one turn    *)
(* keeps, all turns keep (Turns, GemFifoProofs).                           *)
(***************************************************************************)
EXTENDS GemWindow, GemFifoProofs

----------------------------------------------------------------------------
(* The invariant *)

RectType == [x : Int, y : Int, w : Int, h : Int]
Lists == {Root} \cup Handles

Gadgets == {"none", "WORK", "FRAME", "SIZER", "NAME", "CLOSER", "FULLER", "UPARROW",
            "DNARROW", "LFARROW", "RTARROW", "VSLIDE", "HSLIDE", "VELEV", "HELEV"}

Wins == [owner : Clients \cup {NONE}, kind : Kinds \cup {{}}, open : BOOLEAN,
         broken : BOOLEAN, outer : RectType, work : RectType]

Controls == [state : Gestures, handle : Handles \cup {NONE}, gadget : Gadgets,
             x : Int, y : Int, start : RectType]

Managers == [win : [Handles -> Wins], desk : Clients \cup {NONE}, order : Seq(Handles),
             top : Lists, pieces : [Lists -> Seq(RectType)], next : [Lists -> Nat],
             free : Nat, short : BOOLEAN, control : Controls]

\* The rectangles of the pool that are on the lists.
Held(pieces) == Along([h \in Handles |-> h], LAMBDA n, h : n + Len(pieces[h]), Len(pieces[Root]))

Whole(m) == m.free + Held(m.pieces) = RectCount

\* The windows in the order are the open ones, and the last of them is the top.
Tree(m) ==
    /\ NoRepeats(m.order)
    /\ \A h \in Handles : Listed(m.order, h) <=> m.win[h].open
    /\ m.top = IF m.order = <<>> THEN Root ELSE Last(m.order)

\* An open window has an owner and a rectangle it may have; a closed one no pieces.
Framed(m) ==
    \A h \in Handles :
        IF m.win[h].open
        THEN /\ m.win[h].owner # NONE /\ PublicRect(m.win[h].kind, m.win[h].outer)
             /\ m.win[h].work = WorkRect(m.win[h].kind, m.win[h].outer)
        ELSE m.pieces[h] = <<>>

\* A gesture is on an open window, and a drag began where that could be.
Controlled(m) ==
    m.control.state \notin {"IDLE", "IGNORE"} =>
        /\ m.control.handle \in Handles /\ m.win[m.control.handle].open
        /\ m.control.state \in {"MOVE", "SIZE"} =>
              PublicRect(m.win[m.control.handle].kind, m.control.start)

\* The lists are what a rebuild makes of the arrangement.
Settled(m) ==
    LET r == Rebuild(m)
    IN  ~r.short /\ r.pieces = m.pieces /\ r.free = m.free /\ r.win = m.win

Good(m) ==
    m \in Managers /\ Whole(m) /\ Tree(m) /\ Framed(m) /\ Controlled(m)

\* What every step keeps: unless the pool ran out, a rebuild would change nothing.
Fine(m) == Good(m) /\ (~m.short => Settled(m))

IInv == Fine(wm)

----------------------------------------------------------------------------
(* Cells *)

\* The cell <<u, v>> lies on a rectangle, and on some piece of a list.
On(r, u, v) == r.x <= u /\ u < Right(r) /\ r.y <= v /\ v < Bottom(r)
OnSome(list, u, v) == \E i \in DOMAIN list : On(list[i], u, v)

\* No cell lies on two pieces.
Disjoint(a, b) == \A u, v \in Int : ~(On(a, u, v) /\ On(b, u, v))
Apart(list) == \A i, j \in DOMAIN list : i # j => Disjoint(list[i], list[j])

\* No rectangle has a cell that is not a pair of numbers.
LEMMA CellsAre ==
    ASSUME NEW r \in RectType
    PROVE  /\ \A u, v \in Int : <<u, v>> \in Cells(r) <=> On(r, u, v)
           /\ \A c \in Cells(r) : c[1] \in Int /\ c[2] \in Int /\ c = <<c[1], c[2]>>
<1>1. r.x \in Int /\ r.y \in Int /\ Right(r) \in Int /\ Bottom(r) \in Int
  BY DEF RectType, Right, Bottom
<1>2. Cells(r) = {<<x, y>> : x \in r.x .. Right(r) - 1, y \in r.y .. Bottom(r) - 1}
  BY DEF Cells
<1>3. ASSUME NEW u \in Int, NEW v \in Int
      PROVE  <<u, v>> \in Cells(r) <=> On(r, u, v)
  <2>1. <<u, v>> \in Cells(r) <=> u \in r.x .. Right(r) - 1 /\ v \in r.y .. Bottom(r) - 1
    BY <1>2
  <2> QED BY <1>1, <2>1 DEF On
<1>4. ASSUME NEW c \in Cells(r) PROVE c[1] \in Int /\ c[2] \in Int /\ c = <<c[1], c[2]>>
  <2>1. PICK x \in r.x .. Right(r) - 1, y \in r.y .. Bottom(r) - 1 : c = <<x, y>>
    BY <1>2
  <2> QED BY <1>1, <2>1
<1> QED BY <1>3, <1>4

\* What lies between two corners.
LEMMA CornersAre ==
    ASSUME NEW l \in Int, NEW t \in Int, NEW r \in Int, NEW b \in Int
    PROVE  /\ Corners(l, t, r, b) \in RectType
           /\ \A u, v \in Int : On(Corners(l, t, r, b), u, v) <=> l <= u /\ u < r /\ t <= v /\ v < b
<1>1. CASE r <= l \/ b <= t
  <2>1. Corners(l, t, r, b) = [x |-> 0, y |-> 0, w |-> 0, h |-> 0]
    BY <1>1 DEF Corners, Zero, Rect
  <2> QED BY <1>1, <2>1 DEF RectType, On, Right, Bottom
<1>2. CASE ~(r <= l) /\ ~(b <= t)
  <2>1. Corners(l, t, r, b) = [x |-> l, y |-> t, w |-> r - l, h |-> b - t]
    BY <1>2 DEF Corners, Rect
  <2> QED BY <1>2, <2>1 DEF RectType, On, Right, Bottom
<1> QED BY <1>1, <1>2

\* An intersection has the cells of both, and is Zero only if there are none.
LEMMA MeetIs ==
    ASSUME NEW a \in RectType, NEW b \in RectType
    PROVE  /\ Meet(a, b) \in RectType
           /\ \A u, v \in Int : On(Meet(a, b), u, v) <=> On(a, u, v) /\ On(b, u, v)
           /\ Meet(a, b) = Zero <=> Disjoint(a, b)
           /\ Meet(a, b) # Zero => a.w > 0 /\ a.h > 0 /\ b.w > 0 /\ b.h > 0
                  /\ a.x < Right(b) /\ b.x < Right(a) /\ a.y < Bottom(b) /\ b.y < Bottom(a)
<1>1. /\ a.x \in Int /\ a.y \in Int /\ a.w \in Int /\ a.h \in Int
      /\ b.x \in Int /\ b.y \in Int /\ b.w \in Int /\ b.h \in Int
      /\ Right(a) = a.x + a.w /\ Bottom(a) = a.y + a.h
      /\ Right(b) = b.x + b.w /\ Bottom(b) = b.y + b.h
  BY DEF RectType, Right, Bottom
<1>2. Zero \in RectType /\ \A u, v \in Int : ~On(Zero, u, v)
  BY DEF RectType, Zero, Rect, On, Right, Bottom
<1>3. CASE Empty(a) \/ Empty(b)
  <2>1. Meet(a, b) = Zero
    BY <1>3 DEF Meet
  <2>2. \A u, v \in Int : ~(On(a, u, v) /\ On(b, u, v))
    BY <1>1, <1>3 DEF Empty, On
  <2> QED BY <1>2, <2>1, <2>2 DEF Disjoint
<1>4. CASE ~Empty(a) /\ ~Empty(b)
  <2>1. PICK l, t, r, q \in Int :
           /\ l = Greater(a.x, b.x) /\ t = Greater(a.y, b.y)
           /\ r = Lesser(Right(a), Right(b)) /\ q = Lesser(Bottom(a), Bottom(b))
    BY <1>1 DEF Greater, Lesser
  <2>2. Meet(a, b) = Corners(l, t, r, q)
    BY <1>4, <2>1 DEF Meet
  <2>3. /\ Meet(a, b) \in RectType
        /\ \A u, v \in Int : On(Meet(a, b), u, v) <=> l <= u /\ u < r /\ t <= v /\ v < q
    <3>1. /\ Corners(l, t, r, q) \in RectType
          /\ \A u, v \in Int :
                On(Corners(l, t, r, q), u, v) <=> l <= u /\ u < r /\ t <= v /\ v < q
      BY CornersAre
    <3> QED BY <2>2, <3>1
  <2>4. /\ l >= a.x /\ l >= b.x /\ (l = a.x \/ l = b.x) /\ t >= a.y /\ t >= b.y /\ (t = a.y \/ t = b.y)
        /\ r <= Right(a) /\ r <= Right(b) /\ (r = Right(a) \/ r = Right(b))
        /\ q <= Bottom(a) /\ q <= Bottom(b) /\ (q = Bottom(a) \/ q = Bottom(b))
    BY <1>1, <2>1 DEF Greater, Lesser
  <2>5. \A u, v \in Int : On(Meet(a, b), u, v) <=> On(a, u, v) /\ On(b, u, v)
    BY <1>1, <2>1, <2>3, <2>4 DEF On
  <2>6. CASE r <= l \/ q <= t
    <3>1. Meet(a, b) = Zero
      BY <2>2, <2>6 DEF Corners
    <3> QED BY <1>2, <2>3, <2>5, <3>1 DEF Disjoint
  <2>7. CASE ~(r <= l) /\ ~(q <= t)
    <3>1. On(Meet(a, b), l, t)
      BY <2>1, <2>3, <2>7
    <3>2. Meet(a, b) # Zero
      BY <1>2, <2>1, <3>1
    <3>3. ~Disjoint(a, b)
      BY <2>1, <2>5, <3>1 DEF Disjoint
    <3>4. a.w > 0 /\ a.h > 0 /\ b.w > 0 /\ b.h > 0
      BY <1>1, <1>4 DEF Empty
    <3>5. a.x < Right(b) /\ b.x < Right(a) /\ a.y < Bottom(b) /\ b.y < Bottom(a)
      BY <1>1, <2>1, <2>4, <2>7
    <3> QED BY <2>3, <2>5, <3>2, <3>3, <3>4, <3>5
  <2> QED BY <2>6, <2>7
<1> QED BY <1>3, <1>4

\* The hull of two rectangles has the cells of both.
LEMMA HullHas ==
    ASSUME NEW a \in RectType, NEW b \in RectType
    PROVE  /\ Hull(a, b) \in RectType
           /\ \A u, v \in Int : On(a, u, v) \/ On(b, u, v) => On(Hull(a, b), u, v)
<1>1. /\ a.x \in Int /\ a.y \in Int /\ a.w \in Int /\ a.h \in Int
      /\ b.x \in Int /\ b.y \in Int /\ b.w \in Int /\ b.h \in Int
      /\ Right(a) = a.x + a.w /\ Bottom(a) = a.y + a.h
      /\ Right(b) = b.x + b.w /\ Bottom(b) = b.y + b.h
  BY DEF RectType, Right, Bottom
<1>2. CASE Empty(a) \/ Empty(b)
  <2>1. \A r \in {a, b} : Empty(r) => \A u, v \in Int : ~On(r, u, v)
    BY <1>1 DEF Empty, On
  <2> QED BY <1>2, <2>1 DEF Hull
<1>3. CASE ~Empty(a) /\ ~Empty(b)
  <2>1. PICK l, t, r, q \in Int :
           /\ l = Lesser(a.x, b.x) /\ t = Lesser(a.y, b.y)
           /\ r = Greater(Right(a), Right(b)) /\ q = Greater(Bottom(a), Bottom(b))
    BY <1>1 DEF Greater, Lesser
  <2>2. Hull(a, b) = Corners(l, t, r, q)
    BY <1>3, <2>1 DEF Hull
  <2>3. /\ l <= a.x /\ l <= b.x /\ t <= a.y /\ t <= b.y
        /\ r >= Right(a) /\ r >= Right(b) /\ q >= Bottom(a) /\ q >= Bottom(b)
    BY <1>1, <2>1 DEF Greater, Lesser
  <2>4. /\ Hull(a, b) \in RectType
        /\ \A u, v \in Int : On(Hull(a, b), u, v) <=> l <= u /\ u < r /\ t <= v /\ v < q
    <3>1. /\ Corners(l, t, r, q) \in RectType
          /\ \A u, v \in Int :
                On(Corners(l, t, r, q), u, v) <=> l <= u /\ u < r /\ t <= v /\ v < q
      BY CornersAre
    <3> QED BY <2>2, <3>1
  <2> QED BY <1>1, <2>1, <2>3, <2>4 DEF On
<1> QED BY <1>2, <1>3

----------------------------------------------------------------------------
(* Pieces *)

\* Two lists behind one another show the cells of both.
LEMMA ConcatOn ==
    ASSUME NEW s \in Seq(RectType), NEW t \in Seq(RectType)
    PROVE  /\ s \o t \in Seq(RectType) /\ Len(s \o t) = Len(s) + Len(t)
           /\ \A u, v \in Int : OnSome(s \o t, u, v) <=> OnSome(s, u, v) \/ OnSome(t, u, v)
           /\ /\ Apart(s) /\ Apart(t)
              /\ \A u, v \in Int : ~(OnSome(s, u, v) /\ OnSome(t, u, v))
              => Apart(s \o t)
<1> DEFINE n == Len(s)
           k == Len(t)
           both == s \o t
<1>1. n \in Nat /\ k \in Nat /\ DOMAIN s = 1 .. n /\ DOMAIN t = 1 .. k
  BY LenProperties
<1>2. /\ both \in Seq(RectType) /\ Len(both) = n + k
      /\ \A i \in 1 .. n + k : both[i] = IF i <= n THEN s[i] ELSE t[i - n]
  BY ConcatProperties
<1>3. DOMAIN both = 1 .. n + k
  BY <1>2, LenProperties
<1> HIDE DEF n, k, both
<1>4. \A i \in 1 .. n : i \in 1 .. n + k /\ both[i] = s[i]
  BY <1>1, <1>2
<1>5. ASSUME NEW j \in 1 .. k PROVE n + j \in 1 .. n + k /\ both[n + j] = t[j]
  <2>1. n + j \in 1 .. n + k /\ ~(n + j <= n) /\ (n + j) - n = j
    BY <1>1
  <2>2. both[n + j] = t[(n + j) - n]
    BY <1>2, <2>1
  <2> QED BY <2>1, <2>2
<1>6. ASSUME NEW i \in 1 .. n + k
      PROVE  \/ i \in 1 .. n /\ both[i] = s[i]
             \/ i - n \in 1 .. k /\ i = n + (i - n) /\ both[i] = t[i - n]
  <2>1. CASE i <= n
    BY <1>1, <1>2, <2>1
  <2>2. CASE ~(i <= n)
    <3>1. i - n \in 1 .. k /\ i = n + (i - n)
      BY <1>1, <2>2
    <3> QED BY <1>2, <2>2, <3>1
  <2> QED BY <2>1, <2>2
<1>7. ASSUME NEW u \in Int, NEW v \in Int
      PROVE  OnSome(both, u, v) <=> OnSome(s, u, v) \/ OnSome(t, u, v)
  <2>1. OnSome(both, u, v) => OnSome(s, u, v) \/ OnSome(t, u, v)
    BY <1>1, <1>3, <1>6 DEF OnSome
  <2>2. OnSome(s, u, v) => OnSome(both, u, v)
    BY <1>1, <1>3, <1>4 DEF OnSome
  <2>3. OnSome(t, u, v) => OnSome(both, u, v)
    BY <1>1, <1>3, <1>5 DEF OnSome
  <2> QED BY <2>1, <2>2, <2>3
<1>8. ASSUME Apart(s), Apart(t), \A u, v \in Int : ~(OnSome(s, u, v) /\ OnSome(t, u, v))
      PROVE  Apart(both)
  <2>1. ASSUME NEW i \in 1 .. n + k, NEW j \in 1 .. n + k, i # j
        PROVE  Disjoint(both[i], both[j])
    <3>1. CASE i \in 1 .. n /\ both[i] = s[i] /\ j \in 1 .. n /\ both[j] = s[j]
      BY <1>1, <1>8, <2>1, <3>1 DEF Apart
    <3>2. CASE /\ i - n \in 1 .. k /\ i = n + (i - n) /\ both[i] = t[i - n]
               /\ j - n \in 1 .. k /\ j = n + (j - n) /\ both[j] = t[j - n]
      <4>1. i - n # j - n
        BY <2>1, <3>2
      <4> QED BY <1>1, <1>8, <3>2, <4>1 DEF Apart
    <3>3. CASE /\ i \in 1 .. n /\ both[i] = s[i]
               /\ j - n \in 1 .. k /\ both[j] = t[j - n]
      BY <1>1, <1>8, <3>3 DEF Disjoint, OnSome
    <3>4. CASE /\ j \in 1 .. n /\ both[j] = s[j]
               /\ i - n \in 1 .. k /\ both[i] = t[i - n]
      BY <1>1, <1>8, <3>4 DEF Disjoint, OnSome
    <3> QED BY <1>6, <3>1, <3>2, <3>3, <3>4
  <2> QED BY <1>3, <2>1 DEF Apart
<1> QED BY <1>2, <1>7, <1>8 DEF both, n, k

\* A list of one rectangle, and a list of none.
LEMMA SingleOn ==
    ASSUME NEW r \in RectType
    PROVE  /\ <<r>> \in Seq(RectType) /\ Len(<<r>>) = 1 /\ Apart(<<r>>)
           /\ \A u, v \in Int : OnSome(<<r>>, u, v) <=> On(r, u, v)
           /\ <<>> \in Seq(RectType) /\ Apart(<<>>) /\ \A u, v \in Int : ~OnSome(<<>>, u, v)
<1>1. <<r>> \in Seq(RectType) /\ Len(<<r>>) = 1 /\ <<r>>[1] = r /\ DOMAIN <<r>> = {1}
  OBVIOUS
<1>2. DOMAIN <<>> = {} /\ <<>> \in Seq(RectType)
  OBVIOUS
<1> QED BY <1>1, <1>2 DEF Apart, OnSome

LEMMA PieceOn ==
    ASSUME NEW r \in RectType
    PROVE  /\ Piece(r) \in Seq(RectType) /\ Apart(Piece(r))
           /\ \A u, v \in Int : OnSome(Piece(r), u, v) <=> On(r, u, v)
<1>1. r.x \in Int /\ r.y \in Int /\ r.w \in Int /\ r.h \in Int
  BY DEF RectType
<1>2. Empty(r) => \A u, v \in Int : ~On(r, u, v)
  BY <1>1 DEF Empty, On, Right, Bottom
<1> QED BY <1>2, SingleOn DEF Piece

\* What an occluder leaves of a piece is what it does not hide of it.
LEMMA CutIs ==
    ASSUME NEW old \in RectType, NEW occluder \in RectType
    PROVE  /\ Cut(old, occluder) \in Seq(RectType) /\ Apart(Cut(old, occluder))
           /\ \A u, v \in Int : OnSome(Cut(old, occluder), u, v)
                                <=> On(old, u, v) /\ ~On(occluder, u, v)
<1>1. /\ old.x \in Int /\ old.y \in Int /\ old.w \in Int /\ old.h \in Int
      /\ occluder.x \in Int /\ occluder.y \in Int /\ occluder.w \in Int /\ occluder.h \in Int
      /\ Right(old) = old.x + old.w /\ Bottom(old) = old.y + old.h
      /\ Right(occluder) = occluder.x + occluder.w /\ Bottom(occluder) = occluder.y + occluder.h
  BY DEF RectType, Right, Bottom
<1>2. CASE Meet(old, occluder) = Zero
  <2>1. Cut(old, occluder) = <<old>>
    BY <1>2 DEF Cut
  <2>2. \A u, v \in Int : ~(On(old, u, v) /\ On(occluder, u, v))
    BY <1>2, MeetIs DEF Disjoint
  <2> QED BY <2>1, <2>2, SingleOn
<1>3. CASE Meet(old, occluder) # Zero
  <2>1. PICK upper, lower \in Int :
           /\ upper = Greater(old.y, occluder.y)
           /\ lower = Lesser(Bottom(old), Bottom(occluder))
    BY <1>1 DEF Greater, Lesser
  <2>2. PICK above, left, right, below \in RectType :
           /\ above = Corners(old.x, old.y, Right(old), occluder.y)
           /\ left = Corners(old.x, upper, occluder.x, lower)
           /\ right = Corners(Right(occluder), upper, Right(old), lower)
           /\ below = Corners(old.x, Bottom(occluder), Right(old), Bottom(old))
    <3>1. /\ Right(old) \in Int /\ Bottom(old) \in Int
          /\ Right(occluder) \in Int /\ Bottom(occluder) \in Int
      BY <1>1
    <3>2. /\ Corners(old.x, old.y, Right(old), occluder.y) \in RectType
          /\ Corners(old.x, upper, occluder.x, lower) \in RectType
          /\ Corners(Right(occluder), upper, Right(old), lower) \in RectType
          /\ Corners(old.x, Bottom(occluder), Right(old), Bottom(old)) \in RectType
      BY <1>1, <2>1, <3>1, CornersAre
    <3> QED BY <3>2
  <2>3. Cut(old, occluder) = Piece(above) \o Piece(left) \o Piece(right) \o Piece(below)
    BY <1>3, <2>1, <2>2 DEF Cut
  <2>4. ASSUME NEW u \in Int, NEW v \in Int
        PROVE  /\ On(above, u, v) <=> old.x <= u /\ u < Right(old) /\ old.y <= v /\ v < occluder.y
               /\ On(left, u, v) <=> old.x <= u /\ u < occluder.x /\ upper <= v /\ v < lower
               /\ On(right, u, v) <=> Right(occluder) <= u /\ u < Right(old) /\ upper <= v /\ v < lower
               /\ On(below, u, v) <=> old.x <= u /\ u < Right(old) /\ Bottom(occluder) <= v /\ v < Bottom(old)
    <3>1. /\ Right(old) \in Int /\ Bottom(old) \in Int
          /\ Right(occluder) \in Int /\ Bottom(occluder) \in Int
      BY <1>1
    <3>2. On(above, u, v) <=> old.x <= u /\ u < Right(old) /\ old.y <= v /\ v < occluder.y
      BY ONLY <1>1, <2>2, <3>1, u \in Int, v \in Int, CornersAre
    <3>3. On(left, u, v) <=> old.x <= u /\ u < occluder.x /\ upper <= v /\ v < lower
      <4>1. \A x, y \in Int : On(Corners(old.x, upper, occluder.x, lower), x, y)
                               <=> old.x <= x /\ x < occluder.x /\ upper <= y /\ y < lower
        BY ONLY <1>1, upper \in Int, lower \in Int, CornersAre
      <4> QED BY <2>2, <4>1
    <3>4. On(right, u, v) <=> Right(occluder) <= u /\ u < Right(old) /\ upper <= v /\ v < lower
      BY ONLY <1>1, <2>2, <3>1, u \in Int, v \in Int, upper \in Int, lower \in Int, CornersAre
    <3>5. On(below, u, v) <=> old.x <= u /\ u < Right(old) /\ Bottom(occluder) <= v /\ v < Bottom(old)
      BY ONLY <1>1, <2>2, <3>1, u \in Int, v \in Int, CornersAre
    <3> QED BY <3>2, <3>3, <3>4, <3>5
  <2>5. /\ old.w > 0 /\ old.h > 0 /\ occluder.w > 0 /\ occluder.h > 0
        /\ old.x < Right(occluder) /\ occluder.x < Right(old)
        /\ old.y < Bottom(occluder) /\ occluder.y < Bottom(old)
    BY <1>3, MeetIs
  <2>6. /\ upper >= old.y /\ upper >= occluder.y /\ (upper = old.y \/ upper = occluder.y)
        /\ lower <= Bottom(old) /\ lower <= Bottom(occluder)
        /\ (lower = Bottom(old) \/ lower = Bottom(occluder))
    BY <1>1, <2>1 DEF Greater, Lesser
  <2>7. ASSUME NEW u \in Int, NEW v \in Int
        PROVE  On(above, u, v) \/ On(left, u, v) \/ On(right, u, v) \/ On(below, u, v)
               <=> On(old, u, v) /\ ~On(occluder, u, v)
    BY <1>1, <2>1, <2>4, <2>5, <2>6 DEF On
  <2>8. ASSUME NEW u \in Int, NEW v \in Int
        PROVE  /\ ~(On(above, u, v) /\ On(left, u, v))
               /\ ~((On(above, u, v) \/ On(left, u, v)) /\ On(right, u, v))
               /\ ~((On(above, u, v) \/ On(left, u, v) \/ On(right, u, v)) /\ On(below, u, v))
    BY <1>1, <2>1, <2>4, <2>5, <2>6
  <2>9. PICK a, l, r, b \in Seq(RectType) :
           a = Piece(above) /\ l = Piece(left) /\ r = Piece(right) /\ b = Piece(below)
    BY <2>2, PieceOn
  <2>10. /\ Apart(a) /\ Apart(l) /\ Apart(r) /\ Apart(b)
         /\ \A u, v \in Int :
               /\ OnSome(a, u, v) <=> On(above, u, v)
               /\ OnSome(l, u, v) <=> On(left, u, v)
               /\ OnSome(r, u, v) <=> On(right, u, v)
               /\ OnSome(b, u, v) <=> On(below, u, v)
    BY <2>2, <2>9, PieceOn
  <2>11. /\ a \o l \in Seq(RectType) /\ Apart(a \o l)
         /\ \A u, v \in Int : OnSome(a \o l, u, v) <=> On(above, u, v) \/ On(left, u, v)
    BY <2>8, <2>9, <2>10, ConcatOn
  <2>12. /\ (a \o l) \o r \in Seq(RectType) /\ Apart((a \o l) \o r)
         /\ \A u, v \in Int : OnSome((a \o l) \o r, u, v)
                              <=> On(above, u, v) \/ On(left, u, v) \/ On(right, u, v)
    BY <2>8, <2>9, <2>10, <2>11, ConcatOn
  <2>13. /\ ((a \o l) \o r) \o b \in Seq(RectType) /\ Apart(((a \o l) \o r) \o b)
         /\ \A u, v \in Int : OnSome(((a \o l) \o r) \o b, u, v)
               <=> On(above, u, v) \/ On(left, u, v) \/ On(right, u, v) \/ On(below, u, v)
    BY <2>8, <2>9, <2>10, <2>12, ConcatOn
  <2>14. Cut(old, occluder) = ((a \o l) \o r) \o b
    BY <2>3, <2>9
  <2> QED BY <2>7, <2>13, <2>14
<1> QED BY <1>2, <1>3

----------------------------------------------------------------------------
(* The loops *)
\* The loop of BreakList over the pieces of a list.
LEMMA BreakTurns ==
    ASSUME NEW a, NEW occluder, a.ok, NEW list, list = a.list,
           NEW s, s = [a EXCEPT !.list = <<>>], NEW k \in Nat, k = Len(list)
    PROVE  \E after :
              /\ after = [n \in 0 .. k |-> IF n = 0 THEN s ELSE BreakOne(after[n - 1], list[n], occluder)]
              /\ BreakList(a, occluder) = after[k]
<1> DEFINE Turn(f, n) == IF n = 0 THEN s ELSE BreakOne(f[n - 1], list[n], occluder)
           Is(f, t) == f = [n \in 0 .. t |-> Turn(f, n)]
           P == {t \in 0 .. k : \E f : Is(f, t)}
<1>1. 0 \in P
  <2>1. Is([n \in 0 .. 0 |-> s], 0)
    OBVIOUS
  <2>2. 0 \in 0 .. k
    OBVIOUS
  <2> HIDE DEF Is
  <2> QED BY <2>1, <2>2
<1>2. ASSUME NEW t \in 1 .. k, t - 1 \in P PROVE t \in P
  <2>1. PICK f : Is(f, t - 1)
    BY <1>2
  <2> DEFINE g == [n \in 0 .. t |-> IF n = t THEN Turn(f, t) ELSE f[n]]
  <2>2. Is(g, t)
    BY ONLY <2>1, t \in 1 .. k, k \in Nat
  <2>3. t \in 0 .. k
    OBVIOUS
  <2> HIDE DEF Is, g
  <2> QED BY <2>2, <2>3
<1>3. k \in P
  <2> HIDE DEF P
  <2> QED BY <1>1, <1>2, Turns
<1>4. PICK f : Is(f, k)
  BY <1>3
<1>5. BreakList(a, occluder) = (CHOOSE g : Is(g, k))[k]
  BY DEF BreakList, Along
<1>6. Is(CHOOSE g : Is(g, k), k)
  <2> HIDE DEF Is
  <2> QED BY <1>4
<1> QED BY <1>5, <1>6

Cuttings == [list : Seq(RectType), free : Nat, ok : BOOLEAN]

\* Each piece that is cut either is replaced by what is left of it, or the pool is short.
LEMMA BreakOneIs ==
    ASSUME NEW a \in Cuttings, NEW old \in RectType, NEW occluder \in RectType
    PROVE  /\ BreakOne(a, old, occluder) \in Cuttings
           /\ Len(BreakOne(a, old, occluder).list) + BreakOne(a, old, occluder).free
                 = Len(a.list) + a.free + 1
           /\ BreakOne(a, old, occluder).ok =>
                 a.ok /\ BreakOne(a, old, occluder).list = a.list \o Cut(old, occluder)
<1> DEFINE b == BreakOne(a, old, occluder)
<1>1. PICK new \in Seq(RectType) : new = Cut(old, occluder)
  BY CutIs
<1>2. /\ a.list \in Seq(RectType) /\ a.free \in Nat /\ a.ok \in BOOLEAN
      /\ Len(a.list) \in Nat /\ Len(new) \in Nat
  BY LenProperties DEF Cuttings
<1>3. /\ Append(a.list, old) \in Seq(RectType) /\ Len(Append(a.list, old)) = Len(a.list) + 1
      /\ Append(a.list, old) = a.list \o <<old>>
  BY <1>2, AppendProperties, AppendIsConcat
<1>4. a.list \o new \in Seq(RectType) /\ Len(a.list \o new) = Len(a.list) + Len(new)
  BY <1>1, <1>2, ConcatProperties
<1>5. CASE ~a.ok \/ new = <<old>>
  <2>1. b = [a EXCEPT !.list = Append(@, old)]
    BY <1>1, <1>5 DEF BreakOne
  <2>2. b \in Cuttings /\ b.list = Append(a.list, old) /\ b.free = a.free /\ b.ok = a.ok
    BY <1>3, <2>1 DEF Cuttings
  <2>3. b.ok => b.list = a.list \o Cut(old, occluder)
    BY <1>1, <1>3, <1>5, <2>2
  <2>4. Len(b.list) + b.free = Len(a.list) + a.free + 1
    BY <1>2, <1>3, <2>2
  <2> QED BY <2>2, <2>3, <2>4
<1>6. CASE a.ok /\ new # <<old>> /\ Len(new) > a.free
  <2>1. b = Cutting(Append(a.list, old), a.free, FALSE)
    BY <1>1, <1>6 DEF BreakOne
  <2>2. b \in Cuttings /\ b.list = Append(a.list, old) /\ b.free = a.free /\ ~b.ok
    BY <1>2, <1>3, <2>1 DEF Cuttings, Cutting
  <2>3. Len(b.list) + b.free = Len(a.list) + a.free + 1
    BY <1>2, <1>3, <2>2
  <2> QED BY <2>2, <2>3
<1>7. CASE a.ok /\ new # <<old>> /\ ~(Len(new) > a.free)
  <2>1. b = Cutting(a.list \o new, a.free - Len(new) + 1, TRUE)
    BY <1>1, <1>7 DEF BreakOne
  <2>2. a.free - Len(new) + 1 \in Nat
    BY <1>2, <1>7
  <2>3. b \in Cuttings /\ b.list = a.list \o new /\ b.free = a.free - Len(new) + 1
    BY <1>4, <2>1, <2>2 DEF Cuttings, Cutting
  <2>4. Len(b.list) + b.free = Len(a.list) + a.free + 1
    <3> HIDE DEF b
    <3>1. Len(b.list) = Len(a.list) + Len(new)
      BY <1>4, <2>3
    <3>2. \A p, q, f \in Nat : (p + q) + (f - q + 1) = p + f + 1
      OBVIOUS
    <3>3. (Len(a.list) + Len(new)) + (a.free - Len(new) + 1) = Len(a.list) + a.free + 1
      BY <1>2, <3>2
    <3> QED BY <2>3, <3>1, <3>3
  <2> QED BY <1>1, <1>7, <2>3, <2>4
<1> QED BY <1>2, <1>5, <1>6, <1>7

\* b is what an occluder leaves of the pieces of a.
Broken(a, b, occluder) ==
    /\ b \in Cuttings
    /\ Len(b.list) + b.free = Len(a.list) + a.free
    /\ b.ok =>
          /\ a.ok
          /\ \A u, v \in Int : OnSome(b.list, u, v) <=> OnSome(a.list, u, v) /\ ~On(occluder, u, v)
          /\ Apart(a.list) => Apart(b.list)

LEMMA BreakListIs ==
    ASSUME NEW a \in Cuttings, NEW occluder \in RectType
    PROVE  Broken(a, BreakList(a, occluder), occluder)
<1>1. CASE ~a.ok
  BY <1>1 DEF BreakList, Broken
<1>2. CASE a.ok
  <2>1. PICK list \in Seq(RectType), k \in Nat, s \in Cuttings :
           list = a.list /\ k = Len(list) /\ s = [a EXCEPT !.list = <<>>]
    BY LenProperties, EmptySeq DEF Cuttings
  <2>2. PICK after :
           /\ after = [n \in 0 .. k |-> IF n = 0 THEN s
                                        ELSE BreakOne(after[n - 1], list[n], occluder)]
           /\ BreakList(a, occluder) = after[k]
    BY <1>2, <2>1, BreakTurns
  <2>4. s.list = <<>> /\ s.free = a.free /\ s.ok
    BY <1>2, <2>1 DEF Cuttings
  <2>5. DOMAIN list = 1 .. k /\ \A i \in 1 .. k : list[i] \in RectType
    BY <2>1, LenProperties
  <2> DEFINE Some(n, u, v) == \E i \in 1 .. n : On(list[i], u, v)
             Step(b, n) ==
                /\ b \in Cuttings /\ Len(b.list) + b.free = n + a.free
                /\ b.ok =>
                      /\ \A u, v \in Int : OnSome(b.list, u, v) <=> Some(n, u, v) /\ ~On(occluder, u, v)
                      /\ Apart(list) => Apart(b.list)
             P == {n \in 0 .. k : Step(after[n], n)}
  <2>6. 0 \in P
    <3>1. after[0] = s
      BY <2>2
    <3>2. Len(<<>>) = 0 /\ Apart(<<>>) /\ (\A u, v \in Int : ~OnSome(<<>>, u, v)) /\ a.free \in Nat
      <4>1. Zero \in RectType
        BY DEF Zero, Rect, RectType
      <4> QED BY <4>1, SingleOn DEF Cuttings
    <3>3. Step(s, 0)
      BY <2>1, <2>4, <3>2
    <3>4. 0 \in 0 .. k
      OBVIOUS
    <3> QED BY <3>1, <3>3, <3>4
  <2>7. ASSUME NEW n \in 1 .. k, n - 1 \in P PROVE n \in P
    <3>1. PICK b \in Cuttings, c \in Cuttings : b = after[n - 1] /\ c = after[n]
              /\ c = BreakOne(b, list[n], occluder)
      <4>1. after[n] = BreakOne(after[n - 1], list[n], occluder)
        BY <2>2
      <4>2. after[n - 1] \in Cuttings
        BY <2>7
      <4> QED BY <2>5, <4>1, <4>2, BreakOneIs
    <3>2. Step(b, n - 1)
      BY <2>7, <3>1
    <3>3. PICK new \in Seq(RectType) : new = Cut(list[n], occluder)
      BY <2>5, CutIs
    <3>4. /\ Apart(new)
          /\ \A u, v \in Int : OnSome(new, u, v) <=> On(list[n], u, v) /\ ~On(occluder, u, v)
      BY <2>5, <3>3, CutIs
    <3>5. /\ Len(c.list) + c.free = Len(b.list) + b.free + 1
          /\ c.ok => b.ok /\ c.list = b.list \o new
      <4>1. /\ Len(BreakOne(b, list[n], occluder).list) + BreakOne(b, list[n], occluder).free
                  = Len(b.list) + b.free + 1
            /\ BreakOne(b, list[n], occluder).ok =>
                  b.ok /\ BreakOne(b, list[n], occluder).list = b.list \o Cut(list[n], occluder)
        BY <2>5, BreakOneIs
      <4> QED BY <3>1, <3>3, <4>1
    <3>6. b.list \in Seq(RectType) /\ c.list \in Seq(RectType)
      BY <3>1 DEF Cuttings
    <3>7. ASSUME NEW u \in Int, NEW v \in Int
          PROVE  Some(n, u, v) <=> Some(n - 1, u, v) \/ On(list[n], u, v)
      <4>1. \A i \in 1 .. n : i \in 1 .. n - 1 \/ i = n
        OBVIOUS
      <4>2. 1 .. n - 1 \subseteq 1 .. n /\ n \in 1 .. n
        OBVIOUS
      <4> QED BY <4>1, <4>2
    <3>8. Len(c.list) + c.free = n + a.free
      <4>1. a.free \in Nat
        BY DEF Cuttings
      <4> QED BY <3>2, <3>5, <4>1
    <3>9. ASSUME c.ok
          PROVE  \A u, v \in Int : OnSome(c.list, u, v) <=> Some(n, u, v) /\ ~On(occluder, u, v)
      <4>1. \A u, v \in Int : OnSome(c.list, u, v) <=> OnSome(b.list, u, v) \/ OnSome(new, u, v)
        BY <3>5, <3>6, <3>9, ConcatOn
      <4> QED BY <3>2, <3>4, <3>5, <3>7, <3>9, <4>1
    <3>10. ASSUME c.ok, Apart(list) PROVE Apart(c.list)
      <4>1. ASSUME NEW u \in Int, NEW v \in Int PROVE ~(OnSome(b.list, u, v) /\ OnSome(new, u, v))
        <5>1. ASSUME NEW i \in 1 .. n - 1 PROVE ~(On(list[i], u, v) /\ On(list[n], u, v))
          <6>1. i \in 1 .. k /\ i # n
            OBVIOUS
          <6> QED BY <2>5, <3>10, <6>1 DEF Apart, Disjoint
        <5> QED BY <3>2, <3>4, <3>5, <3>10, <5>1
      <4> HIDE DEF Step
      <4>2. Apart(b.list)
        BY <3>2, <3>5, <3>10 DEF Step
      <4>3. Apart(b.list \o new)
        BY ONLY <3>4, <3>6, <4>1, <4>2, new \in Seq(RectType), ConcatOn
      <4> QED BY <3>5, <3>10, <4>3
    <3>11. Step(c, n)
      BY <3>8, <3>9, <3>10
    <3>12. n \in 0 .. k
      OBVIOUS
    <3> QED BY <3>1, <3>11, <3>12
  <2>8. k \in P
    <3> HIDE DEF P
    <3> QED BY <2>6, <2>7, Turns
  <2>9. \A u, v \in Int : Some(k, u, v) <=> OnSome(list, u, v)
    BY <2>5 DEF OnSome
  <2> QED BY <1>2, <2>1, <2>2, <2>8, <2>9 DEF Broken
<1> QED BY <1>1, <1>2 DEF Cuttings

\* The list of all handles, which the loops over the windows go along.
All == [h \in Handles |-> h]

LEMMA AllHandles ==
    /\ All \in Seq(Handles) /\ Len(All) = LastHandle /\ DOMAIN All = 1 .. LastHandle
    /\ \A n \in 1 .. LastHandle : All[n] = n
<1>1. LastHandle \in Nat /\ Handles = 1 .. LastHandle
  BY ScreenAssumption DEF Handles
<1>2. All \in [1 .. LastHandle -> Handles] /\ \A n \in 1 .. LastHandle : All[n] = n
  BY <1>1 DEF All
<1>3. All \in Seq(Handles)
  BY <1>1, <1>2, SeqDef
<1>4. DOMAIN All = 1 .. Len(All) /\ Len(All) \in Nat
  BY <1>3, LenProperties
<1>5. Len(All) = LastHandle
  BY <1>1, <1>2, <1>4
<1> QED BY <1>1, <1>2, <1>3, <1>5

PieceLists == [Lists -> Seq(RectType)]

\* A number and what a list adds to it.
Plus(n, list) == n + Len(list)

\* The loop of Held over the lists of all windows.
LEMMA HeldTurns ==
    ASSUME NEW pieces, NEW k \in Nat, k = Len(All)
    PROVE  \E after :
              /\ after = [n \in 0 .. k |-> IF n = 0 THEN Len(pieces[Root]) ELSE Plus(after[n - 1], pieces[All[n]])]
              /\ Held(pieces) = after[k]
<1> DEFINE Turn(f, n) == IF n = 0 THEN Len(pieces[Root]) ELSE Plus(f[n - 1], pieces[All[n]])
           Is(f, t) == f = [n \in 0 .. t |-> Turn(f, n)]
           P == {t \in 0 .. k : \E f : Is(f, t)}
<1>1. 0 \in P
  <2>1. Is([n \in 0 .. 0 |-> Len(pieces[Root])], 0)
    OBVIOUS
  <2>2. 0 \in 0 .. k
    OBVIOUS
  <2> HIDE DEF Is
  <2> QED BY <2>1, <2>2
<1>2. ASSUME NEW t \in 1 .. k, t - 1 \in P PROVE t \in P
  <2>1. PICK f : Is(f, t - 1)
    BY <1>2
  <2> DEFINE g == [n \in 0 .. t |-> IF n = t THEN Turn(f, t) ELSE f[n]]
  <2>2. Is(g, t)
    BY ONLY <2>1, t \in 1 .. k, k \in Nat
  <2>3. t \in 0 .. k
    OBVIOUS
  <2> HIDE DEF Is, g
  <2> QED BY <2>2, <2>3
<1>3. k \in P
  <2> HIDE DEF P
  <2> QED BY <1>1, <1>2, Turns
<1>4. PICK f : Is(f, k)
  BY <1>3
<1>5. Held(pieces) = (CHOOSE g : Is(g, k))[k]
  BY DEF Held, Along, Plus, All
<1>6. Is(CHOOSE g : Is(g, k), k)
  <2> HIDE DEF Is
  <2> QED BY <1>4
<1> QED BY <1>5, <1>6

\* The same, along the numbers of the windows.
LEMMA HeldSums ==
    ASSUME NEW p \in PieceLists
    PROVE  \E after \in [0 .. LastHandle -> Nat] :
              /\ after[0] = Len(p[Root])
              /\ \A n \in 1 .. LastHandle :
                    n \in Lists /\ n # Root /\ Len(p[n]) \in Nat /\ after[n] = after[n - 1] + Len(p[n])
              /\ Held(p) = after[LastHandle]
<1>1. LastHandle \in Nat
  BY ScreenAssumption
<1>2. PICK s : s = Len(p[Root])
  OBVIOUS
<1>3. PICK k \in Nat : k = LastHandle /\ k = Len(All)
  BY <1>1, AllHandles
<1>4. PICK after :
         /\ after = [n \in 0 .. k |-> IF n = 0 THEN Len(p[Root])
                                      ELSE Plus(after[n - 1], p[All[n]])]
         /\ Held(p) = after[k]
  BY <1>3, HeldTurns
<1>5. /\ DOMAIN after = 0 .. LastHandle /\ after[0] = s /\ Held(p) = after[LastHandle]
      /\ \A n \in 1 .. LastHandle : after[n] = Plus(after[n - 1], p[All[n]])
  <2>1. \A n \in 1 .. k : n \in 0 .. k /\ n # 0
    OBVIOUS
  <2> QED BY <1>2, <1>3, <1>4, <2>1
<1>6. Root \in Lists /\ \A n \in 1 .. LastHandle : n \in Lists /\ n # Root
  BY DEF Lists, Handles, Root
<1>7. s \in Nat /\ \A n \in 1 .. LastHandle : Len(p[n]) \in Nat
  BY <1>2, <1>6, LenProperties DEF PieceLists
<1>9. ASSUME NEW n \in 1 .. LastHandle PROVE after[n] = after[n - 1] + Len(p[n])
  <2>1. n \in 0 .. LastHandle /\ n # 0
    BY <1>1
  <2>2. after[n] = after[n - 1] + Len(p[All[n]])
    BY <1>5 DEF Plus
  <2> QED BY <2>2, AllHandles
<1> DEFINE P == {n \in 0 .. LastHandle : after[n] \in Nat}
<1>10. 0 \in P
  BY <1>1, <1>5, <1>7
<1>11. ASSUME NEW m \in 0 .. LastHandle PROVE m \in P
  <2>1. ASSUME NEW n \in 1 .. m, n - 1 \in P PROVE n \in P
    <3>1. n \in 1 .. LastHandle /\ n \in 0 .. LastHandle
      BY <1>1
    <3> QED BY <1>7, <1>9, <2>1, <3>1
  <2>2. m \in Nat
    OBVIOUS
  <2> HIDE DEF P
  <2> QED BY <1>10, <2>1, <2>2, Turns
<1>12. after \in [0 .. LastHandle -> Nat]
  <2>1. after = [n \in 0 .. LastHandle |-> after[n]]
    BY <1>3, <1>4
  <2> QED BY <1>11, <2>1
<1> QED BY <1>2, <1>5, <1>6, <1>7, <1>9, <1>12

\* One list that changes changes the number of rectangles held by as much.
LEMMA HeldChange ==
    ASSUME NEW p \in PieceLists, NEW q \in PieceLists, NEW h \in Lists,
           \A g \in Lists \ {h} : q[g] = p[g]
    PROVE  /\ Held(p) \in Nat /\ Held(q) \in Nat
           /\ Held(q) + Len(p[h]) = Held(p) + Len(q[h])
<1>1. LastHandle \in Nat /\ Root = 0
  BY ScreenAssumption DEF Root
<1>2. PICK a \in [0 .. LastHandle -> Nat] :
         /\ a[0] = Len(p[Root])
         /\ \A n \in 1 .. LastHandle :
               n \in Lists /\ n # Root /\ Len(p[n]) \in Nat /\ a[n] = a[n - 1] + Len(p[n])
         /\ Held(p) = a[LastHandle]
  BY HeldSums
<1>3. PICK b \in [0 .. LastHandle -> Nat] :
         /\ b[0] = Len(q[Root])
         /\ \A n \in 1 .. LastHandle :
               n \in Lists /\ n # Root /\ Len(q[n]) \in Nat /\ b[n] = b[n - 1] + Len(q[n])
         /\ Held(q) = b[LastHandle]
  BY HeldSums
<1>4. Len(p[h]) \in Nat /\ Len(q[h]) \in Nat /\ h \in 0 .. LastHandle
  BY <1>1, LenProperties DEF PieceLists, Lists, Handles
<1> DEFINE P == {n \in 0 .. LastHandle :
                    IF h <= n THEN b[n] + Len(p[h]) = a[n] + Len(q[h]) ELSE b[n] = a[n]}
<1>5. 0 \in P
  <2>1. Root \in Lists
    BY DEF Lists
  <2>2. CASE h = 0
    BY <1>1, <1>2, <1>3, <1>4, <2>2
  <2>3. CASE h # 0
    <3>1. ~(h <= 0)
      BY <1>1, <1>4, <2>3
    <3>2. q[Root] = p[Root]
      BY <1>1, <2>1, <2>3
    <3>3. b[0] = a[0]
      BY <1>2, <1>3, <3>2
    <3> QED BY <1>1, <3>1, <3>3
  <2> QED BY <2>2, <2>3
<1>6. ASSUME NEW n \in 1 .. LastHandle, n - 1 \in P PROVE n \in P
  <2>1. n \in 0 .. LastHandle /\ n - 1 \in 0 .. LastHandle
    BY <1>1
  <2>2. a[n] = a[n - 1] + Len(p[n]) /\ b[n] = b[n - 1] + Len(q[n]) /\ n \in Lists
        /\ Len(p[n]) \in Nat /\ Len(q[n]) \in Nat
    BY <1>2, <1>3
  <2>3. a[n - 1] \in Nat /\ b[n - 1] \in Nat
    BY <2>1
  <2>4. CASE h = n
    <3>1. ~(h <= n - 1) /\ h <= n
      BY <1>4, <2>4
    <3>2. b[n - 1] = a[n - 1]
      BY <1>6, <3>1
    <3>3. b[n] + Len(p[h]) = a[n] + Len(q[h])
      BY <2>2, <2>3, <2>4, <3>2
    <3> QED BY <2>1, <3>1, <3>3
  <2>5. CASE h # n
    <3>1. q[n] = p[n]
      BY <2>2, <2>5
    <3>2. h <= n - 1 <=> h <= n
      BY <1>4, <2>5
    <3>3. CASE h <= n
      <4>1. b[n - 1] + Len(p[h]) = a[n - 1] + Len(q[h])
        BY <1>6, <3>2, <3>3
      <4>2. b[n] + Len(p[h]) = a[n] + Len(q[h])
        <5>1. Len(q[n]) = Len(p[n])
          BY <3>1
        <5>2. PICK w, x, y, z, l \in Nat :
                 w = b[n - 1] /\ x = Len(p[h]) /\ y = a[n - 1] /\ z = Len(q[h]) /\ l = Len(p[n])
          BY ONLY <1>4, <2>2, <2>3
        <5>3. w + x = y + z
          BY <4>1, <5>2
        <5>4. (w + l) + x = (y + l) + z
          BY ONLY <5>3, w \in Nat, x \in Nat, y \in Nat, z \in Nat, l \in Nat
        <5> QED BY <2>2, <5>1, <5>2, <5>4
      <4> QED BY <2>1, <3>3, <4>2
    <3>4. CASE ~(h <= n)
      <4>1. b[n] = a[n]
        BY <1>6, <2>2, <3>1, <3>2, <3>4
      <4> QED BY <2>1, <3>4, <4>1
    <3> QED BY <3>3, <3>4
  <2> QED BY <2>4, <2>5
<1>7. LastHandle \in P
  <2> HIDE DEF P
  <2> QED BY <1>1, <1>5, <1>6, Turns
<1>8. h <= LastHandle /\ LastHandle \in 0 .. LastHandle
  BY <1>1, <1>4
<1> QED BY <1>2, <1>3, <1>7, <1>8

\* Empty lists hold none.
LEMMA HeldNothing ==
    ASSUME NEW p \in PieceLists, \A g \in Lists : p[g] = <<>>
    PROVE  Held(p) = 0
<1>1. LastHandle \in Nat /\ Len(<<>>) = 0 /\ Root \in Lists
  BY ScreenAssumption DEF Lists
<1>2. PICK a \in [0 .. LastHandle -> Nat] :
         /\ a[0] = Len(p[Root])
         /\ \A n \in 1 .. LastHandle :
               n \in Lists /\ n # Root /\ Len(p[n]) \in Nat /\ a[n] = a[n - 1] + Len(p[n])
         /\ Held(p) = a[LastHandle]
  BY HeldSums
<1> DEFINE P == {n \in 0 .. LastHandle : a[n] = 0}
<1>3. 0 \in P
  BY <1>1, <1>2
<1>4. ASSUME NEW n \in 1 .. LastHandle, n - 1 \in P PROVE n \in P
  <2>1. n \in Lists /\ a[n] = a[n - 1] + Len(p[n])
    BY <1>2
  <2>2. Len(p[n]) = 0 /\ a[n - 1] = 0
    BY <1>1, <1>4, <2>1
  <2>3. a[n] = 0 /\ n \in 0 .. LastHandle
    BY <1>1, <2>1, <2>2
  <2> QED BY <2>3
<1>5. LastHandle \in P
  <2> HIDE DEF P
  <2> QED BY <1>1, <1>3, <1>4, Turns
<1> QED BY <1>2, <1>5

----------------------------------------------------------------------------
(* Visible lists *)

\* Window x lies above window h.
Over(order, h, x) == IF h = Root THEN Listed(order, x) ELSE Before(order, h, x)

\* What Above lists is above.
LEMMA AboveAre ==
    ASSUME NEW m, m.order \in Seq(Handles), NoRepeats(m.order), NEW h,
           h = Root \/ Listed(m.order, h)
    PROVE  /\ Above(m, h) \in Seq(Handles)
           /\ \A x : Listed(Above(m, h), x) <=> Over(m.order, h, x)
<1> DEFINE n == Len(m.order)
<1>1. n \in Nat /\ DOMAIN m.order = 1 .. n /\ \A i \in 1 .. n : m.order[i] \in Handles
  BY LenProperties
<1>2. CASE h = Root
  BY <1>2 DEF Above, Over
<1>3. CASE h # Root
  <2>1. PICK at \in 1 .. n : m.order[at] = h
    BY <1>1, <1>3 DEF Listed
  <2>2. \A i \in 1 .. n : m.order[i] = h => i = at
    BY <1>1, <2>1 DEF NoRepeats
  <2>3. (CHOOSE i \in DOMAIN m.order : m.order[i] = h) = at
    BY <1>1, <2>1, <2>2
  <2>4. PICK up : up = SubSeq(m.order, at + 1, n)
    OBVIOUS
  <2>5. Above(m, h) = up
    BY <1>3, <2>3, <2>4 DEF Above
  <2>6. /\ up \in Seq(Handles)
        /\ Len(up) = IF at + 1 <= n THEN n - (at + 1) + 1 ELSE 0
        /\ \A i \in 1 .. n - (at + 1) + 1 : up[i] = m.order[at + 1 + i - 1]
    <3>1. at + 1 \in Int /\ n \in Int /\ \A i \in at + 1 .. n : m.order[i] \in Handles
      BY <1>1
    <3> HIDE DEF n
    <3> QED BY <2>4, <3>1, SubSeqProperties
  <2> HIDE DEF n
  <2>7. n - (at + 1) + 1 = n - at /\ Len(up) = n - at
    BY <1>1, <2>6
  <2>8. DOMAIN up = 1 .. n - at
    BY <2>6, <2>7, LenProperties
  <2>9. ASSUME NEW i \in 1 .. n - at PROVE at + i \in 1 .. n /\ at < at + i /\ up[i] = m.order[at + i]
    <3>1. at + i \in 1 .. n /\ at < at + i /\ at + 1 + i - 1 = at + i
      BY <1>1
    <3>2. up[i] = m.order[at + 1 + i - 1]
      BY <2>6, <2>7
    <3> QED BY <3>1, <3>2
  <2>10. ASSUME NEW j \in 1 .. n, at < j PROVE j - at \in 1 .. n - at /\ up[j - at] = m.order[j]
    <3>1. j - at \in 1 .. n - at /\ at + (j - at) = j
      BY <1>1, <2>10
    <3> QED BY <2>9, <3>1
  <2>11. ASSUME NEW x PROVE Listed(up, x) <=> Before(m.order, h, x)
    <3>1. ASSUME Listed(up, x) PROVE Before(m.order, h, x)
      <4>1. PICK i \in 1 .. n - at : up[i] = x
        BY <2>8, <3>1 DEF Listed
      <4> QED BY <1>1, <2>1, <2>9, <4>1 DEF Before
    <3>2. ASSUME Before(m.order, h, x) PROVE Listed(up, x)
      <4>1. PICK i \in 1 .. n, j \in 1 .. n : i < j /\ m.order[i] = h /\ m.order[j] = x
        BY <1>1, <3>2 DEF Before
      <4>2. at < j
        BY <2>2, <4>1
      <4> QED BY <2>8, <2>10, <4>1, <4>2 DEF Listed
    <3> QED BY <3>1, <3>2
  <2> QED BY <1>3, <2>5, <2>6, <2>11 DEF Over
<1> QED BY <1>2, <1>3

\* The cell is on the window, or the root, and nothing above hides it.
Veiled(m, h, u, v) == \E x \in Handles : Over(m.order, h, x) /\ On(m.win[x].outer, u, v)
Seen(m, h, u, v) == On(Base(m, h), u, v) /\ ~Veiled(m, h, u, v)

\* The pieces of a window are exactly what is seen of it, none of it twice.
Parts(m, h) ==
    /\ \A u, v \in Int : OnSome(m.pieces[h], u, v) <=> Seen(m, h, u, v)
    /\ Apart(m.pieces[h])

\* The occluders of a window are what is above it.
LEMMA CoversAre ==
    ASSUME NEW m \in Managers, NoRepeats(m.order), NEW h \in Lists,
           h = Root \/ Listed(m.order, h)
    PROVE  /\ Covers(m, h) \in Seq(RectType) /\ Base(m, h) \in RectType
           /\ \A u, v \in Int : OnSome(Covers(m, h), u, v) <=> Veiled(m, h, u, v)
<1>1. m.order \in Seq(Handles) /\ \A x \in Handles : m.win[x].outer \in RectType
  BY DEF Managers, Wins
<1>2. PICK up \in Seq(Handles) : up = Above(m, h)
  BY <1>1, AboveAre
<1>3. \A x : Listed(up, x) <=> Over(m.order, h, x)
  BY <1>1, <1>2, AboveAre
<1>4. DOMAIN up = 1 .. Len(up) /\ Len(up) \in Nat /\ \A i \in 1 .. Len(up) : up[i] \in Handles
  BY LenProperties
<1>5. Covers(m, h) = [i \in 1 .. Len(up) |-> m.win[up[i]].outer]
  BY <1>2, <1>4 DEF Covers
<1>6. Covers(m, h) \in [1 .. Len(up) -> RectType]
  BY <1>1, <1>4, <1>5
<1>7. Covers(m, h) \in Seq(RectType)
  BY <1>4, <1>6, SeqDef
<1>8. Base(m, h) \in RectType
  <2>1. RootWork \in RectType
    BY ScreenAssumption DEF RootWork, Rect, RectType
  <2> QED BY <1>1, <2>1 DEF Base, Lists
<1>9. ASSUME NEW u \in Int, NEW v \in Int
      PROVE  OnSome(Covers(m, h), u, v) <=> Veiled(m, h, u, v)
  <2>1. OnSome(Covers(m, h), u, v) <=> \E i \in 1 .. Len(up) : On(m.win[up[i]].outer, u, v)
    BY <1>5 DEF OnSome
  <2>2. (\E i \in 1 .. Len(up) : On(m.win[up[i]].outer, u, v))
        <=> \E x \in Handles : Listed(up, x) /\ On(m.win[x].outer, u, v)
    BY <1>4 DEF Listed
  <2> QED BY <1>3, <2>1, <2>2 DEF Veiled
<1> QED BY <1>7, <1>8, <1>9

\* What building a list cuts out of the window.
Cutout(m, h) == Along(Covers(m, h), BreakList, Cutting(<<Base(m, h)>>, m.free - 1, TRUE))

Uncut(m, h) == Cutting(<<Base(m, h)>>, m.free - 1, TRUE)

\* The loop of BuildList over the windows above.
LEMMA CutoutTurns ==
    ASSUME NEW m, NEW h, NEW k \in Nat, k = Len(Covers(m, h))
    PROVE  \E after :
              /\ after[0] = Uncut(m, h)
              /\ \A n \in 1 .. k : after[n] = BreakList(after[n - 1], Covers(m, h)[n])
              /\ Cutout(m, h) = after[k]
<1> DEFINE Turn(f, n) == IF n = 0 THEN Uncut(m, h) ELSE BreakList(f[n - 1], Covers(m, h)[n])
           Is(f, t) == f = [n \in 0 .. t |-> Turn(f, n)]
           P == {t \in 0 .. k : \E f : Is(f, t)}
<1>1. 0 \in P
  <2>1. Is([n \in 0 .. 0 |-> Uncut(m, h)], 0)
    OBVIOUS
  <2>2. 0 \in 0 .. k
    OBVIOUS
  <2> HIDE DEF Is
  <2> QED BY <2>1, <2>2
<1>2. ASSUME NEW t \in 1 .. k, t - 1 \in P PROVE t \in P
  <2>1. PICK f : Is(f, t - 1)
    BY <1>2
  <2> DEFINE g == [n \in 0 .. t |-> IF n = t THEN Turn(f, t) ELSE f[n]]
  <2>2. Is(g, t)
    BY ONLY <2>1, t \in 1 .. k, k \in Nat
  <2>3. t \in 0 .. k
    OBVIOUS
  <2> HIDE DEF Is, g
  <2> QED BY <2>2, <2>3
<1>3. k \in P
  <2> HIDE DEF P
  <2> QED BY <1>1, <1>2, Turns
<1>4. PICK f : Is(f, k)
  BY <1>3
<1>5. Cutout(m, h) = (CHOOSE g : Is(g, k))[k]
  BY DEF Cutout, Along, Uncut
<1>6. Is(CHOOSE g : Is(g, k), k)
  <2> HIDE DEF Is
  <2> QED BY <1>4
<1>7. PICK after : Is(after, k) /\ Cutout(m, h) = after[k]
  <2> HIDE DEF Is
  <2> QED BY <1>5, <1>6
<1>8. /\ after[0] = Uncut(m, h)
      /\ \A n \in 1 .. k : after[n] = BreakList(after[n - 1], Covers(m, h)[n])
  <2>1. \A n \in 1 .. k : n \in 0 .. k /\ n # 0
    OBVIOUS
  <2> QED BY ONLY <1>7, <2>1, k \in Nat
<1> HIDE DEF Is
<1> QED BY <1>7, <1>8

\* If the pool suffices, what is seen of the window.
LEMMA CutoutIs ==
    ASSUME NEW m \in Managers, NoRepeats(m.order), m.free # 0, NEW h \in Lists,
           h = Root \/ Listed(m.order, h)
    PROVE  /\ Cutout(m, h) \in Cuttings
           /\ Len(Cutout(m, h).list) + Cutout(m, h).free = m.free
           /\ Cutout(m, h).ok =>
                 /\ \A u, v \in Int : OnSome(Cutout(m, h).list, u, v) <=> Seen(m, h, u, v)
                 /\ Apart(Cutout(m, h).list)
<1>1. PICK base \in RectType, list \in Seq(RectType) : base = Base(m, h) /\ list = Covers(m, h)
  BY CoversAre
<1>2. \A u, v \in Int : OnSome(list, u, v) <=> Veiled(m, h, u, v)
  BY <1>1, CoversAre
<1>3. PICK k \in Nat : k = Len(list) /\ DOMAIN list = 1 .. k /\ \A i \in 1 .. k : list[i] \in RectType
  BY LenProperties
<1>4. m.free \in Nat
  BY DEF Managers
<1>5. PICK s \in Cuttings :
         s = Uncut(m, h) /\ s.list = <<base>> /\ s.free = m.free - 1 /\ s.ok
  <2>1. PICK f \in Nat : f = m.free - 1
    BY <1>4
  <2>2. <<base>> \in Seq(RectType)
    BY SingleOn
  <2>3. Uncut(m, h) = [list |-> <<base>>, free |-> f, ok |-> TRUE]
    BY <1>1, <2>1 DEF Uncut, Cutting
  <2>4. Uncut(m, h) \in Cuttings
    BY <2>2, <2>3 DEF Cuttings
  <2> QED BY <2>1, <2>3, <2>4
<1>6. PICK after :
         /\ after[0] = s /\ Cutout(m, h) = after[k]
         /\ \A n \in 1 .. k : after[n] = BreakList(after[n - 1], list[n])
  <2>1. k = Len(Covers(m, h))
    BY <1>1, <1>3
  <2>2. PICK after :
           /\ after[0] = Uncut(m, h)
           /\ \A n \in 1 .. k : after[n] = BreakList(after[n - 1], Covers(m, h)[n])
           /\ Cutout(m, h) = after[k]
    BY <2>1, CutoutTurns
  <2> QED BY <1>1, <1>5, <2>2
<1> DEFINE Some(n, u, v) == \E i \in 1 .. n : On(list[i], u, v)
           Step(b, n) ==
              /\ b \in Cuttings /\ Len(b.list) + b.free = m.free
              /\ b.ok =>
                    /\ \A u, v \in Int : OnSome(b.list, u, v) <=> On(base, u, v) /\ ~Some(n, u, v)
                    /\ Apart(b.list)
           P == {n \in 0 .. k : Step(after[n], n)}
<1>7. 0 \in P
  <2>1. after[0] = s /\ 0 \in 0 .. k
    BY <1>6
  <2>2. Len(s.list) + s.free = m.free
    <3>1. Len(s.list) = 1
      BY <1>5, SingleOn
    <3>2. 1 + (m.free - 1) = m.free
      BY <1>4
    <3> QED BY <1>5, <3>1, <3>2
  <2>3. \A u, v \in Int : ~Some(0, u, v)
    OBVIOUS
  <2>4. /\ \A u, v \in Int : OnSome(s.list, u, v) <=> On(base, u, v)
        /\ Apart(s.list)
    BY <1>5, SingleOn
  <2>5. Step(s, 0)
    BY <2>2, <2>3, <2>4
  <2> QED BY <2>1, <2>5
<1>8. ASSUME NEW n \in 1 .. k, n - 1 \in P PROVE n \in P
  <2>1. PICK b, c : b \in Cuttings /\ b = after[n - 1] /\ c = after[n] /\ c = BreakList(b, list[n])
    BY <1>6, <1>8
  <2>2. Step(b, n - 1)
    BY <1>8, <2>1
  <2>3. Broken(b, c, list[n])
    BY <1>3, <2>1, BreakListIs
  <2>4. ASSUME NEW u \in Int, NEW v \in Int
        PROVE  Some(n, u, v) <=> Some(n - 1, u, v) \/ On(list[n], u, v)
    <3>1. \A i \in 1 .. n : i \in 1 .. n - 1 \/ i = n
      OBVIOUS
    <3>2. 1 .. n - 1 \subseteq 1 .. n /\ n \in 1 .. n
      OBVIOUS
    <3> QED BY <3>1, <3>2
  <2> HIDE DEF Some
  <2>5. Step(c, n)
    BY <2>2, <2>3, <2>4 DEF Broken
  <2>6. n \in 0 .. k
    OBVIOUS
  <2> QED BY <2>1, <2>5, <2>6
<1>9. k \in P
  <2> HIDE DEF P
  <2> QED BY <1>7, <1>8, Turns
<1>10. \A u, v \in Int : Some(k, u, v) <=> OnSome(list, u, v)
  BY <1>3 DEF OnSome
<1> QED BY <1>1, <1>2, <1>6, <1>9, <1>10 DEF Seen

\* The two have the same windows in the same order; only lists and flags differ.
SameWin(a, b) ==
    a.owner = b.owner /\ a.kind = b.kind /\ a.open = b.open /\ a.outer = b.outer /\ a.work = b.work

Kept(m, n) ==
    /\ n.desk = m.desk /\ n.order = m.order /\ n.top = m.top /\ n.control = m.control
    /\ \A g \in Handles : SameWin(n.win[g], m.win[g])

\* The BROKEN flag of a window with several pieces is set, and of one with one
\* piece reset; a window that is covered altogether keeps the flag of before.
FlagIs(m, n, h) ==
    h # Root => IF n.pieces[h] = <<>> THEN n.win[h] = m.win[h]
                ELSE n.win[h].broken <=> Len(n.pieces[h]) > 1

\* What building the list of h makes of m.
Built(m, n, h) ==
    /\ n \in Managers /\ Kept(m, n) /\ Whole(n) /\ n.next = m.next
    /\ \A g \in Lists \ {h} : n.pieces[g] = m.pieces[g]
    /\ \A g \in Handles \ {h} : n.win[g] = m.win[g]
    /\ ~n.short => Parts(n, h) /\ FlagIs(m, n, h)

\* The same windows hide the same cells of each other.
LEMMA KeptSeen ==
    ASSUME NEW m \in Managers, NEW n \in Managers, Kept(m, n), NEW h \in Lists,
           NEW u \in Int, NEW v \in Int
    PROVE  Seen(n, h, u, v) <=> Seen(m, h, u, v)
BY DEF Kept, SameWin, Seen, Veiled, Base, Lists

\* Building a list takes as many rectangles as it has from the pool.
LEMMA BuildIs ==
    ASSUME NEW m \in Managers, Whole(m), NoRepeats(m.order), NEW h \in Lists,
           h = Root \/ Listed(m.order, h), m.pieces[h] = <<>>
    PROVE  Built(m, BuildList(m, h), h)
<1> DEFINE n == BuildList(m, h)
<1>1. /\ m.free \in Nat /\ m.pieces \in PieceLists /\ m.win \in [Handles -> Wins]
      /\ DOMAIN m.pieces = Lists /\ DOMAIN m.win = Handles
  BY DEF Managers, PieceLists
<1>2. CASE m.free = 0
  <2>1. n = [m EXCEPT !.short = TRUE]
    BY <1>2 DEF BuildList
  <2>2. n \in Managers /\ n.short
        /\ n.desk = m.desk /\ n.order = m.order /\ n.top = m.top /\ n.control = m.control
        /\ n.win = m.win /\ n.next = m.next /\ n.pieces = m.pieces /\ n.free = m.free
    BY <2>1 DEF Managers
  <2> HIDE DEF n
  <2>3. Built(m, n, h)
    BY <2>2 DEF Built, Kept, SameWin, Whole
  <2> QED BY <2>3 DEF n
<1>3. CASE m.free # 0
  <2>1. PICK c \in Cuttings : c = Cutout(m, h)
    BY <1>3, CutoutIs
  <2>2. /\ Len(c.list) + c.free = m.free
        /\ c.ok => /\ \A u, v \in Int : OnSome(c.list, u, v) <=> Seen(m, h, u, v)
                   /\ Apart(c.list)
    BY <1>3, <2>1, CutoutIs
  <2>3. c.list \in Seq(RectType) /\ c.free \in Nat /\ c.ok \in BOOLEAN /\ Len(c.list) \in Nat
    BY LenProperties DEF Cuttings
  <2>4. PICK b : b = [m EXCEPT !.pieces[h] = c.list, !.free = c.free, !.short = ~c.ok]
    OBVIOUS
  <2>5. n = IF c.ok /\ c.list # <<>> /\ h # Root
            THEN [b EXCEPT !.win[h].broken = Len(c.list) > 1] ELSE b
    BY <1>3, <2>1, <2>4 DEF BuildList, Cutout
  <2>6. /\ b \in Managers /\ b.win = m.win /\ b.next = m.next /\ b.free = c.free
        /\ b.desk = m.desk /\ b.order = m.order /\ b.top = m.top /\ b.control = m.control
        /\ b.pieces = [m.pieces EXCEPT ![h] = c.list] /\ b.short = ~c.ok
    BY <2>3, <2>4 DEF Managers
  <2>7. b.pieces \in PieceLists /\ b.pieces[h] = c.list /\ \A g \in Lists \ {h} : b.pieces[g] = m.pieces[g]
    BY <1>1, <2>3, <2>6 DEF PieceLists
  <2>8. /\ n \in Managers /\ n.next = b.next /\ n.free = b.free /\ n.pieces = b.pieces
        /\ n.short = b.short /\ n.desk = b.desk /\ n.order = b.order /\ n.top = b.top
        /\ n.control = b.control /\ \A g \in Handles \ {h} : n.win[g] = b.win[g]
        /\ \A g \in Handles : SameWin(n.win[g], b.win[g])
        /\ IF c.ok /\ c.list # <<>> /\ h # Root
           THEN n.win[h].broken <=> Len(c.list) > 1 ELSE n.win = b.win
    <3>1. CASE c.ok /\ c.list # <<>> /\ h # Root
      <4>1. h \in Handles
        BY <3>1 DEF Lists
      <4>2. PICK f \in BOOLEAN : f <=> Len(c.list) > 1
        OBVIOUS
      <4>3. PICK w \in Wins : w = [b.win[h] EXCEPT !.broken = f] /\ w.broken = f
                              /\ SameWin(w, b.win[h])
        <5>1. b.win[h] \in Wins
          BY <1>1, <2>6, <4>1
        <5>2. PICK w : w = [b.win[h] EXCEPT !.broken = f]
          OBVIOUS
        <5>3. w \in Wins /\ w.broken = f
          BY <5>1, <5>2 DEF Wins
        <5>4. SameWin(w, b.win[h])
          BY <5>1, <5>2 DEF Wins, SameWin
        <5> QED BY <5>2, <5>3, <5>4
      <4>4. n = [b EXCEPT !.win = [b.win EXCEPT ![h] = w]]
        <5>1. f = (Len(c.list) > 1)
          BY <4>2
        <5>2. n = [b EXCEPT !.win[h].broken = Len(c.list) > 1]
          BY <2>5, <3>1
        <5> QED BY <4>3, <5>1, <5>2
      <4>5. [b.win EXCEPT ![h] = w] \in [Handles -> Wins]
        BY <1>1, <2>6
      <4>6. /\ n \in Managers /\ n.win = [b.win EXCEPT ![h] = w]
            /\ n.next = b.next /\ n.free = b.free /\ n.pieces = b.pieces
            /\ n.short = b.short /\ n.desk = b.desk /\ n.order = b.order /\ n.top = b.top
            /\ n.control = b.control
        BY <2>6, <4>4, <4>5 DEF Managers
      <4>7. n.win[h] = w /\ \A g \in Handles \ {h} : n.win[g] = b.win[g]
        BY <1>1, <2>6, <4>1, <4>6
      <4> HIDE DEF n
      <4> QED BY <3>1, <4>2, <4>3, <4>6, <4>7 DEF SameWin
    <3>2. CASE ~(c.ok /\ c.list # <<>> /\ h # Root)
      <4>1. n = b
        BY <2>5, <3>2
      <4> HIDE DEF n
      <4> QED BY <2>6, <3>2, <4>1 DEF SameWin
    <3> QED BY <3>1, <3>2
  <2> HIDE DEF n
  <2>9. Whole(n)
    <3>1. /\ Held(m.pieces) \in Nat /\ Held(b.pieces) \in Nat
          /\ Held(b.pieces) + Len(m.pieces[h]) = Held(m.pieces) + Len(b.pieces[h])
      BY <1>1, <2>7, HeldChange
    <3>2. Len(m.pieces[h]) = 0 /\ m.free + Held(m.pieces) = RectCount
      BY DEF Whole
    <3>3. c.free + Held(b.pieces) = RectCount
      BY <1>1, <2>2, <2>3, <2>7, <3>1, <3>2
    <3> QED BY <2>6, <2>8, <3>3 DEF Whole
  <2>10. Kept(m, n)
    BY <2>6, <2>8 DEF Kept
  <2>11. ASSUME ~n.short PROVE Parts(n, h) /\ FlagIs(m, n, h)
    <3>1. c.ok /\ n.pieces[h] = c.list
      BY <2>3, <2>6, <2>7, <2>8, <2>11
    <3>2. \A u, v \in Int : Seen(n, h, u, v) <=> Seen(m, h, u, v)
      BY <2>8, <2>10, KeptSeen
    <3> QED BY <2>2, <2>6, <2>8, <3>1, <3>2 DEF Parts, FlagIs
  <2>12. Built(m, n, h)
    BY <2>6, <2>7, <2>8, <2>9, <2>10, <2>11 DEF Built
  <2> QED BY <2>12 DEF n
<1> QED BY <1>1, <1>2, <1>3

----------------------------------------------------------------------------
(* Rebuilding all lists *)

\* Releasing one list gives its pieces back and ends the walk over them.
ReleasedOne(m, n, h) ==
    /\ n \in Managers /\ Whole(n) /\ n.short = m.short /\ n.win = m.win
    /\ n.desk = m.desk /\ n.order = m.order /\ n.top = m.top /\ n.control = m.control
    /\ n.pieces[h] = <<>> /\ n.next[h] = 0
    /\ \A g \in Lists \ {h} : n.pieces[g] = m.pieces[g] /\ n.next[g] = m.next[g]

LEMMA ReleaseIs ==
    ASSUME NEW m \in Managers, Whole(m), NEW h \in Lists
    PROVE  ReleasedOne(m, Release(m, h), h)
<1> DEFINE n == Release(m, h)
<1>1. /\ m.free \in Nat /\ m.pieces \in PieceLists /\ m.next \in [Lists -> Nat]
      /\ Len(m.pieces[h]) \in Nat /\ <<>> \in Seq(RectType)
  <2>1. Zero \in RectType
    BY DEF Zero, Rect, RectType
  <2> QED BY <2>1, LenProperties, SingleOn DEF Managers, PieceLists
<1>2. n = [m EXCEPT !.free = m.free + Len(m.pieces[h]), !.pieces = [m.pieces EXCEPT ![h] = <<>>],
                    !.next = [m.next EXCEPT ![h] = 0]]
  BY DEF Release, Managers
<1>3. [m.pieces EXCEPT ![h] = <<>>] \in PieceLists /\ [m.next EXCEPT ![h] = 0] \in [Lists -> Nat]
      /\ m.free + Len(m.pieces[h]) \in Nat
  BY <1>1 DEF PieceLists
<1> HIDE DEF n
<1>4. /\ n \in Managers /\ n.short = m.short /\ n.win = m.win
      /\ n.desk = m.desk /\ n.order = m.order /\ n.top = m.top /\ n.control = m.control
      /\ n.pieces = [m.pieces EXCEPT ![h] = <<>>] /\ n.next = [m.next EXCEPT ![h] = 0]
      /\ n.free = m.free + Len(m.pieces[h])
  BY <1>2, <1>3 DEF Managers, PieceLists
<1>5. /\ n.pieces \in PieceLists /\ n.pieces[h] = <<>> /\ n.next[h] = 0
      /\ \A g \in Lists \ {h} : n.pieces[g] = m.pieces[g] /\ n.next[g] = m.next[g]
  BY <1>1, <1>3, <1>4 DEF PieceLists
<1>6. Whole(n)
  <2>1. /\ Held(m.pieces) \in Nat /\ Held(n.pieces) \in Nat
        /\ Held(n.pieces) + Len(m.pieces[h]) = Held(m.pieces) + Len(n.pieces[h])
    BY <1>1, <1>5, HeldChange
  <2>2. Len(n.pieces[h]) = 0 /\ m.free + Held(m.pieces) = RectCount
    BY <1>5 DEF Whole
  <2>3. (m.free + Len(m.pieces[h])) + Held(n.pieces) = RectCount
    BY <1>1, <2>1, <2>2
  <2> QED BY <1>4, <2>3 DEF Whole
<1>7. ReleasedOne(m, n, h)
  BY <1>4, <1>5, <1>6 DEF ReleasedOne
<1> QED BY <1>7 DEF n

\* What is left when all lists are released.
Numbers == [i \in 1 .. LastHandle + 1 |-> i - 1]
Released(m) == Along([i \in 1 .. LastHandle + 1 |-> i - 1], Release, m)

\* The loop of Rebuild that releases the lists.
LEMMA ReleaseTurns ==
    ASSUME NEW m, NEW k \in Nat, k = Len(Numbers)
    PROVE  \E after :
              /\ after[0] = m
              /\ \A n \in 1 .. k : after[n] = Release(after[n - 1], Numbers[n])
              /\ Released(m) = after[k]
<1> DEFINE Turn(f, n) == IF n = 0 THEN m ELSE Release(f[n - 1], Numbers[n])
           Is(f, t) == f = [n \in 0 .. t |-> Turn(f, n)]
           P == {t \in 0 .. k : \E f : Is(f, t)}
<1>1. 0 \in P
  <2>1. Is([n \in 0 .. 0 |-> m], 0)
    OBVIOUS
  <2>2. 0 \in 0 .. k
    OBVIOUS
  <2> HIDE DEF Is
  <2> QED BY <2>1, <2>2
<1>2. ASSUME NEW t \in 1 .. k, t - 1 \in P PROVE t \in P
  <2>1. PICK f : Is(f, t - 1)
    BY <1>2
  <2> DEFINE g == [n \in 0 .. t |-> IF n = t THEN Turn(f, t) ELSE f[n]]
  <2>2. Is(g, t)
    BY ONLY <2>1, t \in 1 .. k, k \in Nat
  <2>3. t \in 0 .. k
    OBVIOUS
  <2> HIDE DEF Is, g
  <2> QED BY <2>2, <2>3
<1>3. k \in P
  <2> HIDE DEF P
  <2> QED BY <1>1, <1>2, Turns
<1>4. PICK f : Is(f, k)
  BY <1>3
<1>5. Released(m) = (CHOOSE g : Is(g, k))[k]
  BY DEF Released, Along, Numbers
<1>6. Is(CHOOSE g : Is(g, k), k)
  <2> HIDE DEF Is
  <2> QED BY <1>4
<1>7. PICK after : Is(after, k) /\ Released(m) = after[k]
  <2> HIDE DEF Is
  <2> QED BY <1>5, <1>6
<1>8. /\ after[0] = m
      /\ \A n \in 1 .. k : after[n] = Release(after[n - 1], Numbers[n])
  <2>1. \A n \in 1 .. k : n \in 0 .. k /\ n # 0
    OBVIOUS
  <2> QED BY ONLY <1>7, <2>1, k \in Nat
<1> HIDE DEF Is
<1> QED BY <1>7, <1>8

LEMMA NumbersAre ==
    Len(Numbers) = LastHandle + 1 /\ \A n \in 1 .. LastHandle + 1 : Numbers[n] = n - 1 /\ n - 1 \in Lists
<1>1. LastHandle \in Nat
  BY ScreenAssumption
<1>2. \A n \in 1 .. LastHandle + 1 : Numbers[n] = n - 1 /\ n - 1 \in 0 .. LastHandle
  BY <1>1 DEF Numbers
<1>3. DOMAIN Numbers = 1 .. LastHandle + 1
  BY DEF Numbers
<1>4. Numbers \in [1 .. LastHandle + 1 -> 0 .. LastHandle]
  BY <1>2 DEF Numbers
<1>5. Numbers \in Seq(0 .. LastHandle)
  BY <1>1, <1>4, SeqDef
<1>6. DOMAIN Numbers = 1 .. Len(Numbers) /\ Len(Numbers) \in Nat
  BY <1>5, LenProperties
<1>7. Len(Numbers) = LastHandle + 1
  BY <1>1, <1>3, <1>6
<1>8. 0 .. LastHandle = Lists
  BY <1>1 DEF Lists, Handles, Root
<1> QED BY <1>2, <1>7, <1>8

\* All rectangles are free then, and no walk is left.
ReleasedAll(m, n) ==
    /\ n \in Managers /\ n.free = RectCount /\ n.win = m.win /\ n.short = m.short
    /\ n.desk = m.desk /\ n.order = m.order /\ n.top = m.top /\ n.control = m.control
    /\ \A h \in Lists : n.pieces[h] = <<>> /\ n.next[h] = 0

LEMMA ReleasedIs ==
    ASSUME NEW m \in Managers, Whole(m)
    PROVE  ReleasedAll(m, Released(m))
<1>1. PICK k \in Nat : k = LastHandle + 1 /\ k = Len(Numbers)
  BY NumbersAre, ScreenAssumption
<1>2. PICK after :
         /\ after[0] = m /\ \A n \in 1 .. k : after[n] = Release(after[n - 1], Numbers[n])
         /\ Released(m) = after[k]
  BY <1>1, ReleaseTurns
<1> DEFINE Step(a, n) ==
              /\ a \in Managers /\ Whole(a) /\ a.win = m.win /\ a.short = m.short
              /\ a.desk = m.desk /\ a.order = m.order /\ a.top = m.top /\ a.control = m.control
              /\ \A h \in Lists : h < n => a.pieces[h] = <<>> /\ a.next[h] = 0
           P == {n \in 0 .. k : Step(after[n], n)}
<1>3. \A h \in Lists : h \in 0 .. LastHandle
  BY ScreenAssumption DEF Lists, Handles, Root
<1>4. 0 \in P
  <2>1. 0 \in 0 .. k
    OBVIOUS
  <2>2. \A h \in Lists : ~(h < 0)
    BY <1>3, ScreenAssumption
  <2> QED BY <1>2, <2>1, <2>2
<1>5. ASSUME NEW n \in 1 .. k, n - 1 \in P PROVE n \in P
  <2>1. PICK a, b, h : a = after[n - 1] /\ b = after[n] /\ h = n - 1 /\ b = Release(a, h)
                       /\ h \in Lists
    BY <1>1, <1>2, NumbersAre
  <2>2. Step(a, n - 1)
    BY <1>5, <2>1
  <2>3. ReleasedOne(a, b, h)
    BY <2>1, <2>2, ReleaseIs
  <2>4. \A g \in Lists : g < n => g < n - 1 \/ g = h
    BY <1>3, <2>1, ScreenAssumption
  <2>5. Step(b, n)
    BY <2>1, <2>2, <2>3, <2>4 DEF ReleasedOne
  <2>6. n \in 0 .. k
    OBVIOUS
  <2> QED BY <2>1, <2>5, <2>6
<1>6. k \in P
  <2> HIDE DEF P
  <2> QED BY <1>4, <1>5, Turns
<1>7. PICK n : n = Released(m)
  OBVIOUS
<1>8. Step(n, k)
  BY <1>2, <1>6, <1>7
<1>9. \A h \in Lists : h < k
  BY <1>1, <1>3, ScreenAssumption
<1>10. n.free = RectCount
  <2>1. n.pieces \in PieceLists /\ n.free \in Nat /\ \A h \in Lists : n.pieces[h] = <<>>
    BY <1>8, <1>9 DEF Managers, PieceLists
  <2>2. Held(n.pieces) = 0 /\ n.free + Held(n.pieces) = RectCount
    BY <1>8, <2>1, HeldNothing DEF Whole
  <2> QED BY <2>1, <2>2
<1> QED BY <1>7, <1>8, <1>9, <1>10 DEF ReleasedAll

\* A turn of the loop that builds the lists, which ends when the pool is short.
BuildNext(n, h) == IF n.short THEN n ELSE BuildList(n, h)

Emptied(m) == [Released(m) EXCEPT !.short = FALSE]

Agenda(m) == <<Root>> \o m.order

\* The loop of Rebuild that builds the lists.
LEMMA RebuildTurns ==
    ASSUME NEW m, NEW k \in Nat, k = Len(Agenda(m))
    PROVE  \E after :
              /\ after[0] = Emptied(m)
              /\ \A n \in 1 .. k : after[n] = BuildNext(after[n - 1], Agenda(m)[n])
              /\ Rebuild(m) = after[k]
<1> DEFINE Turn(f, n) == IF n = 0 THEN Emptied(m) ELSE BuildNext(f[n - 1], Agenda(m)[n])
           Is(f, t) == f = [n \in 0 .. t |-> Turn(f, n)]
           P == {t \in 0 .. k : \E f : Is(f, t)}
<1>1. 0 \in P
  <2>1. Is([n \in 0 .. 0 |-> Emptied(m)], 0)
    OBVIOUS
  <2>2. 0 \in 0 .. k
    OBVIOUS
  <2> HIDE DEF Is
  <2> QED BY <2>1, <2>2
<1>2. ASSUME NEW t \in 1 .. k, t - 1 \in P PROVE t \in P
  <2>1. PICK f : Is(f, t - 1)
    BY <1>2
  <2> DEFINE g == [n \in 0 .. t |-> IF n = t THEN Turn(f, t) ELSE f[n]]
  <2>2. Is(g, t)
    BY ONLY <2>1, t \in 1 .. k, k \in Nat
  <2>3. t \in 0 .. k
    OBVIOUS
  <2> HIDE DEF Is, g
  <2> QED BY <2>2, <2>3
<1>3. k \in P
  <2> HIDE DEF P
  <2> QED BY <1>1, <1>2, Turns
<1>4. PICK f : Is(f, k)
  BY <1>3
<1>5. Rebuild(m) = (CHOOSE g : Is(g, k))[k]
  BY DEF Rebuild, Along, BuildNext, Emptied, Released, Agenda
<1>6. Is(CHOOSE g : Is(g, k), k)
  <2> HIDE DEF Is
  <2> QED BY <1>4
<1>7. PICK after : Is(after, k) /\ Rebuild(m) = after[k]
  <2> HIDE DEF Is
  <2> QED BY <1>5, <1>6
<1>8. /\ after[0] = Emptied(m)
      /\ \A n \in 1 .. k : after[n] = BuildNext(after[n - 1], Agenda(m)[n])
  <2>1. \A n \in 1 .. k : n \in 0 .. k /\ n # 0
    OBVIOUS
  <2> QED BY ONLY <1>7, <2>1, k \in Nat
<1> HIDE DEF Is
<1> QED BY <1>7, <1>8

\* The lists are built from the root's to that of the top window.
LEMMA BuildOrder ==
    ASSUME NEW m, m.order \in Seq(Handles), NoRepeats(m.order)
    PROVE  /\ Len(Agenda(m)) = Len(m.order) + 1 /\ Len(m.order) \in Nat
           /\ \A i \in 1 .. Len(m.order) + 1 :
                 Agenda(m)[i] \in Lists /\ (Agenda(m)[i] = Root \/ Listed(m.order, Agenda(m)[i]))
           /\ \A i, j \in 1 .. Len(m.order) + 1 : Agenda(m)[i] = Agenda(m)[j] => i = j
           /\ \A h : h = Root \/ Listed(m.order, h) =>
                 \E i \in 1 .. Len(m.order) + 1 : Agenda(m)[i] = h
<1>0. PICK order \in Seq(Handles) : order = m.order /\ NoRepeats(order)
  OBVIOUS
<1>1. PICK n \in Nat : n = Len(order)
  BY LenProperties
<1>2. DOMAIN order = 1 .. n /\ \A i \in 1 .. n : order[i] \in Handles
  BY <1>1, LenProperties
<1>3. <<Root>> \in Seq(Lists) /\ Len(<<Root>>) = 1 /\ <<Root>>[1] = Root /\ order \in Seq(Lists)
  BY SeqMonotonic DEF Lists
<1>4. PICK all : all = Agenda(m) /\ all = <<Root>> \o order
  BY <1>0 DEF Agenda
<1>5. /\ Len(all) = 1 + n
      /\ \A i \in 1 .. 1 + n : all[i] = IF i <= 1 THEN <<Root>>[i] ELSE order[i - 1]
  BY <1>1, <1>3, <1>4, ConcatProperties
<1>6. Len(all) = n + 1
  BY <1>5
<1>7. all[1] = Root /\ \A i \in 1 .. n : i + 1 \in 1 .. n + 1 /\ all[i + 1] = order[i]
  <2>1. 1 \in 1 .. 1 + n /\ 1 <= 1
    OBVIOUS
  <2>2. all[1] = Root
    BY <1>3, <1>5, <2>1
  <2>3. ASSUME NEW i \in 1 .. n PROVE i + 1 \in 1 .. n + 1 /\ all[i + 1] = order[i]
    <3>1. i + 1 \in 1 .. 1 + n /\ ~(i + 1 <= 1) /\ (i + 1) - 1 = i /\ i + 1 \in 1 .. n + 1
      OBVIOUS
    <3>2. all[i + 1] = order[(i + 1) - 1]
      BY <1>5, <3>1
    <3> QED BY <3>1, <3>2
  <2> QED BY <2>2, <2>3
<1>8. ASSUME NEW i \in 1 .. n + 1
      PROVE  i = 1 \/ (i - 1 \in 1 .. n /\ all[i] = order[i - 1])
  <2>1. i = 1 \/ (i - 1 \in 1 .. n /\ (i - 1) + 1 = i)
    OBVIOUS
  <2> QED BY <1>7, <2>1
<1>9. Root \notin Handles
  BY DEF Root, Handles
<1>10. \A i \in 1 .. n + 1 : all[i] \in Lists /\ (all[i] = Root \/ Listed(order, all[i]))
  BY <1>2, <1>7, <1>8 DEF Lists, Listed
<1>11. ASSUME NEW i \in 1 .. n + 1, NEW j \in 1 .. n + 1, all[i] = all[j] PROVE i = j
  <2>1. CASE i = 1 \/ j = 1
    BY <1>2, <1>7, <1>8, <1>9, <1>11, <2>1
  <2>2. CASE i # 1 /\ j # 1
    <3>1. i - 1 = j - 1
      <4>1. i - 1 \in 1 .. n /\ j - 1 \in 1 .. n /\ order[i - 1] = order[j - 1]
        BY <1>8, <1>11, <2>2
      <4> QED BY <1>0, <1>2, <4>1 DEF NoRepeats
    <3> QED BY <3>1
  <2> QED BY <2>1, <2>2
<1>12. ASSUME NEW h, h = Root \/ Listed(order, h)
       PROVE  \E i \in 1 .. n + 1 : all[i] = h
  <2>1. CASE h = Root
    <3>1. 1 \in 1 .. n + 1
      OBVIOUS
    <3> QED BY <1>7, <2>1, <3>1
  <2>2. CASE Listed(order, h)
    BY <1>2, <1>7, <2>2 DEF Listed
  <2> QED BY <1>12, <2>1, <2>2
<1> QED BY <1>0, <1>1, <1>4, <1>6, <1>10, <1>11, <1>12

\* The root and the open windows have a list.
Shows(m, h) == h = Root \/ Listed(m.order, h)

\* What a rebuild makes of an arrangement of windows.
Rebuilt(m, n) ==
    /\ n \in Managers /\ Kept(m, n) /\ Whole(n)
    /\ \A h \in Lists : n.next[h] = 0
    /\ \A h \in Handles : ~Listed(m.order, h) => n.pieces[h] = <<>> /\ n.win[h] = m.win[h]
    /\ ~n.short => \A h \in Lists : Shows(m, h) => Parts(n, h) /\ FlagIs(m, n, h)

LEMMA EmptiedIs ==
    ASSUME NEW m \in Managers, Whole(m)
    PROVE  /\ Emptied(m) \in Managers /\ Kept(m, Emptied(m)) /\ Whole(Emptied(m))
           /\ ~Emptied(m).short /\ Emptied(m).win = m.win /\ Emptied(m).free = RectCount
           /\ \A h \in Lists : Emptied(m).pieces[h] = <<>> /\ Emptied(m).next[h] = 0
<1>1. PICK r : r = Released(m) /\ ReleasedAll(m, r)
  BY ReleasedIs
<1>2. PICK e : e = [r EXCEPT !.short = FALSE]
  OBVIOUS
<1>3. /\ e \in Managers /\ ~e.short /\ e.win = m.win /\ e.free = RectCount /\ e.next = r.next
      /\ e.desk = m.desk /\ e.order = m.order /\ e.top = m.top /\ e.control = m.control
      /\ e.pieces = r.pieces
  BY <1>1, <1>2 DEF ReleasedAll, Managers
<1>4. \A h \in Lists : e.pieces[h] = <<>> /\ e.next[h] = 0
  BY <1>1, <1>3 DEF ReleasedAll
<1>5. Whole(e)
  <2>1. e.pieces \in PieceLists
    BY <1>3 DEF Managers, PieceLists
  <2>2. Held(e.pieces) = 0
    BY <1>4, <2>1, HeldNothing
  <2>3. RectCount + 0 = RectCount
    BY ScreenAssumption
  <2> QED BY <1>3, <2>2, <2>3 DEF Whole
<1>6. Kept(m, e)
  BY <1>3 DEF Kept, SameWin
<1>7. Emptied(m) = e
  BY <1>1, <1>2 DEF Emptied
<1> QED BY <1>3, <1>4, <1>5, <1>6, <1>7

\* All lists hold what is seen of their windows, unless the pool is short.
LEMMA RebuildIs ==
    ASSUME NEW m \in Managers, Whole(m), NoRepeats(m.order)
    PROVE  Rebuilt(m, Rebuild(m))
<1>1. m.order \in Seq(Handles)
  BY DEF Managers
<1>2. PICK all, k : /\ k \in Nat /\ all = Agenda(m) /\ k = Len(all)
                    /\ \A i \in 1 .. k : all[i] \in Lists /\ Shows(m, all[i])
                    /\ \A i, j \in 1 .. k : all[i] = all[j] => i = j
                    /\ \A h : Shows(m, h) => \E i \in 1 .. k : all[i] = h
  <2>1. PICK all, k : all = Agenda(m) /\ k = Len(m.order) + 1
    OBVIOUS
  <2>2. k \in Nat
    BY <1>1, <2>1, LenProperties
  <2>3. /\ Len(all) = k
        /\ \A i \in 1 .. k : all[i] \in Lists /\ (all[i] = Root \/ Listed(m.order, all[i]))
        /\ \A i, j \in 1 .. k : all[i] = all[j] => i = j
        /\ \A h : h = Root \/ Listed(m.order, h) => \E i \in 1 .. k : all[i] = h
    BY <1>1, <2>1, BuildOrder
  <2> QED BY <2>1, <2>2, <2>3 DEF Shows
<1>3. PICK after :
         /\ after[0] = Emptied(m) /\ \A n \in 1 .. k : after[n] = BuildNext(after[n - 1], all[n])
         /\ Rebuild(m) = after[k]
  BY <1>2, RebuildTurns
<1> DEFINE Reached(h, n) == \E j \in 1 .. n : all[j] = h
           Sound(a, n) ==
              /\ a \in Managers /\ Kept(m, a) /\ Whole(a)
              /\ \A h \in Lists : a.next[h] = 0
              /\ \A h \in Lists : ~Reached(h, n) => a.pieces[h] = <<>>
              /\ \A h \in Handles : ~Reached(h, n) => a.win[h] = m.win[h]
              /\ ~a.short => \A h \in Lists : Reached(h, n) => Parts(a, h) /\ FlagIs(m, a, h)
           P == {n \in 0 .. k : Sound(after[n], n)}
<1>4. 0 \in P
  <2>1. \A h : ~Reached(h, 0)
    OBVIOUS
  <2>2. Sound(after[0], 0)
    BY <1>3, <2>1, EmptiedIs
  <2>3. 0 \in 0 .. k
    BY <1>2
  <2> QED BY <2>2, <2>3
<1>5. ASSUME NEW n \in 1 .. k, n - 1 \in P PROVE n \in P
  <2>1. PICK a, b, g : a = after[n - 1] /\ b = after[n] /\ g = all[n] /\ b = BuildNext(a, g)
    BY <1>3
  <2>2. Sound(a, n - 1)
    BY <1>5, <2>1
  <2>3. \A h : Reached(h, n) <=> Reached(h, n - 1) \/ h = g
    <3>1. \A j \in 1 .. n : j \in 1 .. n - 1 \/ j = n
      BY <1>2
    <3>2. 1 .. n - 1 \subseteq 1 .. n /\ n \in 1 .. n
      BY <1>2
    <3> QED BY <2>1, <3>1, <3>2
  <2>4. g \in Lists /\ Shows(m, g) /\ ~Reached(g, n - 1)
    <3>1. \A j \in 1 .. n - 1 : j \in 1 .. k /\ j # n
      BY <1>2
    <3> QED BY <1>2, <2>1, <3>1
  <2>5. n \in 0 .. k
    BY <1>2
  <2> HIDE DEF Reached
  <2>6. CASE a.short
    <3>1. b = a
      BY <2>1, <2>6 DEF BuildNext
    <3>2. Sound(b, n)
      BY <2>2, <2>3, <2>6, <3>1
    <3> QED BY <2>1, <2>5, <3>2
  <2>7. CASE ~a.short
    <3>1. b = BuildList(a, g)
      BY <2>1, <2>7 DEF BuildNext
    <3>2. a.order = m.order /\ a.pieces[g] = <<>>
      BY <2>2, <2>4 DEF Kept
    <3>3. Built(a, b, g)
      BY <2>2, <2>4, <3>1, <3>2, BuildIs DEF Shows
    <3>4. Kept(m, b)
      BY <2>2, <3>3 DEF Built, Kept, SameWin
    <3>5. /\ b \in Managers /\ Whole(b) /\ \A h \in Lists : b.next[h] = 0
          /\ \A h \in Lists : ~Reached(h, n) => b.pieces[h] = <<>>
          /\ \A h \in Handles : ~Reached(h, n) => b.win[h] = m.win[h]
      BY <2>2, <2>3, <3>3 DEF Built, Lists
    <3>6. ASSUME ~b.short, NEW h \in Lists, Reached(h, n) PROVE Parts(b, h) /\ FlagIs(m, b, h)
      <4>1. CASE h = g
        <5>1. g # Root => a.win[g] = m.win[g]
          BY <2>2, <2>4 DEF Lists
        <5> QED BY <3>3, <3>6, <4>1, <5>1 DEF Built, FlagIs
      <4>2. CASE h # g
        <5>1. Parts(a, h) /\ FlagIs(m, a, h)
          BY <2>2, <2>3, <2>7, <3>6, <4>2
        <5>2. b.pieces[h] = a.pieces[h] /\ (h # Root => b.win[h] = a.win[h])
          BY <3>3, <4>2 DEF Built, Lists
        <5>3. \A u, v \in Int : Seen(b, h, u, v) <=> Seen(a, h, u, v)
          BY <2>2, <3>3, KeptSeen DEF Built
        <5> QED BY <5>1, <5>2, <5>3 DEF Parts, FlagIs
      <4> QED BY <4>1, <4>2
    <3>7. Sound(b, n)
      BY <3>4, <3>5, <3>6
    <3> QED BY <2>1, <2>5, <3>7
  <2> QED BY <2>6, <2>7
<1>6. k \in P
  <2> HIDE DEF P
  <2> QED BY <1>2, <1>4, <1>5, Turns
<1>7. PICK n : n = Rebuild(m)
  OBVIOUS
<1>8. Sound(n, k)
  BY <1>3, <1>6, <1>7
<1>9. \A h : Reached(h, k) <=> Shows(m, h)
  BY <1>2
<1>10. \A h \in Handles : ~Listed(m.order, h) => ~Reached(h, k) /\ h \in Lists
  BY <1>9 DEF Shows, Lists, Root, Handles
<1> HIDE DEF Reached
<1> QED BY <1>7, <1>8, <1>9, <1>10 DEF Rebuilt

----------------------------------------------------------------------------
(* The same arrangement gives the same lists *)

\* Two managers whose windows lie alike and whose lists are the same.
Alike(a, b) ==
    /\ a.order = b.order
    /\ \A h \in Handles : Listed(a.order, h) => a.win[h].outer = b.win[h].outer

Twins(a, b) ==
    Alike(a, b) /\ a.pieces = b.pieces /\ a.free = b.free /\ a.short = b.short

\* What is above a window follows from the order alone.
LEMMA AboveFollows ==
    ASSUME NEW a, NEW b, a.order = b.order, NEW h
    PROVE  Above(a, h) = Above(b, h)
BY DEF Above

LEMMA CutoutFollows ==
    ASSUME NEW a \in Managers, NEW b \in Managers, NoRepeats(a.order), Twins(a, b),
           NEW h \in Lists, Shows(a, h)
    PROVE  Cutout(a, h) = Cutout(b, h)
<1>1. PICK up \in Seq(Handles) : up = Above(a, h) /\ up = Above(b, h)
  <2>1. a.order \in Seq(Handles)
    BY DEF Managers
  <2>2. Above(a, h) = Above(b, h)
    BY AboveFollows DEF Twins, Alike
  <2> QED BY <2>1, <2>2, AboveAre DEF Shows
<1>2. DOMAIN up = 1 .. Len(up) /\ Len(up) \in Nat /\ \A i \in DOMAIN up : up[i] \in Handles
  BY LenProperties
<1>3. \A i \in DOMAIN up : Listed(a.order, up[i])
  <2>1. a.order \in Seq(Handles)
    BY DEF Managers
  <2>2. \A i \in DOMAIN up : Listed(up, up[i])
    BY DEF Listed
  <2>3. \A x : Listed(up, x) => Over(a.order, h, x)
    BY <1>1, <2>1, AboveAre DEF Shows
  <2>4. \A x : Over(a.order, h, x) => Listed(a.order, x)
    BY DEF Over, Before, Listed
  <2> QED BY <2>2, <2>3, <2>4
<1>4. \A i \in DOMAIN up : a.win[up[i]].outer = b.win[up[i]].outer
  BY <1>2, <1>3 DEF Twins, Alike
<1>5. Covers(a, h) = [i \in DOMAIN up |-> a.win[up[i]].outer]
      /\ Covers(b, h) = [i \in DOMAIN up |-> b.win[up[i]].outer]
  BY <1>1 DEF Covers
<1>6. Covers(a, h) = Covers(b, h)
  BY <1>4, <1>5
<1>7. Base(a, h) = Base(b, h) /\ a.free = b.free
  BY DEF Base, Twins, Alike, Shows, Lists
<1> QED BY <1>6, <1>7 DEF Cutout

\* The lists, the pool and the shortage that building a list leaves.
LEMMA BuildGives ==
    ASSUME NEW m \in Managers, NEW h \in Lists
    PROVE  IF m.free = 0
           THEN /\ BuildList(m, h).pieces = m.pieces /\ BuildList(m, h).free = m.free
                /\ BuildList(m, h).short = TRUE
           ELSE /\ BuildList(m, h).pieces = [m.pieces EXCEPT ![h] = Cutout(m, h).list]
                /\ BuildList(m, h).free = Cutout(m, h).free
                /\ BuildList(m, h).short = ~Cutout(m, h).ok
<1>1. CASE m.free = 0
  BY <1>1 DEF BuildList, Managers
<1>2. CASE m.free # 0
  <2>1. PICK c : c = Cutout(m, h)
    OBVIOUS
  <2>2. PICK b : b = [m EXCEPT !.pieces[h] = c.list, !.free = c.free, !.short = ~c.ok]
    OBVIOUS
  <2>3. BuildList(m, h) = IF c.ok /\ c.list # <<>> /\ h # Root
                          THEN [b EXCEPT !.win[h].broken = Len(c.list) > 1] ELSE b
    BY <1>2, <2>1, <2>2 DEF BuildList, Cutout
  <2>4. b.pieces = [m.pieces EXCEPT ![h] = c.list] /\ b.free = c.free /\ b.short = ~c.ok
        /\ DOMAIN b = {"win", "desk", "order", "top", "pieces", "next", "free", "short", "control"}
    BY <2>2 DEF Managers
  <2>5. /\ BuildList(m, h).pieces = b.pieces /\ BuildList(m, h).free = b.free
        /\ BuildList(m, h).short = b.short
    BY <2>3, <2>4
  <2> QED BY <1>2, <2>1, <2>4, <2>5
<1> QED BY <1>1, <1>2

\* Each turn of the rebuild keeps them twins.
LEMMA BuildTwins ==
    ASSUME NEW a \in Managers, NEW b \in Managers, NoRepeats(a.order), Twins(a, b),
           Whole(a), Whole(b), NEW h \in Lists, Shows(a, h), a.pieces[h] = <<>>
    PROVE  Twins(BuildList(a, h), BuildList(b, h))
<1>1. Cutout(a, h) = Cutout(b, h)
  BY CutoutFollows
<1>2. /\ BuildList(a, h).pieces = BuildList(b, h).pieces
      /\ BuildList(a, h).free = BuildList(b, h).free
      /\ BuildList(a, h).short = BuildList(b, h).short
  <2>1. a.free = b.free /\ a.pieces = b.pieces
    BY DEF Twins
  <2>2. CASE a.free = 0
    <3>1. /\ BuildList(a, h).pieces = a.pieces /\ BuildList(a, h).free = a.free
          /\ BuildList(a, h).short = TRUE
      BY <2>2, BuildGives
    <3>2. /\ BuildList(b, h).pieces = b.pieces /\ BuildList(b, h).free = b.free
          /\ BuildList(b, h).short = TRUE
      BY <2>1, <2>2, BuildGives
    <3> QED BY <2>1, <3>1, <3>2
  <2>3. CASE a.free # 0
    <3>1. /\ BuildList(a, h).pieces = [a.pieces EXCEPT ![h] = Cutout(a, h).list]
          /\ BuildList(a, h).free = Cutout(a, h).free
          /\ BuildList(a, h).short = ~Cutout(a, h).ok
      BY <2>3, BuildGives
    <3>2. /\ BuildList(b, h).pieces = [b.pieces EXCEPT ![h] = Cutout(b, h).list]
          /\ BuildList(b, h).free = Cutout(b, h).free
          /\ BuildList(b, h).short = ~Cutout(b, h).ok
      BY <2>1, <2>3, BuildGives
    <3> QED BY <1>1, <2>1, <3>1, <3>2
  <2> QED BY <2>2, <2>3
<1>3. Kept(a, BuildList(a, h)) /\ Kept(b, BuildList(b, h))
  <2>1. b.pieces[h] = <<>> /\ NoRepeats(b.order) /\ Shows(b, h)
    BY DEF Twins, Alike, Shows
  <2> QED BY <2>1, BuildIs DEF Built, Shows
<1> QED BY <1>2, <1>3 DEF Twins, Alike, Kept, SameWin

\* A rebuild depends on nothing but how the windows lie.
LEMMA RebuildTwins ==
    ASSUME NEW a \in Managers, NEW b \in Managers, Whole(a), Whole(b), NoRepeats(a.order),
           Alike(a, b)
    PROVE  Twins(Rebuild(a), Rebuild(b))
<1>1. a.order \in Seq(Handles) /\ b.order = a.order
  BY DEF Managers, Alike
<1>2. PICK all, k : /\ k \in Nat /\ all = Agenda(a) /\ all = Agenda(b) /\ k = Len(all)
                    /\ \A i \in 1 .. k : all[i] \in Lists /\ Shows(a, all[i])
                    /\ \A i, j \in 1 .. k : all[i] = all[j] => i = j
  <2>1. PICK all, k : all = Agenda(a) /\ k = Len(a.order) + 1
    OBVIOUS
  <2>2. k \in Nat /\ Agenda(b) = all
    BY <1>1, <2>1, LenProperties DEF Agenda
  <2>3. /\ Len(all) = k
        /\ \A i \in 1 .. k : all[i] \in Lists /\ (all[i] = Root \/ Listed(a.order, all[i]))
        /\ \A i, j \in 1 .. k : all[i] = all[j] => i = j
    BY <1>1, <2>1, BuildOrder
  <2> QED BY <2>1, <2>2, <2>3 DEF Shows
<1>3. PICK f :
         /\ f[0] = Emptied(a) /\ \A n \in 1 .. k : f[n] = BuildNext(f[n - 1], all[n])
         /\ Rebuild(a) = f[k]
  <2>1. k \in Nat /\ all = Agenda(a) /\ k = Len(all)
    BY <1>2
  <2> QED BY ONLY <2>1, RebuildTurns
<1>4. PICK g :
         /\ g[0] = Emptied(b) /\ \A n \in 1 .. k : g[n] = BuildNext(g[n - 1], all[n])
         /\ Rebuild(b) = g[k]
  <2>1. k \in Nat /\ all = Agenda(b) /\ k = Len(all)
    BY <1>2
  <2> QED BY ONLY <2>1, RebuildTurns
<1> DEFINE Reached(h, n) == \E j \in 1 .. n : all[j] = h
           Step(c, d, n) ==
              /\ c \in Managers /\ d \in Managers /\ Whole(c) /\ Whole(d) /\ Twins(c, d)
              /\ c.order = a.order
              /\ \A h \in Lists : ~Reached(h, n) => c.pieces[h] = <<>>
           P == {n \in 0 .. k : Step(f[n], g[n], n)}
<1>5. 0 \in P
  <2>1. PICK c, d : c = Emptied(a) /\ d = Emptied(b)
    OBVIOUS
  <2>2. /\ c \in Managers /\ Kept(a, c) /\ Whole(c) /\ ~c.short /\ c.free = RectCount
        /\ \A h \in Lists : c.pieces[h] = <<>>
        /\ d \in Managers /\ Kept(b, d) /\ Whole(d) /\ ~d.short /\ d.free = RectCount
        /\ \A h \in Lists : d.pieces[h] = <<>>
    BY <2>1, EmptiedIs
  <2>3. c.pieces = d.pieces
    <3>1. c.pieces \in [Lists -> Seq(RectType)] /\ d.pieces \in [Lists -> Seq(RectType)]
      BY <2>2 DEF Managers
    <3> QED BY <2>2, <3>1
  <2>4. c.short = d.short /\ c.free = d.free
    <3>1. c.short \in BOOLEAN /\ d.short \in BOOLEAN
      BY <2>2 DEF Managers
    <3> QED BY <2>2, <3>1
  <2>5. Alike(c, d) /\ c.order = a.order
    BY <2>2 DEF Alike, Kept, SameWin
  <2>6. 0 \in 0 .. k
    BY <1>2
  <2> QED BY <1>3, <1>4, <2>1, <2>2, <2>3, <2>4, <2>5, <2>6 DEF Twins
<1>6. ASSUME NEW n \in 1 .. k, n - 1 \in P PROVE n \in P
  <2>1. PICK c, d, h : /\ c = f[n - 1] /\ d = g[n - 1] /\ h = all[n]
                       /\ f[n] = BuildNext(c, h) /\ g[n] = BuildNext(d, h)
    BY <1>3, <1>4
  <2>2. Step(c, d, n - 1)
    BY <1>6, <2>1
  <2>3. \A x : Reached(x, n) <=> Reached(x, n - 1) \/ x = h
    <3>1. \A j \in 1 .. n : j \in 1 .. n - 1 \/ j = n
      BY <1>2
    <3>2. 1 .. n - 1 \subseteq 1 .. n /\ n \in 1 .. n
      BY <1>2
    <3> QED BY <2>1, <3>1, <3>2
  <2>4. h \in Lists /\ Shows(c, h) /\ ~Reached(h, n - 1)
    <3>1. \A j \in 1 .. n - 1 : j \in 1 .. k /\ j # n
      BY <1>2
    <3> QED BY <1>2, <2>1, <2>2, <3>1 DEF Shows
  <2>5. n \in 0 .. k
    BY <1>2
  <2> HIDE DEF Reached
  <2>6. CASE c.short
    <3>1. f[n] = c /\ g[n] = d
      BY <2>1, <2>2, <2>6 DEF BuildNext, Twins
    <3>2. Step(c, d, n)
      BY <2>2, <2>3
    <3> QED BY <2>5, <3>1, <3>2
  <2>7. CASE ~c.short
    <3>1. PICK x, y : x = f[n] /\ y = g[n] /\ x = BuildList(c, h) /\ y = BuildList(d, h)
      BY <2>1, <2>2, <2>7 DEF BuildNext, Twins
    <3>2. c.pieces[h] = <<>> /\ d.pieces[h] = <<>> /\ NoRepeats(c.order) /\ NoRepeats(d.order) /\ Shows(d, h)
      BY <2>2, <2>4 DEF Twins, Alike, Shows
    <3>3. Built(c, x, h) /\ Built(d, y, h)
      BY <2>2, <2>4, <3>1, <3>2, BuildIs DEF Shows
    <3>4. Twins(x, y)
      BY <2>2, <2>4, <3>1, <3>2, BuildTwins
    <3>5. Step(x, y, n)
      BY <2>2, <2>3, <3>3, <3>4 DEF Built, Kept
    <3> QED BY <2>5, <3>1, <3>5
  <2> QED BY <2>6, <2>7
<1>7. k \in P
  <2> HIDE DEF P
  <2> QED BY <1>2, <1>5, <1>6, Turns
<1> QED BY <1>3, <1>4, <1>7

----------------------------------------------------------------------------
(* The invariant after a rebuild, and after a step without one *)

\* Two windows that differ in no field are the same.
LEMMA WinExt ==
    ASSUME NEW a \in Wins, NEW b \in Wins, SameWin(a, b), a.broken = b.broken
    PROVE  a = b
BY DEF Wins, SameWin

\* What the borders leave is a rectangle.
LEMMA WorkType ==
    ASSUME NEW kind, NEW r \in RectType
    PROVE  WorkRect(kind, r) \in RectType
<1>1. r.x \in Int /\ r.y \in Int /\ Right(r) \in Int /\ Bottom(r) \in Int /\ BoxW \in Int /\ BoxH \in Int
  BY ScreenAssumption DEF RectType, Right, Bottom
<1>2. PICK titled, info, side, foot \in Int :
         /\ titled = (IF Titled(kind) THEN BoxH - 1 ELSE 0)
         /\ info = (IF "INFO" \in kind THEN BoxH - 1 ELSE 0)
         /\ side = (IF Vertical(kind) THEN BoxW - 1 ELSE 0)
         /\ foot = (IF Horizontal(kind) THEN BoxH - 1 ELSE 0)
  BY <1>1
<1>3. WorkRect(kind, r) = Corners(r.x + 1, r.y + 1 + titled + info, Right(r) - 1 - side, Bottom(r) - 1 - foot)
  BY <1>2 DEF WorkRect
<1>4. r.x + 1 \in Int /\ r.y + 1 + titled + info \in Int /\ Right(r) - 1 - side \in Int /\ Bottom(r) - 1 - foot \in Int
  BY <1>1, <1>2
<1>5. Corners(r.x + 1, r.y + 1 + titled + info, Right(r) - 1 - side, Bottom(r) - 1 - foot) \in RectType
  BY <1>4, CornersAre
<1> QED BY <1>3, <1>5

\* The flags of the windows say how many pieces they have.
Flags(m) ==
    \A h \in Handles : Listed(m.order, h) /\ m.pieces[h] # <<>> =>
        (m.win[h].broken <=> Len(m.pieces[h]) > 1)

\* If a rebuild finds the same pieces and the flags are right, it changes nothing.
LEMMA FlagsSettle ==
    ASSUME NEW m \in Managers, Whole(m), NoRepeats(m.order), Flags(m),
           NEW r, r = Rebuild(m), ~r.short, r.pieces = m.pieces, r.free = m.free
    PROVE  Settled(m)
<1>1. Rebuilt(m, r)
  BY RebuildIs
<1>2. r.win \in [Handles -> Wins] /\ m.win \in [Handles -> Wins]
  BY <1>1 DEF Rebuilt, Managers
<1>3. ASSUME NEW h \in Handles PROVE r.win[h] = m.win[h]
  <2>1. CASE ~Listed(m.order, h)
    BY <1>1, <2>1 DEF Rebuilt
  <2>2. CASE Listed(m.order, h)
    <3>1. FlagIs(m, r, h) /\ h # Root
      BY <1>1, <2>2 DEF Rebuilt, Shows, Lists, Handles, Root
    <3>2. CASE m.pieces[h] = <<>>
      BY <3>1, <3>2 DEF FlagIs
    <3>3. CASE m.pieces[h] # <<>>
      <4>1. r.win[h].broken <=> m.win[h].broken
        BY <2>2, <3>1, <3>3 DEF FlagIs, Flags
      <4>2. r.win[h] \in Wins /\ m.win[h] \in Wins /\ SameWin(r.win[h], m.win[h])
        BY <1>1, <1>2 DEF Rebuilt, Kept
      <4>3. r.win[h].broken = m.win[h].broken
        BY <4>1, <4>2 DEF Wins
      <4> QED BY <4>2, <4>3, WinExt
    <3> QED BY <3>2, <3>3
  <2> QED BY <2>1, <2>2
<1>4. r.win = m.win
  BY <1>2, <1>3
<1> QED BY <1>4 DEF Settled

\* What the manager must be like before a rebuild.
Ready(m) ==
    /\ m \in Managers /\ Whole(m) /\ Tree(m) /\ Controlled(m)
    /\ \A h \in Handles : m.win[h].open =>
          /\ m.win[h].owner # NONE /\ PublicRect(m.win[h].kind, m.win[h].outer)
          /\ m.win[h].work = WorkRect(m.win[h].kind, m.win[h].outer)

\* After a rebuild the invariant holds.
LEMMA AfterRebuild ==
    ASSUME NEW m, Ready(m)
    PROVE  Fine(Rebuild(m)) /\ Rebuilt(m, Rebuild(m))
<1> DEFINE n == Rebuild(m)
<1>1. m \in Managers /\ Whole(m) /\ NoRepeats(m.order) /\ Tree(m)
  BY DEF Ready, Tree
<1>2. Rebuilt(m, n)
  BY <1>1, RebuildIs
<1> HIDE DEF n
<1>3. n \in Managers /\ Whole(n) /\ Kept(m, n)
  BY <1>2 DEF Rebuilt
<1>4. Tree(n)
  BY <1>1, <1>3 DEF Tree, Kept, SameWin
<1>5. Framed(n)
  BY <1>1, <1>2, <1>3 DEF Ready, Framed, Tree, Rebuilt, Kept, SameWin
<1>6. Controlled(n)
  BY <1>3 DEF Ready, Controlled, Kept, SameWin
<1>7. Good(n)
  BY <1>3, <1>4, <1>5, <1>6 DEF Good
<1>8. ASSUME ~n.short PROVE Settled(n)
  <2>1. Alike(m, n) /\ NoRepeats(n.order)
    BY <1>1, <1>3 DEF Alike, Kept, SameWin
  <2>2. PICK r : r = Rebuild(n)
    OBVIOUS
  <2>3. Twins(n, r)
    <3>1. Twins(Rebuild(m), Rebuild(n))
      BY <1>1, <1>3, <2>1, RebuildTwins
    <3> QED BY <2>2, <3>1 DEF n
  <2>4. ~r.short /\ r.pieces = n.pieces /\ r.free = n.free
    BY <1>8, <2>3 DEF Twins
  <2>5. Flags(n)
    <3>1. ASSUME NEW h \in Handles, Listed(n.order, h), n.pieces[h] # <<>>
          PROVE  n.win[h].broken <=> Len(n.pieces[h]) > 1
      <4>1. FlagIs(m, n, h) /\ h # Root
        BY <1>2, <1>3, <1>8, <3>1 DEF Rebuilt, Kept, Shows, Lists, Handles, Root
      <4> QED BY <3>1, <4>1 DEF FlagIs
    <3> QED BY <3>1 DEF Flags
  <2> QED BY <1>3, <2>1, <2>2, <2>4, <2>5, FlagsSettle
<1> QED BY <1>2, <1>7, <1>8 DEF n, Fine

\* A step that lets the tree, the lists and the open windows alone.
Still(m, n) ==
    /\ n \in Managers /\ n.order = m.order /\ n.top = m.top /\ n.pieces = m.pieces
    /\ n.free = m.free /\ n.short = m.short
    /\ \A h \in Handles :
          n.win[h].open = m.win[h].open /\ (m.win[h].open => n.win[h] = m.win[h])

LEMMA StillFine ==
    ASSUME NEW m, Fine(m), NEW n, Still(m, n), Controlled(n)
    PROVE  Fine(n)
<1>1. /\ m \in Managers /\ Whole(m) /\ Tree(m) /\ Framed(m) /\ (~m.short => Settled(m))
  BY DEF Fine, Good
<1>2. n \in Managers /\ Whole(n)
  BY <1>1 DEF Still, Whole
<1>3. Tree(n) /\ Framed(n)
  BY <1>1 DEF Still, Tree, Framed
<1>4. Good(n)
  BY <1>2, <1>3 DEF Good
<1>5. ASSUME ~n.short PROVE Settled(n)
  <2>1. PICK q, r : q = Rebuild(m) /\ r = Rebuild(n)
    OBVIOUS
  <2>2. ~q.short /\ q.pieces = m.pieces /\ q.free = m.free /\ q.win = m.win /\ NoRepeats(m.order)
    BY <1>1, <1>5, <2>1 DEF Still, Settled, Tree
  <2>3. Alike(m, n)
    BY <1>1 DEF Still, Alike, Tree
  <2>4. Twins(q, r)
    BY <1>1, <1>2, <2>1, <2>2, <2>3, RebuildTwins
  <2>5. ~r.short /\ r.pieces = n.pieces /\ r.free = n.free /\ NoRepeats(n.order)
    BY <2>2, <2>4 DEF Twins, Still
  <2>6. Flags(n)
    <3>1. Rebuilt(m, q)
      BY <1>1, <2>1, <2>2, RebuildIs
    <3>2. ASSUME NEW h \in Handles, Listed(n.order, h), n.pieces[h] # <<>>
          PROVE  n.win[h].broken <=> Len(n.pieces[h]) > 1
      <4>1. FlagIs(m, q, h) /\ h # Root
        BY <2>2, <3>1, <3>2 DEF Rebuilt, Still, Shows, Lists, Handles, Root
      <4>2. n.win[h] = m.win[h] /\ n.pieces[h] = m.pieces[h]
        BY <1>1, <3>2 DEF Still, Tree
      <4> QED BY <2>2, <3>2, <4>1, <4>2 DEF FlagIs
    <3> QED BY <3>2 DEF Flags
  <2> QED BY <1>2, <2>1, <2>5, <2>6, FlagsSettle
<1> QED BY <1>4, <1>5 DEF Fine

----------------------------------------------------------------------------
(* What the invariant says of the properties *)

\* A cell is a pair of numbers.
Pair(c) == \E u, v \in Int : c = <<u, v>>

LEMMA CoveredAre ==
    ASSUME NEW m \in Managers, NEW h \in Lists
    PROVE  /\ \A c \in Covered(m, h) : Pair(c)
           /\ \A u, v \in Int : <<u, v>> \in Covered(m, h) <=> OnSome(m.pieces[h], u, v)
<1>1. PICK list \in Seq(RectType) : list = m.pieces[h]
  BY DEF Managers
<1>2. DOMAIN list = 1 .. Len(list) /\ \A i \in DOMAIN list : list[i] \in RectType
  BY LenProperties
<1>3. Covered(m, h) = UNION {Cells(list[i]) : i \in DOMAIN list}
  BY <1>1 DEF Covered
<1>4. \A c : c \in Covered(m, h) <=> \E i \in DOMAIN list : c \in Cells(list[i])
  BY <1>3
<1>5. \A c \in Covered(m, h) : Pair(c)
  BY <1>2, <1>4, CellsAre DEF Pair
<1>6. \A u, v \in Int : <<u, v>> \in Covered(m, h) <=> OnSome(list, u, v)
  BY <1>2, <1>4, CellsAre DEF OnSome
<1> QED BY <1>1, <1>5, <1>6

LEMMA HiddenAre ==
    ASSUME NEW m \in Managers, NoRepeats(m.order), NEW h \in Lists, Shows(m, h)
    PROVE  \A u, v \in Int : <<u, v>> \in Hidden(m, h) <=> Veiled(m, h, u, v)
<1>1. m.order \in Seq(Handles) /\ \A x \in Handles : m.win[x].outer \in RectType
  BY DEF Managers, Wins
<1>2. PICK up \in Seq(Handles) : up = Above(m, h)
  BY <1>1, AboveAre DEF Shows
<1>3. \A x : Listed(up, x) <=> Over(m.order, h, x)
  BY <1>1, <1>2, AboveAre DEF Shows
<1>4. \A i \in DOMAIN up : up[i] \in Handles
  BY LenProperties
<1>5. Hidden(m, h) = UNION {Cells(m.win[up[i]].outer) : i \in DOMAIN up}
  BY <1>2 DEF Hidden
<1>6. ASSUME NEW u \in Int, NEW v \in Int
      PROVE  <<u, v>> \in Hidden(m, h) <=> Veiled(m, h, u, v)
  <2>1. <<u, v>> \in Hidden(m, h) <=> \E i \in DOMAIN up : <<u, v>> \in Cells(m.win[up[i]].outer)
    BY <1>5
  <2>2. \A i \in DOMAIN up : <<u, v>> \in Cells(m.win[up[i]].outer) <=> On(m.win[up[i]].outer, u, v)
    BY <1>1, <1>4, CellsAre
  <2>3. (\E i \in DOMAIN up : On(m.win[up[i]].outer, u, v))
        <=> \E x \in Handles : Listed(up, x) /\ On(m.win[x].outer, u, v)
    BY <1>4 DEF Listed
  <2> QED BY <1>3, <2>1, <2>2, <2>3 DEF Veiled
<1> QED BY <1>6

\* The lists of a settled manager are what is seen of its windows.
LEMMA FineParts ==
    ASSUME NEW m, Fine(m), ~m.short, NEW h \in Lists, Shows(m, h)
    PROVE  Parts(m, h)
<1>1. m \in Managers /\ Whole(m) /\ NoRepeats(m.order) /\ Settled(m)
  BY DEF Fine, Good, Tree
<1>2. PICK r : r = Rebuild(m) /\ Rebuilt(m, r)
  BY <1>1, RebuildIs
<1>3. ~r.short /\ r.pieces = m.pieces
  BY <1>1, <1>2 DEF Settled
<1>4. Parts(r, h) /\ r \in Managers /\ Kept(m, r)
  BY <1>2, <1>3 DEF Rebuilt
<1>5. \A u, v \in Int : Seen(r, h, u, v) <=> Seen(m, h, u, v)
  BY <1>1, <1>4, KeptSeen
<1> QED BY <1>3, <1>4, <1>5 DEF Parts

\* The members of an order are those listed.
LEMMA MembersAre ==
    ASSUME NEW order \in Seq(Handles)
    PROVE  \A h : h \in ToSet(order) <=> h \in Handles /\ Listed(order, h)
BY LenProperties DEF ToSet, Listed

LEMMA FineIsSafe ==
    ASSUME Fine(wm)
    PROVE  TreeSafety
<1>1. wm \in Managers /\ Whole(wm) /\ Tree(wm) /\ Framed(wm) /\ Controlled(wm)
  BY DEF Fine, Good
<1>2. wm.order \in Seq(Handles) /\ wm.control \in Controls
  BY <1>1 DEF Managers
<1>3. TypeOK
  <2>1. /\ wm.desk \in Clients \cup {NONE} /\ wm.top \in {Root} \cup Handles
        /\ wm.short \in BOOLEAN /\ wm.control.state \in Gestures
    BY <1>1 DEF Managers, Controls, Lists
  <2> QED BY <1>1, <2>1 DEF TypeOK, Whole, Held
<1>4. TreeIsOpenWindows
  BY <1>1 DEF TreeIsOpenWindows, Tree, Framed
<1>5. GesturesHaveWindows
  BY <1>1, <1>2, MembersAre DEF GesturesHaveWindows, Controlled, Tree
<1>6. ASSUME ~wm.short, NEW h \in {Root} \cup ToSet(wm.order)
      PROVE  /\ Covered(wm, h) = Cells(Base(wm, h)) \ Hidden(wm, h)
             /\ \A i, j \in DOMAIN wm.pieces[h] :
                   i # j => Meet(wm.pieces[h][i], wm.pieces[h][j]) = Zero
  <2>1. h \in Lists /\ Shows(wm, h)
    BY <1>2, MembersAre DEF Lists, Shows
  <2>2. Parts(wm, h)
    BY <1>6, <2>1, FineParts
  <2>3. NoRepeats(wm.order)
    BY <1>1 DEF Tree
  <2>4. Base(wm, h) \in RectType
    BY <1>1, <2>1, <2>3, CoversAre DEF Shows
  <2>5. ASSUME NEW u \in Int, NEW v \in Int
        PROVE  <<u, v>> \in Covered(wm, h)
               <=> <<u, v>> \in Cells(Base(wm, h)) /\ <<u, v>> \notin Hidden(wm, h)
    <3>1. <<u, v>> \in Covered(wm, h) <=> OnSome(wm.pieces[h], u, v)
      BY <1>1, <2>1, CoveredAre
    <3>2. <<u, v>> \in Cells(Base(wm, h)) <=> On(Base(wm, h), u, v)
      BY <2>4, CellsAre
    <3>3. <<u, v>> \in Hidden(wm, h) <=> Veiled(wm, h, u, v)
      BY <1>1, <2>1, <2>3, HiddenAre
    <3> QED BY <2>2, <3>1, <3>2, <3>3 DEF Parts, Seen
  <2>6. \A c \in Covered(wm, h) : Pair(c)
    BY <1>1, <2>1, CoveredAre
  <2>7. \A c \in Cells(Base(wm, h)) : Pair(c)
    BY <2>4, CellsAre DEF Pair
  <2>8. Covered(wm, h) = Cells(Base(wm, h)) \ Hidden(wm, h)
    BY <2>5, <2>6, <2>7 DEF Pair
  <2>9. ASSUME NEW i \in DOMAIN wm.pieces[h], NEW j \in DOMAIN wm.pieces[h], i # j
        PROVE  Meet(wm.pieces[h][i], wm.pieces[h][j]) = Zero
    <3>1. wm.pieces[h] \in Seq(RectType)
      BY <1>1, <2>1 DEF Managers
    <3>2. wm.pieces[h][i] \in RectType /\ wm.pieces[h][j] \in RectType
      BY <3>1, LenProperties
    <3>3. Disjoint(wm.pieces[h][i], wm.pieces[h][j])
      BY <2>2, <2>9 DEF Parts, Apart
    <3> QED BY <3>2, <3>3, MeetIs
  <2> QED BY <2>8, <2>9
<1>7. PiecesAreTheVisiblePart
  BY <1>6 DEF PiecesAreTheVisiblePart
<1> QED BY <1>3, <1>4, <1>5, <1>7 DEF TreeSafety

----------------------------------------------------------------------------
(* The tree *)

TopIsLast(m) == m.top = IF m.order = <<>> THEN Root ELSE Last(m.order)

\* Everything but the tree is the same.
Aside(m, n) ==
    /\ n.win = m.win /\ n.desk = m.desk /\ n.pieces = m.pieces /\ n.next = m.next
    /\ n.free = m.free /\ n.short = m.short /\ n.control = m.control

\* A window that is added is the top one, and lies over all others.
Added(m, n, h) ==
    /\ n \in Managers /\ Aside(m, n) /\ NoRepeats(n.order) /\ TopIsLast(n)
    /\ \A x : Listed(n.order, x) <=> x = h \/ Listed(m.order, x)
    /\ \A x, y : Before(m.order, x, y) => Before(n.order, x, y)
    /\ \A x : Listed(m.order, x) => Before(n.order, x, h)

LEMMA TreeAddIs ==
    ASSUME NEW m \in Managers, NoRepeats(m.order), NEW h \in Handles, ~Listed(m.order, h)
    PROVE  Added(m, TreeAdd(m, h), h)
<1>1. PICK order \in Seq(Handles) : order = m.order
  BY DEF Managers
<1>2. PICK new : new = Append(order, h)
  OBVIOUS
<1>3. new \in Seq(Handles) /\ NoRepeats(new) /\ new # <<>> /\ Longer(order, new, h)
  BY <1>1, <1>2, AppendListed
<1>4. PICK k \in Nat : k = Len(order)
  BY LenProperties
<1>5. /\ DOMAIN order = 1 .. k /\ Len(new) = k + 1 /\ new[k + 1] = h
      /\ \A i \in 1 .. k : new[i] = order[i]
  BY <1>2, <1>4, AppendProperties, LenProperties
<1>6. DOMAIN new = 1 .. k + 1
  BY <1>3, <1>5, LenProperties
<1>7. Last(new) = h
  BY <1>5 DEF Last
<1>8. ASSUME NEW x, Listed(order, x) PROVE Before(new, x, h)
  <2>1. PICK i \in 1 .. k : order[i] = x
    BY <1>5, <1>8 DEF Listed
  <2>2. i \in 1 .. k + 1 /\ k + 1 \in 1 .. k + 1 /\ i < k + 1
    BY <1>4
  <2> QED BY <1>5, <1>6, <2>1, <2>2 DEF Before
<1>9. PICK n : n = [m EXCEPT !.order = new, !.top = h]
  OBVIOUS
<1>10. TreeAdd(m, h) = n
  BY <1>1, <1>2, <1>9 DEF TreeAdd, Managers
<1>11. n \in Managers /\ Aside(m, n) /\ n.order = new /\ n.top = h
  <2>1. h \in Lists
    BY DEF Lists
  <2> QED BY <1>3, <1>9, <2>1 DEF Managers, Aside
<1>12. TopIsLast(n)
  BY <1>3, <1>7, <1>11 DEF TopIsLast
<1> QED BY <1>1, <1>3, <1>8, <1>10, <1>11, <1>12 DEF Added, Longer

\* A window that is deleted leaves the others in their order.
Removed(m, n, h) ==
    /\ n \in Managers /\ Aside(m, n) /\ NoRepeats(n.order) /\ TopIsLast(n)
    /\ \A x \in Handles : Listed(n.order, x) <=> x # h /\ Listed(m.order, x)
    /\ \A x, y \in Handles : x # h /\ y # h /\ Before(m.order, x, y) => Before(n.order, x, y)

LEMMA TreeDeleteIs ==
    ASSUME NEW m \in Managers, NoRepeats(m.order), NEW h \in Handles
    PROVE  Removed(m, TreeDelete(m, h), h)
<1>1. PICK order \in Seq(Handles) : order = m.order /\ NoRepeats(order)
  BY DEF Managers
<1>2. PICK rest : rest = Without(order, h)
  OBVIOUS
<1>3. /\ rest \in Seq(Handles) /\ NoRepeats(rest)
      /\ \A x \in Handles : Listed(rest, x) <=> x # h /\ Listed(order, x)
  BY <1>1, <1>2, WithoutListed
<1>4. \A x, y \in Handles : x # h /\ y # h /\ Before(order, x, y) => Before(rest, x, y)
  BY <1>1, <1>2, WithoutBefore
<1>5. PICK top \in Lists : top = IF rest = <<>> THEN Root ELSE rest[Len(rest)]
  <2>1. rest # <<>> => Len(rest) \in 1 .. Len(rest)
    BY <1>3, EmptySeq
  <2>2. rest # <<>> => rest[Len(rest)] \in Handles
    BY <1>3, <2>1, ElementOfSeq
  <2> QED BY <2>2 DEF Lists
<1>6. PICK n : n = [m EXCEPT !.order = rest, !.top = top]
  OBVIOUS
<1>7. TreeDelete(m, h) = n
  BY <1>1, <1>2, <1>5, <1>6 DEF TreeDelete
<1>8. n \in Managers /\ Aside(m, n) /\ n.order = rest /\ n.top = top
  BY <1>3, <1>6 DEF Managers, Aside
<1>9. TopIsLast(n)
  BY <1>5, <1>8 DEF TopIsLast, Last
<1> QED BY <1>1, <1>3, <1>4, <1>7, <1>8, <1>9 DEF Removed

\* Topping a window keeps the order of the others, and puts none over it.
Topped(m, n, h) ==
    /\ n \in Managers /\ Aside(m, n) /\ NoRepeats(n.order) /\ TopIsLast(n)
    /\ \A x \in Handles : Listed(n.order, x) <=> Listed(m.order, x)
    /\ \A x, y \in Handles : x # h /\ Before(m.order, x, y) => Before(n.order, x, y)

LEMMA TreeTopIs ==
    ASSUME NEW m \in Managers, NoRepeats(m.order), TopIsLast(m), NEW h \in Handles,
           Listed(m.order, h)
    PROVE  Topped(m, TreeTop(m, h), h)
<1>1. CASE m.top = h
  BY <1>1 DEF TreeTop, Topped, Aside
<1>2. CASE m.top # h
  <2>1. PICK r : r = TreeDelete(m, h) /\ Removed(m, r, h)
    BY TreeDeleteIs
  <2>2. r \in Managers /\ NoRepeats(r.order) /\ ~Listed(r.order, h)
    BY <2>1 DEF Removed
  <2>3. PICK n : n = TreeAdd(r, h) /\ Added(r, n, h)
    BY <2>2, TreeAddIs
  <2>4. TreeTop(m, h) = n
    BY <1>2, <2>1, <2>3 DEF TreeTop
  <2>5. ASSUME NEW x \in Handles, NEW y \in Handles, x # h, Before(m.order, x, y)
        PROVE  Before(n.order, x, y)
    <3>1. Listed(m.order, x)
      BY <2>5 DEF Before, Listed
    <3>2. CASE y = h
      <4>1. Listed(r.order, x)
        BY <2>1, <2>5, <3>1 DEF Removed
      <4> QED BY <2>3, <3>2, <4>1 DEF Added
    <3>3. CASE y # h
      BY <2>1, <2>3, <2>5, <3>3 DEF Removed, Added
    <3> QED BY <3>2, <3>3
  <2>6. Aside(m, n)
    BY <2>1, <2>3 DEF Removed, Added, Aside
  <2> QED BY <2>1, <2>3, <2>4, <2>5, <2>6 DEF Topped, Removed, Added
<1> QED BY <1>1, <1>2

----------------------------------------------------------------------------
(* The three kinds of step *)

Within(r, d) == \A u, v \in Int : On(r, u, v) => On(d, u, v)

\* Between two arrangements no cell of a window comes into sight but in d: the
\* window is in d, or it has stayed and what has left its place above it was in d.
UncoversFor(m, n, d, x) ==
    \/ x # Root /\ Within(n.win[x].outer, d)
    \/ /\ Shows(m, x)
       /\ x # Root => n.win[x].outer = m.win[x].outer /\ n.win[x].work = m.win[x].work
       /\ \A y \in Handles : Over(m.order, x, y) =>
             \/ Over(n.order, x, y) /\ n.win[y].outer = m.win[y].outer
             \/ Within(m.win[y].outer, d)

Uncovers(m, n, d) == \A x \in Lists : Shows(n, x) => UncoversFor(m, n, d, x)

\* The arrangement is the old one again; flags of open windows may differ.
Back(m, n) ==
    /\ n \in Managers /\ Whole(n) /\ Kept(m, n)
    /\ \A h \in Handles : ~Listed(m.order, h) => n.win[h] = m.win[h]

\* A step without a rebuild; one with a rebuild; and one that failed.
Steady == Still(wm, wm') /\ Controlled(wm') /\ effects'.result

Arranged ==
    \E a, d :
        /\ Ready(a) /\ wm' = Rebuild(a) /\ effects'.result
        /\ effects'.op # "TOP" =>
              /\ d \in RectType /\ Uncovers(wm, a, d)
              /\ effects'.messages = Redraws(wm', d)
              /\ effects'.background /\ effects'.dirty = d

Reverted == \E a : Back(wm, a) /\ wm' = Rebuild(a)

Step == effects'.op # "UP" /\ (Steady \/ Arranged \/ Reverted)

LEMMA BackReady ==
    ASSUME NEW m, Fine(m), NEW n, Back(m, n)
    PROVE  Ready(n)
<1>1. n \in Managers /\ Whole(n) /\ Kept(m, n)
  BY DEF Back
<1>2. m \in Managers /\ Tree(m) /\ Framed(m) /\ Controlled(m)
  BY DEF Fine, Good
<1>3. Tree(n)
  BY <1>1, <1>2 DEF Tree, Kept, SameWin
<1>4. Controlled(n)
  BY <1>1, <1>2 DEF Controlled, Kept, SameWin
<1>5. \A h \in Handles : n.win[h].open =>
          /\ n.win[h].owner # NONE /\ PublicRect(n.win[h].kind, n.win[h].outer)
          /\ n.win[h].work = WorkRect(n.win[h].kind, n.win[h].outer)
  BY <1>1, <1>2 DEF Framed, Kept, SameWin
<1> QED BY <1>1, <1>3, <1>4, <1>5 DEF Ready

\* A step of any kind keeps the invariant.
LEMMA StepFine ==
    ASSUME Fine(wm), Steady \/ Arranged \/ Reverted
    PROVE  Fine(wm')
<1>1. CASE Steady
  BY <1>1, StillFine DEF Steady
<1>2. CASE Arranged
  BY <1>2, AfterRebuild DEF Arranged
<1>3. CASE Reverted
  BY <1>3, AfterRebuild, BackReady DEF Reverted
<1> QED BY <1>1, <1>2, <1>3

\* Walks go on in lists that are as they were.
LEMMA StepWalks ==
    ASSUME Fine(wm), Steady \/ Arranged \/ Reverted
    PROVE  \A h \in Lists : wm'.next[h] # 0 => wm'.pieces[h] = wm.pieces[h]
<1>1. CASE Steady
  BY <1>1 DEF Steady, Still
<1>2. CASE Arranged
  BY <1>2, AfterRebuild DEF Arranged, Rebuilt
<1>3. CASE Reverted
  BY <1>3, AfterRebuild, BackReady DEF Reverted, Rebuilt
<1> QED BY <1>1, <1>2, <1>3

\* What is left of the old lists and windows when the old arrangement is rebuilt.
Unchanged(m, n) ==
    /\ n.desk = m.desk /\ n.order = m.order /\ n.top = m.top /\ n.control = m.control
    /\ n.pieces = m.pieces /\ n.free = m.free /\ n.short = m.short
    /\ \A h \in Handles :
          /\ SameWin(n.win[h], m.win[h])
          /\ m.pieces[h] # <<>> => n.win[h] = m.win[h]

LEMMA BackUnchanged ==
    ASSUME NEW m, Fine(m), ~m.short, NEW a, Back(m, a), NEW n, n = Rebuild(a)
    PROVE  Unchanged(m, n)
<1>1. m \in Managers /\ Whole(m) /\ NoRepeats(m.order) /\ Tree(m) /\ Framed(m) /\ Settled(m)
  BY DEF Fine, Good, Tree
<1>2. a \in Managers /\ Whole(a) /\ Kept(m, a)
  BY DEF Back
<1>3. PICK r : r = Rebuild(m)
  OBVIOUS
<1>4. ~r.short /\ r.pieces = m.pieces /\ r.free = m.free /\ r.win = m.win
  BY <1>1, <1>3 DEF Settled
<1>5. Alike(m, a)
  BY <1>2 DEF Alike, Kept, SameWin
<1>6. Twins(r, n)
  BY <1>1, <1>2, <1>3, <1>5, RebuildTwins
<1>7. Rebuilt(a, n) /\ Rebuilt(m, r)
  <2>1. NoRepeats(a.order)
    BY <1>1, <1>2 DEF Kept
  <2> QED BY <1>1, <1>2, <1>3, <2>1, RebuildIs
<1>8. Kept(a, n) /\ n \in Managers
  BY <1>7 DEF Rebuilt
<1>9. n.short = m.short
  <2>1. m.short \in BOOLEAN /\ n.short \in BOOLEAN
    BY <1>1, <1>8 DEF Managers
  <2> QED BY <1>4, <1>6, <2>1 DEF Twins
<1>10. ASSUME NEW h \in Handles
       PROVE  /\ SameWin(n.win[h], m.win[h])
              /\ m.pieces[h] # <<>> => n.win[h] = m.win[h]
  <2>1. SameWin(n.win[h], m.win[h])
    BY <1>2, <1>8 DEF Kept, SameWin
  <2>2. ASSUME m.pieces[h] # <<>> PROVE n.win[h] = m.win[h]
    <3>1. Listed(m.order, h) /\ Listed(a.order, h)
      BY <1>1, <1>2, <2>2 DEF Framed, Tree, Kept
    <3>2. ~n.short /\ h \in Lists /\ h # Root
      BY <1>9 DEF Lists, Handles, Root
    <3>3. FlagIs(a, n, h) /\ FlagIs(m, r, h)
      BY <1>4, <1>7, <3>1, <3>2 DEF Rebuilt, Shows
    <3>4. n.win[h].broken <=> m.win[h].broken
      BY <1>4, <1>6, <2>2, <3>2, <3>3 DEF FlagIs, Twins
    <3>5. n.win[h] \in Wins /\ m.win[h] \in Wins
      BY <1>1, <1>8 DEF Managers
    <3>6. n.win[h].broken = m.win[h].broken
      BY <3>4, <3>5 DEF Wins
    <3> QED BY <2>1, <3>5, <3>6, WinExt
  <2> QED BY <2>1, <2>2
<1> QED BY <1>2, <1>4, <1>6, <1>8, <1>9, <1>10 DEF Unchanged, Kept, Twins

\* Two managers that differ in no field are the same.
LEMMA ManagerExt ==
    ASSUME NEW a \in Managers, NEW b \in Managers, a.win = b.win, a.desk = b.desk,
           a.order = b.order, a.top = b.top, a.pieces = b.pieces, a.next = b.next,
           a.free = b.free, a.short = b.short, a.control = b.control
    PROVE  a = b
<1>1. a = [win |-> a.win, desk |-> a.desk, order |-> a.order, top |-> a.top,
           pieces |-> a.pieces, next |-> a.next, free |-> a.free, short |-> a.short,
           control |-> a.control]
  BY ONLY a \in Managers DEF Managers
<1>2. b = [win |-> b.win, desk |-> b.desk, order |-> b.order, top |-> b.top,
           pieces |-> b.pieces, next |-> b.next, free |-> b.free, short |-> b.short,
           control |-> b.control]
  BY ONLY b \in Managers DEF Managers
<1> QED BY <1>1, <1>2

\* A manager that differs in nothing but the walks and some flags.
LEMMA NoTrace ==
    ASSUME NEW m \in Managers, NEW n \in Managers, Unchanged(m, n)
    PROVE  LET flagged(h) == [m.win[h] EXCEPT !.broken = n.win[h].broken]
               kept(h) == IF m.pieces[h] = <<>> THEN flagged(h) ELSE m.win[h]
           IN  n = [m EXCEPT !.next = n.next, !.win = [h \in Handles |-> kept(h)]]
<1> DEFINE flagged(h) == [m.win[h] EXCEPT !.broken = n.win[h].broken]
           kept(h) == IF m.pieces[h] = <<>> THEN flagged(h) ELSE m.win[h]
<1>1. m.win \in [Handles -> Wins] /\ n.win \in [Handles -> Wins] /\ n.next \in [Lists -> Nat]
  BY DEF Managers
<1>2. ASSUME NEW h \in Handles PROVE n.win[h] = kept(h)
  <2>1. CASE m.pieces[h] # <<>>
    BY <2>1 DEF Unchanged
  <2>2. CASE m.pieces[h] = <<>>
    <3>1. PICK a \in Wins, b \in Wins : a = m.win[h] /\ b = n.win[h] /\ SameWin(b, a)
      BY <1>1 DEF Unchanged
    <3>2. PICK f : f = [a EXCEPT !.broken = b.broken]
      OBVIOUS
    <3>3. f \in Wins /\ SameWin(b, f) /\ f.broken = b.broken
      BY <3>1, <3>2 DEF Wins, SameWin
    <3>4. b = f
      BY <3>1, <3>3, WinExt
    <3> QED BY <2>2, <3>1, <3>2, <3>4
  <2> QED BY <2>1, <2>2
<1>3. n.win = [h \in Handles |-> kept(h)]
  BY <1>1, <1>2
<1> HIDE DEF kept
<1>4. PICK e : e = [m EXCEPT !.next = n.next, !.win = n.win]
  OBVIOUS
<1>5. e \in Managers /\ e.next = n.next /\ e.win = n.win /\ e.desk = n.desk /\ e.order = n.order
      /\ e.top = n.top /\ e.pieces = n.pieces /\ e.free = n.free /\ e.short = n.short
      /\ e.control = n.control
  BY <1>1, <1>4 DEF Managers, Unchanged
<1>6. e = n
  BY <1>5, ManagerExt
<1> QED BY <1>3, <1>4, <1>6 DEF kept

----------------------------------------------------------------------------
(* The actions *)

\* A frame with its shadow has the cells of the frame.
LEMMA ShadowedHas ==
    ASSUME NEW r \in RectType
    PROVE  /\ Shadowed(r) \in RectType
           /\ Right(r) <= Width /\ Bottom(r) <= Height => Within(r, Shadowed(r))
<1>1. r.x \in Int /\ r.y \in Int /\ r.w \in Int /\ r.h \in Int /\ Width \in Int /\ Height \in Int
  BY ScreenAssumption DEF RectType
<1>2. CASE Empty(r)
  <2>1. \A u, v \in Int : ~On(r, u, v)
    BY <1>1, <1>2 DEF Empty, On, Right, Bottom
  <2>2. Zero \in RectType
    BY DEF Zero, Rect, RectType
  <2> QED BY <1>2, <2>1, <2>2 DEF Shadowed, Within
<1>3. CASE ~Empty(r)
  <2>1. PICK w, h \in Int : w = Lesser(r.w + 2, Width - r.x) /\ h = Lesser(r.h + 2, Height - r.y)
    BY <1>1 DEF Lesser
  <2>2. Right(r) <= Width /\ Bottom(r) <= Height => w >= r.w /\ h >= r.h
    BY <1>1, <2>1 DEF Lesser, Right, Bottom
  <2>3. PICK s : s = [r EXCEPT !.w = w, !.h = h]
    OBVIOUS
  <2>4. Shadowed(r) = s
    BY <1>3, <2>1, <2>3 DEF Shadowed
  <2>5. s \in RectType /\ s.x = r.x /\ s.y = r.y /\ s.w = w /\ s.h = h
    BY <2>1, <2>3 DEF RectType
  <2>6. ASSUME Right(r) <= Width /\ Bottom(r) <= Height,
               NEW u \in Int, NEW v \in Int, On(r, u, v)
        PROVE  On(s, u, v)
    BY <1>1, <2>1, <2>2, <2>5, <2>6 DEF On, Right, Bottom
  <2> QED BY <2>4, <2>5, <2>6 DEF Within
<1> QED BY <1>2, <1>3

\* What the hull of two rectangles holds.
LEMMA HullWithin ==
    ASSUME NEW a \in RectType, NEW b \in RectType, NEW r \in RectType
    PROVE  Within(r, a) \/ Within(r, b) => Within(r, Hull(a, b))
BY HullHas DEF Within

\* Only window h is another one.
PutWin(m, h, w) == [m EXCEPT !.win = [m.win EXCEPT ![h] = w]]

Put(m, n, h, w) ==
    /\ n \in Managers /\ n.win[h] = w /\ \A g \in Handles \ {h} : n.win[g] = m.win[g]
    /\ n.desk = m.desk /\ n.order = m.order /\ n.top = m.top /\ n.pieces = m.pieces
    /\ n.next = m.next /\ n.free = m.free /\ n.short = m.short /\ n.control = m.control

LEMMA PutWinIs ==
    ASSUME NEW m \in Managers, NEW h \in Handles, NEW w \in Wins
    PROVE  Put(m, PutWin(m, h, w), h, w)
<1>1. PICK win \in [Handles -> Wins] : win = [m.win EXCEPT ![h] = w]
  BY DEF Managers
<1>2. win[h] = w /\ \A g \in Handles \ {h} : win[g] = m.win[g]
  BY <1>1 DEF Managers
<1>3. PICK n : n = [m EXCEPT !.win = win]
  OBVIOUS
<1>4. /\ n \in Managers /\ n.win = win /\ n.desk = m.desk /\ n.order = m.order /\ n.top = m.top
      /\ n.pieces = m.pieces /\ n.next = m.next /\ n.free = m.free /\ n.short = m.short
      /\ n.control = m.control
  BY <1>3 DEF Managers
<1>5. PutWin(m, h, w) = n
  BY <1>1, <1>3 DEF PutWin
<1> QED BY <1>2, <1>4, <1>5 DEF Put

\* An arrangement in which the open windows of before are those of before, but h.
LEMMA ReadyIf ==
    ASSUME Fine(wm), NEW a \in Managers, Whole(a), NoRepeats(a.order), TopIsLast(a),
           a.control = wm.control,
           NEW h \in Handles, Listed(a.order, h), a.win[h].open, a.win[h].owner # NONE,
           wm.win[h].open => a.win[h].kind = wm.win[h].kind,
           PublicRect(a.win[h].kind, a.win[h].outer),
           a.win[h].work = WorkRect(a.win[h].kind, a.win[h].outer),
           \A g \in Handles \ {h} :
               a.win[g] = wm.win[g] /\ (Listed(a.order, g) <=> Listed(wm.order, g))
    PROVE  Ready(a)
<1>1. Tree(wm) /\ Framed(wm) /\ Controlled(wm) /\ wm \in Managers
  BY DEF Fine, Good
<1>2. Tree(a)
  BY <1>1 DEF Tree, TopIsLast
<1>3. Controlled(a)
  BY <1>1 DEF Controlled
<1>4. \A g \in Handles : a.win[g].open =>
          /\ a.win[g].owner # NONE /\ PublicRect(a.win[g].kind, a.win[g].outer)
          /\ a.win[g].work = WorkRect(a.win[g].kind, a.win[g].outer)
  BY <1>1 DEF Framed
<1> QED BY <1>2, <1>3, <1>4 DEF Ready

\* What was rebuilt for an arrangement in which at most h is another one, put back.
LEMMA RestoredBack ==
    ASSUME Fine(wm), NEW a, Ready(a), a.desk = wm.desk, a.control = wm.control,
           NEW h \in Handles,
           \A g \in Handles \ {h} :
               a.win[g] = wm.win[g] /\ (Listed(a.order, g) <=> Listed(wm.order, g)),
           NEW b \in Managers, b.desk = Rebuild(a).desk, b.control = Rebuild(a).control,
           b.order = wm.order, b.top = wm.top, b.pieces = Rebuild(a).pieces,
           b.free = Rebuild(a).free, SameWin(b.win[h], wm.win[h]),
           ~Listed(wm.order, h) => b.win[h] = wm.win[h],
           \A g \in Handles \ {h} : b.win[g] = Rebuild(a).win[g]
    PROVE  Back(wm, b)
<1>1. PICK r : r = Rebuild(a) /\ Rebuilt(a, r)
  BY AfterRebuild
<1>2. Kept(a, r) /\ Whole(r)
  BY <1>1 DEF Rebuilt
<1>3. Whole(b)
  BY <1>1, <1>2 DEF Whole
<1>4. Kept(wm, b)
  BY <1>1, <1>2 DEF Kept, SameWin
<1>5. \A g \in Handles : ~Listed(wm.order, g) => b.win[g] = wm.win[g]
  BY <1>1 DEF Rebuilt
<1> QED BY <1>3, <1>4, <1>5 DEF Back

\* Gestures that are not touched are still on an open window.
LEMMA StillControlled ==
    ASSUME Fine(wm), NEW n, Still(wm, n), n.control = wm.control
    PROVE  Controlled(n)
BY DEF Fine, Good, Still, Controlled, Managers

\* A call without anything to repaint is a steady step.
LEMMA QuietIs ==
    ASSUME Fine(wm), NEW op, op # "UP", NEW m, Still(wm, m), Controlled(m), Quiet(op, m)
    PROVE  Step
<1>1. effects'.result /\ effects'.op = op
  BY DEF Quiet, NoEffects
<1> QED BY <1>1 DEF Step, Steady, Quiet

\* A window that is not open may become any other that is not open.
LEMMA PutStill ==
    ASSUME Fine(wm), NEW h \in Handles, ~wm.win[h].open, NEW w \in Wins, ~w.open
    PROVE  /\ Still(wm, PutWin(wm, h, w)) /\ Controlled(PutWin(wm, h, w))
<1>1. PICK n : n = PutWin(wm, h, w) /\ Put(wm, n, h, w)
  BY PutWinIs DEF Fine, Good
<1>2. wm.win \in [Handles -> Wins]
  BY DEF Fine, Good, Managers
<1>3. Still(wm, n)
  <2>1. ASSUME NEW g \in Handles
        PROVE  n.win[g].open = wm.win[g].open /\ (wm.win[g].open => n.win[g] = wm.win[g])
    <3>1. CASE g = h
      <4>1. w.open \in BOOLEAN /\ wm.win[h].open \in BOOLEAN
        BY <1>2 DEF Wins
      <4> QED BY <1>1, <3>1, <4>1 DEF Put
    <3>2. CASE g # h
      BY <1>1, <3>2 DEF Put
    <3> QED BY <3>1, <3>2
  <2> QED BY <1>1, <2>1 DEF Put, Still
<1>4. Controlled(n)
  BY <1>1, <1>3, StillControlled DEF Put
<1> QED BY <1>1, <1>3, <1>4

LEMMA CreateStep ==
    ASSUME Fine(wm), NEW c \in Clients, NEW kind \in Kinds, NEW full, WindCreate(c, kind, full)
    PROVE  Step
<1> DEFINE spare == {h \in Handles : wm.win[h].owner = NONE}
           h == CHOOSE g \in spare : \A i \in spare : g <= i
<1>1. h \in spare
  <2>1. spare # {} /\ spare \in SUBSET Nat
    BY DEF WindCreate, Handles
  <2>2. IsFiniteSet(spare)
    <3>1. IsFiniteSet(Handles)
      BY ScreenAssumption, FS_Interval DEF Handles
    <3> QED BY <3>1, FS_Subset
  <2>3. \E g \in spare : \A i \in spare : g <= i
    BY <2>1, <2>2, LeastMember
  <2> QED BY <2>3
<1> HIDE DEF h
<1>2. h \in Handles /\ wm.win[h].owner = NONE
  BY <1>1
<1>3. ~wm.win[h].open
  BY <1>2 DEF Fine, Good, Framed
<1>4. PICK w : w = [NoWindow EXCEPT !.owner = c, !.kind = kind]
  OBVIOUS
<1>5. w \in Wins /\ ~w.open
  <2>1. Zero \in RectType
    BY DEF Zero, Rect, RectType
  <2> QED BY <1>4, <2>1 DEF NoWindow, Wins
<1>6. Quiet("CREATE", PutWin(wm, h, w))
  BY <1>4 DEF WindCreate, PutWin, h
<1> QED BY <1>2, <1>3, <1>5, <1>6, PutStill, QuietIs

LEMMA DeleteStep ==
    ASSUME Fine(wm), NEW c \in Clients, NEW h \in Handles, WindDelete(c, h)
    PROVE  Step
<1>1. ~wm.win[h].open /\ wm \in Managers /\ Whole(wm) /\ wm.pieces[h] = <<>>
  BY DEF WindDelete, Fine, Good, Framed
<1>2. PICK n : n = Release(wm, h)
  OBVIOUS
<1>3. ReleasedOne(wm, n, h)
  BY <1>1, <1>2, ReleaseIs DEF Lists
<1>4. n.pieces = wm.pieces /\ n.free = wm.free
  <2>1. wm.pieces \in [Lists -> Seq(RectType)] /\ n.pieces \in [Lists -> Seq(RectType)]
    BY <1>1, <1>3 DEF ReleasedOne, Managers
  <2>2. \A g \in Lists : n.pieces[g] = wm.pieces[g]
    BY <1>1, <1>3 DEF ReleasedOne
  <2>3. Len(wm.pieces[h]) = 0 /\ wm.free \in Nat
    BY <1>1 DEF Managers
  <2>4. n.free = wm.free + Len(wm.pieces[h])
    BY <1>1, <1>2 DEF Release, Managers
  <2> QED BY <2>1, <2>2, <2>3, <2>4
<1>5. NoWindow \in Wins /\ ~NoWindow.open
  <2>1. Zero \in RectType
    BY DEF Zero, Rect, RectType
  <2> QED BY <2>1 DEF NoWindow, Wins
<1>6. PICK m : m = PutWin(n, h, NoWindow) /\ Put(n, m, h, NoWindow)
  BY <1>3, <1>5, PutWinIs DEF ReleasedOne
<1>7. ASSUME NEW g \in Handles
      PROVE  m.win[g].open = wm.win[g].open /\ (wm.win[g].open => m.win[g] = wm.win[g])
  <2>1. CASE g = h
    <3>1. wm.win[h].open = FALSE
      BY <1>1 DEF Managers, Wins
    <3>2. m.win[h].open = FALSE
      BY <1>5, <1>6 DEF Put, Wins
    <3> QED BY <2>1, <3>1, <3>2
  <2>2. CASE g # h
    BY <1>3, <1>6, <2>2 DEF Put, ReleasedOne
  <2> QED BY <2>1, <2>2
<1>8. Still(wm, m) /\ m.control = wm.control
  BY <1>3, <1>4, <1>6, <1>7 DEF Put, Still, ReleasedOne
<1>9. Controlled(m)
  BY <1>8, StillControlled
<1>10. Quiet("DELETE", m)
  BY <1>2, <1>6 DEF WindDelete, PutWin
<1> QED BY <1>8, <1>9, <1>10, QuietIs

LEMMA WalkStep ==
    ASSUME Fine(wm), NEW c \in Clients, NEW h \in Lists, NEW first \in BOOLEAN, WindWalk(c, h, first)
    PROVE  Step
<1> DEFINE list == wm.pieces[h]
           work == IF h = Root THEN RootWork ELSE wm.win[h].work
           from == IF first THEN 1 ELSE wm.next[h]
           shown == {i \in DOMAIN list : from > 0 /\ i >= from
                                         /\ Meet(work, list[i]) # Zero}
           at == CHOOSE i \in shown : \A j \in shown : i <= j
           go == IF shown = {} \/ at = Len(list) THEN 0 ELSE at + 1
<1>1. wm \in Managers /\ list \in Seq(RectType)
  BY DEF Fine, Good, Managers
<1>2. go \in Nat
  <2>1. DOMAIN list = 1 .. Len(list) /\ Len(list) \in Nat
    BY <1>1, LenProperties
  <2>2. shown \subseteq 1 .. Len(list)
    BY <2>1
  <2>3. ASSUME shown # {} PROVE at \in shown
    <3> HIDE DEF shown, list
    <3>1. IsFiniteSet(shown)
      <4>1. IsFiniteSet(1 .. Len(list))
        BY <2>1, FS_Interval
      <4> QED BY <2>2, <4>1, FS_Subset
    <3>2. shown \in SUBSET Nat
      BY <2>2
    <3>3. \E i \in shown : \A j \in shown : i <= j
      BY <2>3, <3>1, <3>2, LeastMember
    <3> QED BY <3>3
  <2> HIDE DEF at, shown, list
  <2>4. CASE shown = {}
    BY <2>4
  <2>5. CASE shown # {}
    <3>1. at \in 1 .. Len(list)
      BY <2>2, <2>3, <2>5
    <3>2. at \in Nat
      BY <2>1, <3>1
    <3> QED BY <3>2
  <2> QED BY <2>4, <2>5
<1>3. Quiet("WALK", [wm EXCEPT !.next[h] = go])
  BY DEF WindWalk
<1> HIDE DEF go
<1>4. PICK next \in [Lists -> Nat] : next = [wm.next EXCEPT ![h] = go]
  BY <1>1, <1>2 DEF Managers
<1>5. PICK n : n = [wm EXCEPT !.next = next]
  OBVIOUS
<1>6. Quiet("WALK", n)
  BY <1>3, <1>4, <1>5
<1>7. Still(wm, n) /\ n.control = wm.control
  BY <1>1, <1>5 DEF Managers, Still
<1>8. Controlled(n)
  BY <1>7, StillControlled
<1> QED BY <1>6, <1>7, <1>8, QuietIs

\* The Desktop's tree, titles and sliders, and what lies under a menu or a form.
LEMMA DeskStep ==
    ASSUME Fine(wm), NEW c \in Clients, WindSetDesk(c)
    PROVE  Step
<1>1. PICK n : n = [wm EXCEPT !.desk = c]
  OBVIOUS
<1>2. wm' = n /\ effects'.result /\ effects'.op = "DESK"
  BY <1>1 DEF WindSetDesk, Done
<1>3. Still(wm, n) /\ n.control = wm.control
  BY <1>1 DEF Fine, Good, Still, Managers
<1> QED BY <1>2, <1>3, StillControlled DEF Step, Steady

LEMMA SameStep ==
    ASSUME Fine(wm), wm' = wm, effects'.result, effects'.op # "UP"
    PROVE  Step
<1>1. Still(wm, wm)
  BY DEF Fine, Good, Still
<1>2. Controlled(wm)
  BY DEF Fine, Good
<1> QED BY <1>1, <1>2 DEF Step, Steady

LEMMA FrameStep ==
    ASSUME Fine(wm), NEW c, NEW h, WindSetFrame(c, h)
    PROVE  Step
BY SameStep DEF WindSetFrame, NoEffects

LEMMA DamageStep ==
    ASSUME Fine(wm), NEW r, Damage(r)
    PROVE  Step
BY SameStep DEF Damage, Done

LEMMA HoldStep ==
    ASSUME Fine(wm), Hold
    PROVE  Step
BY SameStep DEF Hold, Quiet, NoEffects

\* A window that is found lies in the tree.
LEMMA FoundIs ==
    ASSUME wm \in Managers, NEW p, Found(p) \in Handles
    PROVE  Listed(wm.order, Found(p))
<1> DEFINE hit == {i \in DOMAIN wm.order : Inside(wm.win[wm.order[i]].outer, p)}
           last == CHOOSE i \in hit : \A j \in hit : j <= i
<1>1. Root \notin Handles /\ NONE \notin Handles
  BY ScreenAssumption DEF Root, Handles
<1>2. PICK k \in Nat : k = Len(wm.order) /\ DOMAIN wm.order = 1 .. k
  BY LenProperties DEF Managers
<1>3. hit # {} /\ Found(p) = wm.order[last]
  BY <1>1 DEF Found
<1>4. last \in hit
  <2>1. hit \in SUBSET (0 .. k)
    BY <1>2
  <2> HIDE DEF hit
  <2>2. \E i \in hit : \A j \in hit : j <= i
    BY <1>2, <1>3, <2>1, GreatestMember
  <2> QED BY <2>2
<1> HIDE DEF last
<1> QED BY <1>3, <1>4 DEF Listed

\* The windows' gadgets, and what a press on one begins.
LEMMA HitsAre ==
    ASSUME NEW h, NEW p
    PROVE  Hits(h, p) \subseteq Gadgets
BY DEF Hits, Gadgets

LEMMA GestureIs ==
    ASSUME NEW kind, NEW gadget
    PROVE  Gesture(kind, gadget) \in Gestures
BY DEF Gesture, Gestures

\* A gesture that is followed, or ends.
LEMMA SampledIs ==
    ASSUME Fine(wm), NEW op, NEW control \in Controls, NEW messages,
           control.state \notin {"IDLE", "IGNORE"} =>
               /\ control.handle \in Handles /\ Listed(wm.order, control.handle)
               /\ control.start = wm.win[control.handle].outer,
           Sampled(op, control, messages)
    PROVE  Steady /\ effects'.op = op
<1>1. PICK n : n = [wm EXCEPT !.control = control]
  OBVIOUS
<1>2. wm' = n /\ effects'.result /\ effects'.op = op
  BY <1>1 DEF Sampled, NoEffects
<1>3. Still(wm, n) /\ n.control = control /\ n.win = wm.win
  BY <1>1 DEF Fine, Good, Still, Managers
<1>4. Controlled(n)
  <2>1. Tree(wm) /\ Framed(wm)
    BY DEF Fine, Good
  <2> QED BY <1>3, <2>1 DEF Controlled, Tree, Framed
<1> QED BY <1>2, <1>3, <1>4 DEF Steady

LEMMA PressStep ==
    ASSUME Fine(wm), NEW p \in Points, Press(p)
    PROVE  Step
<1>1. wm \in Managers /\ wm.control \in Controls /\ Tree(wm)
  BY DEF Fine, Good, Managers
<1>2. CASE Found(p) \notin Handles
  <2>1. PICK control : control = [wm.control EXCEPT !.state = "IGNORE"]
    OBVIOUS
  <2>2. control \in Controls /\ control.state = "IGNORE"
    BY <1>1, <2>1 DEF Controls, Gestures
  <2>3. Sampled("PRESS", control, <<>>)
    BY <1>2, <2>1 DEF Press
  <2> QED BY <2>2, <2>3, SampledIs DEF Step
<1>3. CASE Found(p) \in Handles
  <2>1. PICK h \in Handles : h = Found(p) /\ Listed(wm.order, h)
    BY <1>1, <1>3, FoundIs
  <2>2. PICK gadget \in Gadgets, state \in Gestures :
           \E messages : Sampled("PRESS", Pressed(state, h, gadget, p), messages)
    <3>1. PICK gadget \in Hits(h, p) :
             IF wm.top # h
             THEN Sampled("PRESS", Pressed("RELEASE", h, gadget, p),
                          Post("TOPPED", h, wm.win[h].outer))
             ELSE Sampled("PRESS", Pressed(Gesture(wm.win[h].kind, gadget), h, gadget, p),
                          IF AtOnce(wm.win[h].kind, gadget) = {} THEN <<>>
                          ELSE Post(CHOOSE t \in AtOnce(wm.win[h].kind, gadget) : TRUE,
                                    h, wm.win[h].outer))
      BY <2>1 DEF Press
    <3>2. gadget \in Gadgets
      BY HitsAre
    <3>3. "RELEASE" \in Gestures /\ Gesture(wm.win[h].kind, gadget) \in Gestures
      BY GestureIs DEF Gestures
    <3> QED BY <3>1, <3>2, <3>3
  <2>3. PICK control : control = Pressed(state, h, gadget, p)
    OBVIOUS
  <2>4. /\ control \in Controls /\ control.handle = h
        /\ control.start = wm.win[h].outer
    <3>1. p[1] \in Int /\ p[2] \in Int
      BY ScreenAssumption
    <3>2. wm.win[h].outer \in RectType
      BY <1>1 DEF Managers, Wins
    <3> QED BY <2>3, <3>1, <3>2 DEF Pressed, Controls
  <2> QED BY <2>1, <2>2, <2>3, <2>4, SampledIs DEF Step
<1> QED BY <1>2, <1>3

\* The end of a gesture leaves the windows alone.
LEMMA UpSteady ==
    ASSUME Fine(wm), NEW p, Up(p)
    PROVE  Steady /\ effects'.op = "UP"
<1>1. wm.control \in Controls
  BY DEF Fine, Good, Managers
<1>2. Idle \in Controls
  <2>1. Zero \in RectType
    BY DEF Zero, Rect, RectType
  <2> QED BY <2>1 DEF Idle, Controls, Gestures, Gadgets
<1>3. PICK control \in {Idle, wm.control} :
         /\ control.state \in {"IDLE", "IGNORE"}
         /\ \E messages : Sampled("UP", control, messages)
  BY DEF Up, Idle
<1> QED BY <1>1, <1>2, <1>3, SampledIs

\* A rebuild for an arrangement that nothing but d has to be painted for.
LEMMA DoneIs ==
    ASSUME NEW a, Ready(a), NEW d \in RectType, Uncovers(wm, a, d), NEW op, op # "UP",
           Done(op, Rebuild(a), d, Redraws(Rebuild(a), d))
    PROVE  Step
<1>1. /\ wm' = Rebuild(a) /\ effects'.result /\ effects'.op = op
      /\ effects'.messages = Redraws(wm', d)
      /\ effects'.background /\ effects'.dirty = d
  BY DEF Done
<1>2. Arranged
  BY <1>1 DEF Arranged
<1> QED BY <1>1, <1>2 DEF Step

LEMMA UndoneIs ==
    ASSUME NEW b, Back(wm, b), NEW op, op # "UP", Undone(op, b)
    PROVE  Step
<1>1. Reverted /\ effects'.op = op
  BY DEF Reverted, Undone, NoEffects
<1> QED BY <1>1 DEF Step

\* The rectangle of an open window lies on the screen.
LEMMA PublicIs ==
    ASSUME NEW kind, NEW r \in RectType, PublicRect(kind, r)
    PROVE  Shadowed(r) \in RectType /\ Within(r, Shadowed(r))
<1>1. Right(r) <= Width /\ Bottom(r) <= Height
  BY ScreenAssumption DEF PublicRect
<1> QED BY <1>1, ShadowedHas

LEMMA OpenStep ==
    ASSUME Fine(wm), NEW c \in Clients, NEW h \in Handles, NEW r \in Rects[h], WindOpen(c, h, r)
    PROVE  Step
<1>1. /\ wm \in Managers /\ Whole(wm) /\ Tree(wm) /\ Framed(wm)
      /\ wm.win[h].owner = c /\ ~wm.win[h].open /\ PublicRect(wm.win[h].kind, r)
  BY DEF Fine, Good, WindOpen, Owns
<1>2. r \in RectType /\ WorkRect(wm.win[h].kind, r) \in RectType
  BY ScreenAssumption, WorkType DEF Handles, RectType
<1>3. wm.win[h] \in Wins
  BY <1>1 DEF Managers
<1>4. PICK w : w = [wm.win[h] EXCEPT !.open = TRUE, !.outer = r,
                                     !.work = WorkRect(wm.win[h].kind, r)]
  OBVIOUS
<1>5. /\ w \in Wins /\ w.open /\ w.owner = c /\ w.kind = wm.win[h].kind /\ w.outer = r
      /\ w.work = WorkRect(w.kind, r)
  BY <1>1, <1>2, <1>3, <1>4 DEF Wins
<1>6. PICK m : m = PutWin(wm, h, w) /\ Put(wm, m, h, w)
  BY <1>1, <1>5, PutWinIs
<1>7. [wm EXCEPT !.win[h].open = TRUE, !.win[h].outer = r,
                 !.win[h].work = WorkRect(wm.win[h].kind, r)] = m
  BY <1>1, <1>3, <1>4, <1>6 DEF PutWin, Managers
<1>8. ~Listed(wm.order, h) /\ NoRepeats(wm.order)
  BY <1>1 DEF Tree
<1>9. PICK a : a = TreeAdd(m, h) /\ Added(m, a, h)
  BY <1>6, <1>8, TreeAddIs DEF Put
<1>10. /\ a \in Managers /\ NoRepeats(a.order) /\ TopIsLast(a) /\ a.win[h] = w
       /\ a.desk = wm.desk /\ a.control = wm.control /\ Listed(a.order, h)
       /\ \A g \in Handles \ {h} :
              a.win[g] = wm.win[g] /\ (Listed(a.order, g) <=> Listed(wm.order, g))
  BY <1>6, <1>9 DEF Added, Aside, Put
<1>11. Whole(a)
  BY <1>1, <1>6, <1>9 DEF Added, Aside, Put, Whole
<1>12. Ready(a)
  <2>1. c # NONE
    BY ScreenAssumption
  <2> QED BY <1>1, <1>5, <1>10, <1>11, <2>1, ReadyIf
<1>13. Shadowed(r) \in RectType /\ Within(r, Shadowed(r))
  BY <1>1, <1>2, PublicIs
<1>14. Uncovers(wm, a, Shadowed(r))
  <2>1. SUFFICES ASSUME NEW x \in Lists, Shows(a, x)
                 PROVE  UncoversFor(wm, a, Shadowed(r), x)
    BY DEF Uncovers
  <2>2. CASE x = h
    <3>1. h # Root
      BY DEF Handles, Root
    <3> QED BY <1>5, <1>10, <1>13, <2>2, <3>1 DEF UncoversFor
  <2>3. CASE x # h
    <3>1. Shows(wm, x)
      BY <1>10, <2>1, <2>3 DEF Shows, Lists
    <3>2. x # Root => a.win[x].outer = wm.win[x].outer /\ a.win[x].work = wm.win[x].work
      BY <1>10, <2>3 DEF Lists
    <3>3. ASSUME NEW y \in Handles, Over(wm.order, x, y)
          PROVE  Over(a.order, x, y) /\ a.win[y].outer = wm.win[y].outer
      <4>1. Listed(wm.order, y)
        BY <3>3 DEF Over, Before, Listed
      <4>2. Over(a.order, x, y)
        BY <1>6, <1>9, <3>3 DEF Over, Added, Put
      <4> QED BY <1>8, <1>10, <4>1, <4>2
    <3> QED BY <3>1, <3>2, <3>3 DEF UncoversFor
  <2> QED BY <2>2, <2>3
<1>15. PICK built : built = Rebuild(a) /\ Rebuilt(a, built)
  BY <1>12, AfterRebuild
<1>16. CASE ~built.short
  <2>1. Done("OPEN", built, Shadowed(r), Redraws(built, Shadowed(r)))
    BY <1>7, <1>9, <1>15, <1>16 DEF WindOpen
  <2> QED BY <1>12, <1>13, <1>14, <1>15, <2>1, DoneIs
<1>17. CASE built.short
  <2>1. PICK b : b = [built EXCEPT !.order = wm.order, !.top = wm.top, !.win[h] = wm.win[h]]
    OBVIOUS
  <2>2. Undone("OPEN", b)
    BY <1>7, <1>9, <1>15, <1>17, <2>1 DEF WindOpen
  <2>3. /\ b \in Managers /\ b.order = wm.order /\ b.top = wm.top /\ b.pieces = built.pieces
        /\ b.free = built.free /\ b.desk = built.desk /\ b.control = built.control
        /\ b.win[h] = wm.win[h] /\ \A g \in Handles \ {h} : b.win[g] = built.win[g]
    <3>1. PICK win : win = [built.win EXCEPT ![h] = wm.win[h]]
      OBVIOUS
    <3>2. /\ win \in [Handles -> Wins] /\ win[h] = wm.win[h]
          /\ \A g \in Handles \ {h} : win[g] = built.win[g]
      BY <1>3, <1>15, <3>1 DEF Rebuilt, Managers
    <3>3. b = [built EXCEPT !.order = wm.order, !.top = wm.top, !.win = win]
      BY <1>15, <2>1, <3>1 DEF Rebuilt, Managers
    <3> QED BY <1>1, <1>15, <3>2, <3>3 DEF Rebuilt, Managers
  <2>4. Back(wm, b)
    <3>1. SameWin(b.win[h], wm.win[h])
      BY <2>3 DEF SameWin
    <3> QED BY <1>10, <1>12, <1>15, <2>3, <3>1, RestoredBack
  <2> QED BY <2>2, <2>4, UndoneIs
<1> QED BY <1>16, <1>17

\* A window that is topped has left no place that the others do not know of.
LEMMA ToppedSelf ==
    ASSUME NEW m \in Managers, NoRepeats(m.order), TopIsLast(m), NEW h
    PROVE  Topped(m, m, h)
BY DEF Topped, Aside

\* What WIND_SET(CXYWH) puts back.
PutBack(all, h) ==
    [all EXCEPT !.order = wm.order, !.top = wm.top,
                !.win[h].outer = wm.win[h].outer, !.win[h].work = wm.win[h].work]

LEMMA CurrentStep ==
    ASSUME Fine(wm), NEW c \in Clients, NEW h \in Handles, NEW r \in Rects[h], NEW top \in BOOLEAN,
           WindSetCurrent(c, h, r, top)
    PROVE  Step
<1>1. /\ wm \in Managers /\ Whole(wm) /\ Tree(wm) /\ Framed(wm)
      /\ wm.win[h].owner = c /\ wm.win[h].open /\ PublicRect(wm.win[h].kind, r)
  BY DEF Fine, Good, WindSetCurrent, Owns
<1>2. r \in RectType /\ WorkRect(wm.win[h].kind, r) \in RectType
  BY ScreenAssumption, WorkType DEF Handles, RectType
<1>3. wm.win[h] \in Wins
  BY <1>1 DEF Managers
<1>4. PICK w : w = [wm.win[h] EXCEPT !.outer = r, !.work = WorkRect(wm.win[h].kind, r)]
  OBVIOUS
<1>5. /\ w \in Wins /\ w.open /\ w.owner = c /\ w.kind = wm.win[h].kind /\ w.outer = r
      /\ w.work = WorkRect(w.kind, r)
  BY <1>1, <1>2, <1>3, <1>4 DEF Wins
<1>6. PICK m : m = PutWin(wm, h, w) /\ Put(wm, m, h, w)
  BY <1>1, <1>5, PutWinIs
<1>7. [wm EXCEPT !.win[h].outer = r, !.win[h].work = WorkRect(wm.win[h].kind, r)] = m
  BY <1>1, <1>3, <1>4, <1>6 DEF PutWin, Managers
<1>8. /\ Listed(wm.order, h) /\ NoRepeats(wm.order)
      /\ m \in Managers /\ NoRepeats(m.order) /\ TopIsLast(m) /\ Listed(m.order, h)
  BY <1>1, <1>6 DEF Tree, Put, TopIsLast
<1>9. PICK a : a = (IF top THEN TreeTop(m, h) ELSE m) /\ Topped(m, a, h)
  BY <1>8, TreeTopIs, ToppedSelf
<1>10. /\ a \in Managers /\ NoRepeats(a.order) /\ TopIsLast(a) /\ a.win[h] = w
       /\ a.desk = wm.desk /\ a.control = wm.control /\ Listed(a.order, h)
       /\ \A g \in Handles \ {h} :
              a.win[g] = wm.win[g] /\ (Listed(a.order, g) <=> Listed(wm.order, g))
  BY <1>6, <1>8, <1>9 DEF Topped, Aside, Put
<1>11. Whole(a)
  BY <1>1, <1>6, <1>9 DEF Topped, Aside, Put, Whole
<1>12. Ready(a)
  <2>1. c # NONE
    BY ScreenAssumption
  <2> QED BY <1>1, <1>5, <1>10, <1>11, <2>1, ReadyIf
<1>13. PICK old, was, is : /\ old = wm.win[h].outer /\ was = Shadowed(old) /\ is = Shadowed(r)
  OBVIOUS
<1>14. /\ old \in RectType /\ was \in RectType /\ Within(old, was)
       /\ is \in RectType /\ Within(r, is)
  BY <1>1, <1>2, <1>3, <1>13, PublicIs DEF Wins, Framed
<1>15. PICK d \in RectType : d = Hull(was, is) /\ Within(old, d) /\ Within(r, d)
  BY <1>2, <1>14, HullHas, HullWithin
<1>16. CurrentDirty(old, r) = d
  BY <1>13, <1>15 DEF CurrentDirty
<1>17. Uncovers(wm, a, d)
  <2>1. SUFFICES ASSUME NEW x \in Lists, Shows(a, x)
                 PROVE  UncoversFor(wm, a, d, x)
    BY DEF Uncovers
  <2>2. CASE x = h
    <3>1. h # Root
      BY DEF Handles, Root
    <3> QED BY <1>5, <1>10, <1>15, <2>2, <3>1 DEF UncoversFor
  <2>3. CASE x # h
    <3>1. Shows(wm, x)
      BY <1>10, <2>1, <2>3 DEF Shows, Lists
    <3>2. x # Root => a.win[x].outer = wm.win[x].outer /\ a.win[x].work = wm.win[x].work
      BY <1>10, <2>3 DEF Lists
    <3>3. ASSUME NEW y \in Handles, Over(wm.order, x, y), y # h
          PROVE  Over(a.order, x, y) /\ a.win[y].outer = wm.win[y].outer
      <4>1. Listed(wm.order, y)
        BY <3>3 DEF Over, Before, Listed
      <4>2. m.order = wm.order /\ x \in Lists
        BY <1>6 DEF Put
      <4>3. Over(a.order, x, y)
        BY <1>9, <2>3, <3>3, <4>1, <4>2 DEF Over, Topped, Lists
      <4> QED BY <1>10, <3>3, <4>3
    <3> QED BY <1>13, <1>15, <3>1, <3>2, <3>3 DEF UncoversFor
  <2> QED BY <2>2, <2>3
<1>18. PICK built : built = Rebuild(a) /\ Rebuilt(a, built)
  BY <1>12, AfterRebuild
<1>19. CASE ~built.short
  <2>1. Done("CURRENT", built, d, Redraws(built, d))
    BY <1>7, <1>9, <1>13, <1>16, <1>18, <1>19 DEF WindSetCurrent
  <2> QED BY <1>12, <1>15, <1>17, <1>18, <2>1, DoneIs
<1>20. CASE built.short
  <2>1. PICK b : b = [built EXCEPT !.order = wm.order, !.top = wm.top,
                                   !.win[h].outer = wm.win[h].outer, !.win[h].work = wm.win[h].work]
    OBVIOUS
  <2>2. Undone("CURRENT", b)
    <3>1. Rebuild(IF top THEN TreeTop(m, h) ELSE m) = built
      BY <1>9, <1>18
    <3>2. LET moved == [wm EXCEPT !.win[h].outer = r, !.win[h].work = WorkRect(wm.win[h].kind, r)]
              all == Rebuild(IF top THEN TreeTop(moved, h) ELSE moved)
          IN  all.short => Undone("CURRENT", PutBack(all, h))
      BY Zenon DEF WindSetCurrent, PutBack
    <3>3. LET all == Rebuild(IF top THEN TreeTop(m, h) ELSE m)
          IN  all.short => Undone("CURRENT", PutBack(all, h))
      BY <1>7, <3>2
    <3>4. Undone("CURRENT", PutBack(built, h))
      BY <1>20, <3>1, <3>3
    <3> QED BY <2>1, <3>4 DEF PutBack
  <2>3. PICK v : v = [built.win[h] EXCEPT !.outer = wm.win[h].outer, !.work = wm.win[h].work]
    OBVIOUS
  <2>4. v \in Wins /\ SameWin(v, wm.win[h])
    <3>1. built.win[h] \in Wins /\ SameWin(built.win[h], w)
      BY <1>10, <1>18 DEF Rebuilt, Managers, Kept
    <3>2. w.owner = wm.win[h].owner /\ w.kind = wm.win[h].kind /\ w.open = wm.win[h].open
      BY <1>3, <1>4 DEF Wins
    <3> QED BY <1>3, <2>3, <3>1, <3>2 DEF Wins, SameWin
  <2>5. /\ b \in Managers /\ b.order = wm.order /\ b.top = wm.top /\ b.pieces = built.pieces
        /\ b.free = built.free /\ b.desk = built.desk /\ b.control = built.control
        /\ b.win[h] = v /\ \A g \in Handles \ {h} : b.win[g] = built.win[g]
    <3>1. PICK win : win = [built.win EXCEPT ![h] = v]
      OBVIOUS
    <3>2. /\ win \in [Handles -> Wins] /\ win[h] = v
          /\ \A g \in Handles \ {h} : win[g] = built.win[g]
      BY <1>18, <2>4, <3>1 DEF Rebuilt, Managers
    <3>3. b = [built EXCEPT !.order = wm.order, !.top = wm.top, !.win = win]
      BY <1>18, <2>1, <2>3, <3>1 DEF Rebuilt, Managers
    <3> QED BY <1>1, <1>18, <3>2, <3>3 DEF Rebuilt, Managers
  <2>6. Back(wm, b)
    BY <1>8, <1>10, <1>12, <1>18, <2>4, <2>5, RestoredBack
  <2> QED BY <2>2, <2>6, UndoneIs
<1> QED BY <1>19, <1>20

LEMMA TopStep ==
    ASSUME Fine(wm), NEW c \in Clients, NEW h \in Handles, WindSetTop(c, h)
    PROVE  Step
<1>1. /\ wm \in Managers /\ Whole(wm) /\ Tree(wm) /\ Framed(wm) /\ wm.win[h].open
  BY DEF Fine, Good, WindSetTop
<1>2. Listed(wm.order, h) /\ NoRepeats(wm.order) /\ TopIsLast(wm)
  BY <1>1 DEF Tree, TopIsLast
<1>3. PICK a : a = TreeTop(wm, h) /\ Topped(wm, a, h)
  BY <1>1, <1>2, TreeTopIs
<1>4. /\ a \in Managers /\ NoRepeats(a.order) /\ TopIsLast(a) /\ a.win = wm.win
      /\ a.desk = wm.desk /\ a.control = wm.control /\ Listed(a.order, h)
      /\ \A g \in Handles : Listed(a.order, g) <=> Listed(wm.order, g)
  BY <1>2, <1>3 DEF Topped, Aside
<1>5. Whole(a)
  BY <1>1, <1>3 DEF Topped, Aside, Whole
<1>6. Ready(a)
  BY <1>1, <1>4, <1>5, ReadyIf DEF Framed
<1>7. PICK built : built = Rebuild(a) /\ Rebuilt(a, built)
  BY <1>6, AfterRebuild
<1>8. CASE ~built.short
  <2>1. wm' = built /\ effects'.result /\ effects'.op = "TOP"
    BY <1>3, <1>7, <1>8 DEF WindSetTop, Done
  <2> QED BY <1>6, <1>7, <2>1 DEF Step, Arranged
<1>9. CASE built.short
  <2>1. PICK b : b = [built EXCEPT !.order = wm.order, !.top = wm.top]
    OBVIOUS
  <2>2. Undone("TOP", b)
    BY <1>3, <1>7, <1>9, <2>1 DEF WindSetTop, TopRestored
  <2>3. /\ b \in Managers /\ b.order = wm.order /\ b.top = wm.top /\ b.pieces = built.pieces
        /\ b.free = built.free /\ b.desk = built.desk /\ b.control = built.control
        /\ b.win = built.win
    BY <1>1, <1>7, <2>1 DEF Rebuilt, Managers
  <2>4. SameWin(b.win[h], wm.win[h])
    BY <1>4, <1>7, <2>3 DEF Rebuilt, Kept
  <2>5. Back(wm, b)
    BY <1>2, <1>4, <1>6, <1>7, <2>3, <2>4, RestoredBack
  <2> QED BY <2>2, <2>5, UndoneIs
<1> QED BY <1>8, <1>9

LEMMA CloseStep ==
    ASSUME Fine(wm), NEW c \in Clients, NEW h \in Handles, WindClose(c, h)
    PROVE  Step
<1>1. /\ wm \in Managers /\ Whole(wm) /\ Tree(wm) /\ Framed(wm) /\ Controlled(wm)
      /\ wm.win[h].open
  BY DEF Fine, Good, WindClose
<1>2. Listed(wm.order, h) /\ NoRepeats(wm.order)
  BY <1>1 DEF Tree
<1>3. Zero \in RectType /\ wm.win[h] \in Wins
  BY <1>1 DEF Zero, Rect, RectType, Managers
<1>4. PICK t : t = TreeDelete(wm, h) /\ Removed(wm, t, h)
  BY <1>1, <1>2, TreeDeleteIs
<1>5. PICK w : w = [wm.win[h] EXCEPT !.open = FALSE, !.broken = FALSE, !.outer = Zero, !.work = Zero]
  OBVIOUS
<1>6. w \in Wins /\ ~w.open
  BY <1>3, <1>5 DEF Wins
<1>7. PICK m : m = PutWin(t, h, w) /\ Put(t, m, h, w)
  BY <1>4, <1>6, PutWinIs DEF Removed
<1>8. PICK control \in Controls :
         control = IF wm.control.handle = h THEN Idle ELSE wm.control
  <2>1. Idle \in Controls
    BY <1>3 DEF Idle, Controls, Gestures, Gadgets
  <2> QED BY <1>1, <2>1 DEF Managers
<1>9. PICK a : a = [m EXCEPT !.control = control]
  OBVIOUS
<1>10. /\ a \in Managers /\ a.control = control /\ a.win = m.win /\ a.order = m.order
       /\ a.top = m.top /\ a.pieces = m.pieces /\ a.free = m.free
  BY <1>7, <1>9 DEF Put, Managers
<1>11. Closed(wm, h) = a
  <2>1. t.control = wm.control /\ t.win = wm.win
    BY <1>4 DEF Removed, Aside
  <2>2. t \in Managers
    BY <1>4 DEF Removed
  <2>3. PICK win : win = [t.win EXCEPT ![h] = w]
    OBVIOUS
  <2>4. a = [t EXCEPT !.win = win, !.control = control]
    BY <1>7, <1>9, <2>2, <2>3 DEF PutWin, Managers
  <2>5. [t EXCEPT !.win[h].open = FALSE, !.win[h].broken = FALSE,
                  !.win[h].outer = Zero, !.win[h].work = Zero, !.control = control]
        = [t EXCEPT !.win = win, !.control = control]
    BY <1>3, <1>5, <2>1, <2>2, <2>3 DEF Managers
  <2>6. Closed(wm, h) = [t EXCEPT !.win[h].open = FALSE, !.win[h].broken = FALSE,
                           !.win[h].outer = Zero, !.win[h].work = Zero,
                           !.control = IF t.control.handle = h THEN Idle ELSE t.control]
    BY <1>4, <2>2 DEF Closed, Managers
  <2> QED BY <1>8, <2>1, <2>4, <2>5, <2>6
<1>12. /\ NoRepeats(a.order) /\ TopIsLast(a) /\ ~a.win[h].open /\ ~Listed(a.order, h)
       /\ \A g \in Handles \ {h} :
              a.win[g] = wm.win[g] /\ (Listed(a.order, g) <=> Listed(wm.order, g))
  BY <1>4, <1>6, <1>7, <1>10 DEF Removed, Aside, Put, TopIsLast
<1>13. Whole(a)
  BY <1>1, <1>4, <1>7, <1>10 DEF Removed, Aside, Put, Whole
<1>14. Ready(a)
  <2>1. Tree(a)
    <3>1. a.win[h].open \in BOOLEAN
      BY <1>10 DEF Managers, Wins
    <3> QED BY <1>1, <1>12, <3>1 DEF Tree, TopIsLast
  <2>2. Controlled(a)
    BY <1>1, <1>8, <1>10, <1>12 DEF Controlled, Idle
  <2>3. \A g \in Handles : a.win[g].open =>
            /\ a.win[g].owner # NONE /\ PublicRect(a.win[g].kind, a.win[g].outer)
            /\ a.win[g].work = WorkRect(a.win[g].kind, a.win[g].outer)
    BY <1>1, <1>12 DEF Framed
  <2> QED BY <1>10, <1>13, <2>1, <2>2, <2>3 DEF Ready
<1>15. PICK old, d : old = wm.win[h].outer /\ d = Shadowed(old)
  OBVIOUS
<1>16. old \in RectType /\ d \in RectType /\ Within(old, d)
  BY <1>1, <1>3, <1>15, PublicIs DEF Wins, Framed
<1>17. Uncovers(wm, a, d)
  <2>1. SUFFICES ASSUME NEW x \in Lists, Shows(a, x)
                 PROVE  UncoversFor(wm, a, d, x)
    BY DEF Uncovers
  <2>2. x # h
    BY <1>12, <2>1 DEF Shows, Handles, Root
  <2>3. Shows(wm, x)
    BY <1>12, <2>1, <2>2 DEF Shows, Lists
  <2>4. x # Root => a.win[x].outer = wm.win[x].outer /\ a.win[x].work = wm.win[x].work
    BY <1>12, <2>2 DEF Lists
  <2>5. ASSUME NEW y \in Handles, Over(wm.order, x, y), y # h
        PROVE  Over(a.order, x, y) /\ a.win[y].outer = wm.win[y].outer
    <3>1. Over(t.order, x, y)
      BY <1>4, <2>2, <2>5 DEF Over, Removed, Lists
    <3> QED BY <1>7, <1>10, <1>12, <2>5, <3>1 DEF Put
  <2> QED BY <1>15, <1>16, <2>3, <2>4, <2>5 DEF UncoversFor
<1>18. Done("CLOSE", Rebuild(a), d, Redraws(Rebuild(a), d))
  BY <1>11, <1>15 DEF WindClose
<1> QED BY <1>14, <1>16, <1>17, <1>18, DoneIs

\* What the death of a client makes of one window, and of the area to repaint.
SweepOne(c, m, h) == IF Owns(c, h) THEN DetachWindow(m, h) ELSE m
Swept(c) == Along([h \in Handles |-> h], LAMBDA m, h : IF Owns(c, h) THEN DetachWindow(m, h) ELSE m, wm)

Widen(c, d, h) == IF Owns(c, h) THEN Hull(d, Shadowed(wm.win[h].outer)) ELSE d
Unpainted(c) == IF wm.desk = c THEN RootWork ELSE Zero
Widened(c) ==
    Along([h \in Handles |-> h],
          LAMBDA d, h : IF Owns(c, h) THEN Hull(d, Shadowed(wm.win[h].outer)) ELSE d,
          IF wm.desk = c THEN RootWork ELSE Zero)

\* The loop that sweeps the windows.
LEMMA SweepTurns ==
    ASSUME NEW c, NEW k \in Nat, k = Len(All)
    PROVE  \E after :
              /\ after[0] = wm
              /\ \A n \in 1 .. k : after[n] = SweepOne(c, after[n - 1], All[n])
              /\ Swept(c) = after[k]
<1> DEFINE Turn(f, n) == IF n = 0 THEN wm ELSE SweepOne(c, f[n - 1], All[n])
           Is(f, t) == f = [n \in 0 .. t |-> Turn(f, n)]
           P == {t \in 0 .. k : \E f : Is(f, t)}
<1>1. 0 \in P
  <2>1. Is([n \in 0 .. 0 |-> wm], 0)
    OBVIOUS
  <2>2. 0 \in 0 .. k
    OBVIOUS
  <2> HIDE DEF Is
  <2> QED BY <2>1, <2>2
<1>2. ASSUME NEW t \in 1 .. k, t - 1 \in P PROVE t \in P
  <2>1. PICK f : Is(f, t - 1)
    BY <1>2
  <2> DEFINE g == [n \in 0 .. t |-> IF n = t THEN Turn(f, t) ELSE f[n]]
  <2>2. Is(g, t)
    BY ONLY <2>1, t \in 1 .. k, k \in Nat
  <2>3. t \in 0 .. k
    OBVIOUS
  <2> HIDE DEF Is, g
  <2> QED BY <2>2, <2>3
<1>3. k \in P
  <2> HIDE DEF P
  <2> QED BY <1>1, <1>2, Turns
<1>4. PICK f : Is(f, k)
  BY <1>3
<1>5. Swept(c) = (CHOOSE g : Is(g, k))[k]
  BY DEF Swept, Along, SweepOne, All
<1>6. Is(CHOOSE g : Is(g, k), k)
  <2> HIDE DEF Is
  <2> QED BY <1>4
<1>7. PICK after : Is(after, k) /\ Swept(c) = after[k]
  <2> HIDE DEF Is
  <2> QED BY <1>5, <1>6
<1>8. /\ after[0] = wm
      /\ \A n \in 1 .. k : after[n] = SweepOne(c, after[n - 1], All[n])
  <2>1. \A n \in 1 .. k : n \in 0 .. k /\ n # 0
    OBVIOUS
  <2> QED BY ONLY <1>7, <2>1, k \in Nat
<1> HIDE DEF Is
<1> QED BY <1>7, <1>8

\* The loop that gathers the area to repaint.
LEMMA WidenTurns ==
    ASSUME NEW c, NEW k \in Nat, k = Len(All)
    PROVE  \E after :
              /\ after[0] = Unpainted(c)
              /\ \A n \in 1 .. k : after[n] = Widen(c, after[n - 1], All[n])
              /\ Widened(c) = after[k]
<1> DEFINE Turn(f, n) == IF n = 0 THEN Unpainted(c) ELSE Widen(c, f[n - 1], All[n])
           Is(f, t) == f = [n \in 0 .. t |-> Turn(f, n)]
           P == {t \in 0 .. k : \E f : Is(f, t)}
<1>1. 0 \in P
  <2>1. Is([n \in 0 .. 0 |-> Unpainted(c)], 0)
    OBVIOUS
  <2>2. 0 \in 0 .. k
    OBVIOUS
  <2> HIDE DEF Is
  <2> QED BY <2>1, <2>2
<1>2. ASSUME NEW t \in 1 .. k, t - 1 \in P PROVE t \in P
  <2>1. PICK f : Is(f, t - 1)
    BY <1>2
  <2> DEFINE g == [n \in 0 .. t |-> IF n = t THEN Turn(f, t) ELSE f[n]]
  <2>2. Is(g, t)
    BY ONLY <2>1, t \in 1 .. k, k \in Nat
  <2>3. t \in 0 .. k
    OBVIOUS
  <2> HIDE DEF Is, g
  <2> QED BY <2>2, <2>3
<1>3. k \in P
  <2> HIDE DEF P
  <2> QED BY <1>1, <1>2, Turns
<1>4. PICK f : Is(f, k)
  BY <1>3
<1>5. Widened(c) = (CHOOSE g : Is(g, k))[k]
  BY DEF Widened, Along, Widen, All, Unpainted
<1>6. Is(CHOOSE g : Is(g, k), k)
  <2> HIDE DEF Is
  <2> QED BY <1>4
<1>7. PICK after : Is(after, k) /\ Widened(c) = after[k]
  <2> HIDE DEF Is
  <2> QED BY <1>5, <1>6
<1>8. /\ after[0] = Unpainted(c)
      /\ \A n \in 1 .. k : after[n] = Widen(c, after[n - 1], All[n])
  <2>1. \A n \in 1 .. k : n \in 0 .. k /\ n # 0
    OBVIOUS
  <2> QED BY ONLY <1>7, <2>1, k \in Nat
<1> HIDE DEF Is
<1> QED BY <1>7, <1>8

\* The window of a client that is gone leaves the tree, its pieces the lists.
Gone(m, n, h) ==
    /\ n \in Managers /\ Whole(n) /\ Tree(n) /\ n.desk = m.desk
    /\ n.win[h] = NoWindow /\ \A g \in Handles \ {h} : n.win[g] = m.win[g]
    /\ n.control = IF m.control.handle = h THEN Idle ELSE m.control
    /\ \A x, y \in Handles : x # h /\ y # h /\ Before(m.order, x, y) => Before(n.order, x, y)

LEMMA DetachIs ==
    ASSUME NEW m \in Managers, Whole(m), Tree(m), NEW h \in Handles
    PROVE  Gone(m, DetachWindow(m, h), h)
<1>1. NoRepeats(m.order) /\ TopIsLast(m)
  BY DEF Tree, TopIsLast
<1>2. PICK t : t = (IF m.win[h].open THEN TreeDelete(m, h) ELSE m) /\ Removed(m, t, h)
  <2>1. CASE m.win[h].open
    BY <1>1, <2>1, TreeDeleteIs
  <2>2. CASE ~m.win[h].open
    <3>1. ~Listed(m.order, h)
      BY <2>2 DEF Tree
    <3>2. Removed(m, m, h)
      BY <1>1, <3>1 DEF Removed, Aside
    <3> QED BY <2>2, <3>2
  <2> QED BY <2>1, <2>2
<1>3. t \in Managers /\ Whole(t) /\ h \in Lists
  BY <1>2 DEF Removed, Aside, Whole, Lists
<1>4. PICK r : r = Release(t, h) /\ ReleasedOne(t, r, h)
  BY <1>3, ReleaseIs
<1>5. Zero \in RectType /\ NoWindow \in Wins /\ ~NoWindow.open
  <2>1. Zero \in RectType
    BY DEF Zero, Rect, RectType
  <2> QED BY <2>1 DEF NoWindow, Wins
<1>6. PICK p : p = PutWin(r, h, NoWindow) /\ Put(r, p, h, NoWindow)
  BY <1>4, <1>5, PutWinIs DEF ReleasedOne
<1>7. PICK control \in Controls : control = IF m.control.handle = h THEN Idle ELSE m.control
  <2>1. Idle \in Controls
    BY <1>5 DEF Idle, Controls, Gestures, Gadgets
  <2> QED BY <2>1 DEF Managers
<1>8. PICK n : n = [p EXCEPT !.control = control]
  OBVIOUS
<1>9. /\ n \in Managers /\ n.control = control /\ n.win = p.win /\ n.order = p.order
      /\ n.top = p.top /\ n.pieces = p.pieces /\ n.free = p.free /\ n.desk = p.desk
  BY <1>6, <1>8 DEF Put, Managers
<1>10. DetachWindow(m, h) = n
  <2>1. r.control = m.control /\ r \in Managers
    BY <1>2, <1>4 DEF Removed, Aside, ReleasedOne
  <2>2. PICK win : win = [r.win EXCEPT ![h] = NoWindow]
    OBVIOUS
  <2>3. n = [r EXCEPT !.win = win, !.control = control]
    BY <1>6, <1>8, <2>1, <2>2 DEF PutWin, Managers
  <2>4. DetachWindow(m, h) = [r EXCEPT !.win[h] = NoWindow,
                                       !.control = IF r.control.handle = h THEN Idle ELSE r.control]
    BY <1>2, <1>4, <2>1 DEF DetachWindow, Managers
  <2>5. [r EXCEPT !.win[h] = NoWindow, !.control = control] = [r EXCEPT !.win = win, !.control = control]
    BY <2>1, <2>2 DEF Managers
  <2> QED BY <1>7, <2>1, <2>3, <2>4, <2>5
<1>11. Whole(n)
  BY <1>4, <1>6, <1>9 DEF ReleasedOne, Put, Whole
<1>12. /\ n.win[h] = NoWindow /\ \A g \in Handles \ {h} : n.win[g] = m.win[g]
       /\ n.order = t.order /\ n.top = t.top /\ n.desk = m.desk
  BY <1>2, <1>4, <1>6, <1>9 DEF Removed, Aside, ReleasedOne, Put
<1>13. Tree(n)
  <2>1. NoRepeats(n.order) /\ TopIsLast(n)
    BY <1>2, <1>12 DEF Removed, TopIsLast
  <2>2. ASSUME NEW g \in Handles PROVE Listed(n.order, g) <=> n.win[g].open
    BY <1>2, <1>5, <1>12 DEF Removed, Tree
  <2> QED BY <2>1, <2>2 DEF Tree, TopIsLast
<1>14. \A x, y \in Handles : x # h /\ y # h /\ Before(m.order, x, y) => Before(n.order, x, y)
  BY <1>2, <1>12 DEF Removed
<1> QED BY <1>7, <1>9, <1>10, <1>11, <1>12, <1>13, <1>14 DEF Gone

\* The windows up to n are swept.
SweptTo(c, n, m) ==
    /\ m \in Managers /\ Whole(m) /\ Tree(m) /\ m.desk = wm.desk
    /\ \A g \in Handles : IF g <= n /\ Owns(c, g) THEN m.win[g] = NoWindow ELSE m.win[g] = wm.win[g]
    /\ m.control = Idle \/ m.control = wm.control
    /\ \A g \in Handles : g <= n /\ Owns(c, g) => m.control.handle # g
    /\ \A x, y \in Handles : /\ ~(x <= n /\ Owns(c, x)) /\ ~(y <= n /\ Owns(c, y))
                             /\ Before(wm.order, x, y)
                             => Before(m.order, x, y)

LEMMA SweepOneIs ==
    ASSUME NEW c, NEW n \in 1 .. LastHandle, NEW m, SweptTo(c, n - 1, m)
    PROVE  SweptTo(c, n, SweepOne(c, m, n))
<1>1. n \in Handles /\ n \in Nat /\ Handles \subseteq Nat
  BY ScreenAssumption DEF Handles
<1>2. \A g \in Handles : g <= n <=> g <= n - 1 \/ g = n
  BY <1>1
<1>3. CASE ~Owns(c, n)
  BY <1>2, <1>3 DEF SweepOne, SweptTo
<1>4. CASE Owns(c, n)
  <2>1. PICK r : r = DetachWindow(m, n) /\ Gone(m, r, n)
    BY <1>1, DetachIs DEF SweptTo
  <2>2. SweepOne(c, m, n) = r
    BY <1>4, <2>1 DEF SweepOne
  <2>3. r \in Managers /\ Whole(r) /\ Tree(r) /\ r.desk = wm.desk
    BY <2>1 DEF Gone, SweptTo
  <2>4. ASSUME NEW g \in Handles
        PROVE  IF g <= n /\ Owns(c, g) THEN r.win[g] = NoWindow ELSE r.win[g] = wm.win[g]
    BY <1>2, <1>4, <2>1 DEF Gone, SweptTo
  <2>5. /\ r.control = Idle \/ r.control = wm.control
        /\ \A g \in Handles : g <= n /\ Owns(c, g) => r.control.handle # g
    <3>1. Idle.handle \notin Handles
      BY ScreenAssumption DEF Idle, Handles
    <3>2. CASE m.control.handle = n
      BY <2>1, <3>1, <3>2 DEF Gone
    <3>3. CASE m.control.handle # n
      BY <1>2, <2>1, <3>3 DEF Gone, SweptTo
    <3> QED BY <3>2, <3>3
  <2>6. ASSUME NEW x \in Handles, NEW y \in Handles, ~(x <= n /\ Owns(c, x)), ~(y <= n /\ Owns(c, y)),
               Before(wm.order, x, y)
        PROVE  Before(r.order, x, y)
    <3>1. x # n /\ y # n
      BY <1>1, <1>4, <2>6
    <3>2. Before(m.order, x, y)
      BY <1>2, <2>6 DEF SweptTo
    <3> QED BY <2>1, <3>1, <3>2 DEF Gone
  <2> QED BY <2>2, <2>3, <2>4, <2>5, <2>6 DEF SweptTo
<1> QED BY <1>3, <1>4

LEMMA SweptIs ==
    ASSUME Fine(wm), NEW c
    PROVE  SweptTo(c, LastHandle, Swept(c))
<1>1. PICK k \in Nat : k = LastHandle /\ k = Len(All) /\ \A n \in 1 .. k : All[n] = n
  BY AllHandles, ScreenAssumption
<1>2. PICK after : /\ after[0] = wm
                   /\ \A n \in 1 .. k : after[n] = SweepOne(c, after[n - 1], All[n])
                   /\ Swept(c) = after[k]
  BY <1>1, SweepTurns
<1> DEFINE P == {n \in 0 .. k : SweptTo(c, n, after[n])}
<1>3. 0 \in P
  <2>1. wm \in Managers /\ Whole(wm) /\ Tree(wm)
    BY DEF Fine, Good
  <2>2. \A g \in Handles : ~(g <= 0)
    BY DEF Handles
  <2>3. SweptTo(c, 0, wm)
    BY <2>1, <2>2 DEF SweptTo
  <2> QED BY <1>2, <2>3
<1>4. ASSUME NEW n \in 1 .. k, n - 1 \in P PROVE n \in P
  <2>1. SweptTo(c, n - 1, after[n - 1])
    BY <1>4
  <2>2. after[n] = SweepOne(c, after[n - 1], n)
    BY <1>1, <1>2
  <2>3. SweptTo(c, n, SweepOne(c, after[n - 1], n))
    BY <1>1, <2>1, SweepOneIs
  <2>4. n \in 0 .. k
    OBVIOUS
  <2> QED BY <2>2, <2>3, <2>4
<1>5. k \in P
  <2> HIDE DEF P
  <2> QED BY <1>3, <1>4, Turns
<1> QED BY <1>1, <1>2, <1>5

\* The area to repaint holds the windows up to n.
WidenedTo(c, n, d) ==
    /\ d \in RectType
    /\ \A g \in Handles : g <= n /\ Owns(c, g) => Within(Shadowed(wm.win[g].outer), d)

LEMMA WidenedIs ==
    ASSUME Fine(wm), NEW c
    PROVE  WidenedTo(c, LastHandle, Widened(c))
<1>1. PICK k \in Nat : k = LastHandle /\ k = Len(All) /\ \A n \in 1 .. k : All[n] = n
  BY AllHandles, ScreenAssumption
<1>2. PICK after : /\ after[0] = Unpainted(c)
                   /\ \A n \in 1 .. k : after[n] = Widen(c, after[n - 1], All[n])
                   /\ Widened(c) = after[k]
  BY <1>1, WidenTurns
<1>3. \A g \in Handles : Shadowed(wm.win[g].outer) \in RectType
  <2>1. \A g \in Handles : wm.win[g].outer \in RectType
    BY DEF Fine, Good, Managers, Wins
  <2> QED BY <2>1, ShadowedHas
<1> DEFINE P == {n \in 0 .. k : WidenedTo(c, n, after[n])}
<1>4. 0 \in P
  <2>1. Unpainted(c) \in RectType
    BY ScreenAssumption DEF Unpainted, RootWork, Zero, Rect, RectType
  <2>2. \A g \in Handles : ~(g <= 0)
    BY DEF Handles
  <2>3. WidenedTo(c, 0, Unpainted(c))
    BY <2>1, <2>2 DEF WidenedTo
  <2> QED BY <1>2, <2>3
<1>5. ASSUME NEW n \in 1 .. k, n - 1 \in P PROVE n \in P
  <2>1. WidenedTo(c, n - 1, after[n - 1])
    BY <1>5
  <2>2. after[n] = Widen(c, after[n - 1], n)
    BY <1>1, <1>2
  <2>3. n \in Handles /\ n \in 0 .. k /\ \A g \in Handles : g <= n <=> g <= n - 1 \/ g = n
    BY <1>1 DEF Handles
  <2>4. PICK d \in RectType : d = after[n - 1]
    BY <2>1 DEF WidenedTo
  <2>5. WidenedTo(c, n, after[n])
    <3>1. CASE ~Owns(c, n)
      BY <2>1, <2>2, <2>3, <3>1 DEF WidenedTo, Widen
    <3>2. CASE Owns(c, n)
      <4>1. PICK s \in RectType : s = Shadowed(wm.win[n].outer)
        BY <1>3, <2>3
      <4>2. PICK e \in RectType : e = Hull(d, s)
        BY HullHas
      <4>3. after[n] = e
        BY <2>2, <2>4, <3>2, <4>1, <4>2 DEF Widen
      <4>4. \A r \in RectType : Within(r, d) \/ Within(r, s) => Within(r, e)
        BY <4>2, HullWithin
      <4>5. Within(s, s)
        BY DEF Within
      <4> QED BY <1>3, <2>1, <2>3, <2>4, <4>1, <4>3, <4>4, <4>5 DEF WidenedTo
    <3> QED BY <3>1, <3>2
  <2> QED BY <2>3, <2>5
<1>6. k \in P
  <2> HIDE DEF P
  <2> QED BY <1>4, <1>5, Turns
<1> QED BY <1>1, <1>2, <1>6

LEMMA DetachStep ==
    ASSUME Fine(wm), NEW c \in Clients, Detach(c)
    PROVE  Step
<1>1. wm \in Managers /\ Tree(wm) /\ Framed(wm) /\ Controlled(wm)
  BY DEF Fine, Good
<1>2. PICK s : s = Swept(c) /\ SweptTo(c, LastHandle, s)
  BY SweptIs
<1>3. PICK desk \in Clients \cup {NONE} : desk = IF s.desk = c THEN NONE ELSE s.desk
  BY <1>2 DEF SweptTo, Managers
<1>4. PICK a : a = [s EXCEPT !.desk = desk]
  OBVIOUS
<1>5. /\ a \in Managers /\ a.win = s.win /\ a.order = s.order /\ a.top = s.top
      /\ a.pieces = s.pieces /\ a.free = s.free /\ a.control = s.control
  BY <1>2, <1>4 DEF SweptTo, Managers
<1>6. [s EXCEPT !.desk = IF @ = c THEN NONE ELSE @] = a
  BY <1>2, <1>3, <1>4 DEF SweptTo, Managers
<1>7. \A g \in Handles : g <= LastHandle
  BY ScreenAssumption DEF Handles
<1>8. /\ Whole(a) /\ Tree(a)
      /\ \A g \in Handles : IF Owns(c, g) THEN a.win[g] = NoWindow ELSE a.win[g] = wm.win[g]
  BY <1>2, <1>5, <1>7 DEF SweptTo, Whole, Tree
<1>9. ~NoWindow.open
  BY DEF NoWindow
<1>10. Ready(a)
  <2>1. Controlled(a)
    <3>1. CASE a.control = Idle
      BY <3>1 DEF Controlled, Idle
    <3>2. CASE a.control = wm.control
      BY <1>1, <1>2, <1>5, <1>7, <1>8, <3>2 DEF Controlled, SweptTo
    <3> QED BY <1>2, <1>5, <3>1, <3>2 DEF SweptTo
  <2>2. \A g \in Handles : a.win[g].open =>
            /\ a.win[g].owner # NONE /\ PublicRect(a.win[g].kind, a.win[g].outer)
            /\ a.win[g].work = WorkRect(a.win[g].kind, a.win[g].outer)
    BY <1>1, <1>8, <1>9 DEF Framed
  <2> QED BY <1>5, <1>8, <2>1, <2>2 DEF Ready
<1>11. PICK d \in RectType : d = Widened(c) /\ WidenedTo(c, LastHandle, d)
  BY WidenedIs DEF WidenedTo
<1>12. Uncovers(wm, a, d)
  <2>1. SUFFICES ASSUME NEW x \in Lists, Shows(a, x)
                 PROVE  UncoversFor(wm, a, d, x)
    BY DEF Uncovers
  <2>2. x # Root => x \in Handles /\ ~Owns(c, x) /\ a.win[x] = wm.win[x] /\ wm.win[x].open
    <3>1. ASSUME x # Root PROVE x \in Handles /\ a.win[x].open
      BY <1>8, <2>1, <3>1 DEF Shows, Lists, Tree
    <3> QED BY <1>8, <1>9, <3>1
  <2>3. Shows(wm, x)
    BY <1>1, <2>2 DEF Shows, Tree
  <2>4. ASSUME NEW y \in Handles, Over(wm.order, x, y)
        PROVE  \/ Over(a.order, x, y) /\ a.win[y].outer = wm.win[y].outer
               \/ Within(wm.win[y].outer, d)
    <3>1. Listed(wm.order, y)
      BY <2>4 DEF Over, Before, Listed
    <3>2. wm.win[y].open
      BY <1>1, <3>1 DEF Tree
    <3>3. CASE Owns(c, y)
      <4>1. Within(Shadowed(wm.win[y].outer), d)
        BY <1>7, <1>11, <3>3 DEF WidenedTo
      <4>2. wm.win[y].outer \in RectType /\ PublicRect(wm.win[y].kind, wm.win[y].outer)
        BY <1>1, <3>2 DEF Managers, Wins, Framed
      <4>3. Within(wm.win[y].outer, Shadowed(wm.win[y].outer))
        BY <4>2, PublicIs
      <4> QED BY <4>1, <4>3 DEF Within
    <3>4. CASE ~Owns(c, y)
      <4>1. a.win[y] = wm.win[y] /\ Listed(a.order, y)
        BY <1>8, <3>2, <3>4 DEF Tree
      <4>2. CASE x = Root
        BY <4>1, <4>2 DEF Over
      <4>3. CASE x # Root
        BY <1>2, <1>5, <2>2, <2>4, <3>4, <4>1, <4>3 DEF Over, SweptTo
      <4> QED BY <4>2, <4>3
    <3> QED BY <3>3, <3>4
  <2> QED BY <2>2, <2>3, <2>4 DEF UncoversFor
<1>13. Done("DETACH", Rebuild(a), d, Redraws(Rebuild(a), d))
  <2>1. Done("DETACH", Rebuild([Swept(c) EXCEPT !.desk = IF @ = c THEN NONE ELSE @]), Widened(c),
             Redraws(Rebuild([Swept(c) EXCEPT !.desk = IF @ = c THEN NONE ELSE @]), Widened(c)))
    BY DEF Detach, Swept, Widened
  <2> QED BY <1>2, <1>6, <1>11, <2>1
<1> QED BY <1>10, <1>12, <1>13, DoneIs

\* Every step is of one of the three kinds, or the end of a gesture.
LEMMA NextIs ==
    ASSUME Fine(wm), Next
    PROVE  Step \/ \E p \in Points : Up(p)
<1>1. ASSUME NEW c \in Clients, NEW h \in Handles,
             \/ \E r \in Rects[h] : WindOpen(c, h, r)
             \/ WindClose(c, h)
             \/ WindDelete(c, h)
             \/ \E r \in Rects[h], top \in BOOLEAN : WindSetCurrent(c, h, r, top)
             \/ WindSetTop(c, h)
             \/ WindSetFrame(c, h)
      PROVE  Step
  BY <1>1, OpenStep, CloseStep, DeleteStep, CurrentStep, TopStep, FrameStep
<1>2. ASSUME NEW c \in Clients,
             \/ \E kind \in Kinds, full \in AllRects \cup {Zero} : WindCreate(c, kind, full)
             \/ WindSetDesk(c)
             \/ Detach(c)
             \/ \E h \in Walked, first \in BOOLEAN : WindWalk(c, h, first)
      PROVE  Step
  <2>1. Walked \subseteq Lists
    BY ScreenAssumption DEF Lists, Handles, Root
  <2> QED BY <1>2, <2>1, CreateStep, DeskStep, DetachStep, WalkStep
<1>3. ASSUME \/ \E r \in AllRects : Damage(r)
             \/ \E p \in Points : Press(p)
             \/ Hold
      PROVE  Step
  BY <1>3, DamageStep, PressStep, HoldStep
<1> QED BY <1>1, <1>2, <1>3 DEF Next

----------------------------------------------------------------------------
(* What is redrawn *)

\* What a window shows in the area to repaint, and the message that says so.
Clip(m, d, h) == Meet(VisibleHull(m, h), Meet(m.win[h].work, d))
Notice(m, d, h) == Message(m, "REDRAW", h, Clip(m, d, h))
Notices(m, d) == {Notice(m, d, h) : h \in Handles}
Notify(m, d, sent, h) == IF Clip(m, d, h) = Zero THEN sent ELSE Append(sent, Notice(m, d, h))

\* The loop that sends the messages.
LEMMA NotifyTurns ==
    ASSUME NEW m, NEW d, NEW k \in Nat, k = Len(m.order)
    PROVE  \E after :
              /\ after[0] = <<>>
              /\ \A n \in 1 .. k : after[n] = Notify(m, d, after[n - 1], m.order[n])
              /\ Redraws(m, d) = after[k]
<1> DEFINE Turn(f, n) == IF n = 0 THEN <<>> ELSE Notify(m, d, f[n - 1], m.order[n])
           Is(f, t) == f = [n \in 0 .. t |-> Turn(f, n)]
           P == {t \in 0 .. k : \E f : Is(f, t)}
<1>1. 0 \in P
  <2>1. Is([n \in 0 .. 0 |-> <<>>], 0)
    OBVIOUS
  <2>2. 0 \in 0 .. k
    OBVIOUS
  <2> HIDE DEF Is
  <2> QED BY <2>1, <2>2
<1>2. ASSUME NEW t \in 1 .. k, t - 1 \in P PROVE t \in P
  <2>1. PICK f : Is(f, t - 1)
    BY <1>2
  <2> DEFINE g == [n \in 0 .. t |-> IF n = t THEN Turn(f, t) ELSE f[n]]
  <2>2. Is(g, t)
    BY ONLY <2>1, t \in 1 .. k, k \in Nat
  <2>3. t \in 0 .. k
    OBVIOUS
  <2> HIDE DEF Is, g
  <2> QED BY <2>2, <2>3
<1>3. k \in P
  <2> HIDE DEF P
  <2> QED BY <1>1, <1>2, Turns
<1>4. PICK f : Is(f, k)
  BY <1>3
<1>5. Redraws(m, d) = (CHOOSE g : Is(g, k))[k]
  BY DEF Redraws, Along, Notify, Notice, Clip
<1>6. Is(CHOOSE g : Is(g, k), k)
  <2> HIDE DEF Is
  <2> QED BY <1>4
<1>7. PICK after : Is(after, k) /\ Redraws(m, d) = after[k]
  <2> HIDE DEF Is
  <2> QED BY <1>5, <1>6
<1>8. /\ after[0] = <<>>
      /\ \A n \in 1 .. k : after[n] = Notify(m, d, after[n - 1], m.order[n])
  <2>1. \A n \in 1 .. k : n \in 0 .. k /\ n # 0
    OBVIOUS
  <2> QED BY ONLY <1>7, <2>1, k \in Nat
<1> HIDE DEF Is
<1> QED BY <1>7, <1>8

\* The loop that gathers what a window shows.
LEMMA HullTurns ==
    ASSUME NEW m, NEW h, NEW k \in Nat, k = Len(m.pieces[h])
    PROVE  \E after :
              /\ after[0] = Zero
              /\ \A n \in 1 .. k : after[n] = Hull(after[n - 1], m.pieces[h][n])
              /\ VisibleHull(m, h) = after[k]
<1> DEFINE Turn(f, n) == IF n = 0 THEN Zero ELSE Hull(f[n - 1], m.pieces[h][n])
           Is(f, t) == f = [n \in 0 .. t |-> Turn(f, n)]
           P == {t \in 0 .. k : \E f : Is(f, t)}
<1>1. 0 \in P
  <2>1. Is([n \in 0 .. 0 |-> Zero], 0)
    OBVIOUS
  <2>2. 0 \in 0 .. k
    OBVIOUS
  <2> HIDE DEF Is
  <2> QED BY <2>1, <2>2
<1>2. ASSUME NEW t \in 1 .. k, t - 1 \in P PROVE t \in P
  <2>1. PICK f : Is(f, t - 1)
    BY <1>2
  <2> DEFINE g == [n \in 0 .. t |-> IF n = t THEN Turn(f, t) ELSE f[n]]
  <2>2. Is(g, t)
    BY ONLY <2>1, t \in 1 .. k, k \in Nat
  <2>3. t \in 0 .. k
    OBVIOUS
  <2> HIDE DEF Is, g
  <2> QED BY <2>2, <2>3
<1>3. k \in P
  <2> HIDE DEF P
  <2> QED BY <1>1, <1>2, Turns
<1>4. PICK f : Is(f, k)
  BY <1>3
<1>5. VisibleHull(m, h) = (CHOOSE g : Is(g, k))[k]
  BY DEF VisibleHull, Along
<1>6. Is(CHOOSE g : Is(g, k), k)
  <2> HIDE DEF Is
  <2> QED BY <1>4
<1>7. PICK after : Is(after, k) /\ VisibleHull(m, h) = after[k]
  <2> HIDE DEF Is
  <2> QED BY <1>5, <1>6
<1>8. /\ after[0] = Zero
      /\ \A n \in 1 .. k : after[n] = Hull(after[n - 1], m.pieces[h][n])
  <2>1. \A n \in 1 .. k : n \in 0 .. k /\ n # 0
    OBVIOUS
  <2> QED BY ONLY <1>7, <2>1, k \in Nat
<1> HIDE DEF Is
<1> QED BY <1>7, <1>8

\* The hull of what a window shows has the cells of all its pieces.
LEMMA VisibleHullHas ==
    ASSUME NEW m \in Managers, NEW h \in Lists
    PROVE  /\ VisibleHull(m, h) \in RectType
           /\ \A u, v \in Int : OnSome(m.pieces[h], u, v) => On(VisibleHull(m, h), u, v)
<1>1. PICK list \in Seq(RectType) : list = m.pieces[h]
  BY DEF Managers
<1>2. PICK k \in Nat : k = Len(list) /\ DOMAIN list = 1 .. k /\ \A n \in 1 .. k : list[n] \in RectType
  BY LenProperties
<1>3. PICK after : /\ after[0] = Zero
                   /\ \A n \in 1 .. k : after[n] = Hull(after[n - 1], list[n])
                   /\ VisibleHull(m, h) = after[k]
  BY <1>1, <1>2, HullTurns
<1> DEFINE P == {n \in 0 .. k : /\ after[n] \in RectType
                                /\ \A i \in 1 .. n : Within(list[i], after[n])}
<1>4. 0 \in P
  <2>1. Zero \in RectType
    BY DEF Zero, Rect, RectType
  <2>2. \A i \in 1 .. 0 : FALSE
    OBVIOUS
  <2> QED BY <1>3, <2>1, <2>2
<1>5. ASSUME NEW n \in 1 .. k, n - 1 \in P PROVE n \in P
  <2>1. PICK d \in RectType : d = after[n - 1] /\ \A i \in 1 .. n - 1 : Within(list[i], d)
    BY <1>5
  <2>2. list[n] \in RectType
    BY <1>2
  <2>3. PICK e \in RectType : e = Hull(d, list[n])
    BY <2>2, HullHas
  <2>4. after[n] = e
    BY <1>3, <2>1, <2>3
  <2>5. ASSUME NEW i \in 1 .. n PROVE Within(list[i], e)
    <3>1. i \in 1 .. k /\ (i \in 1 .. n - 1 \/ i = n)
      BY <1>2
    <3>2. list[i] \in RectType
      BY <1>2, <3>1
    <3>3. Within(list[i], d) \/ Within(list[i], list[n])
      BY <2>1, <3>1 DEF Within
    <3> QED BY <2>2, <2>3, <3>2, <3>3, HullWithin
  <2>6. n \in 0 .. k
    OBVIOUS
  <2> QED BY <2>4, <2>5, <2>6
<1>6. k \in P
  <2> HIDE DEF P
  <2> QED BY <1>4, <1>5, Turns
<1> QED BY <1>1, <1>2, <1>3, <1>6 DEF OnSome, Within

\* Every window that shows something in the area to repaint is sent its message.
LEMMA RedrawsAre ==
    ASSUME NEW m \in Managers, NEW d, NEW h, Listed(m.order, h), Clip(m, d, h) # Zero
    PROVE  \E j \in DOMAIN Redraws(m, d) : Redraws(m, d)[j] = Notice(m, d, h)
<1>1. PICK k \in Nat : k = Len(m.order) /\ DOMAIN m.order = 1 .. k
                       /\ \A n \in 1 .. k : m.order[n] \in Handles
  BY LenProperties DEF Managers
<1>2. PICK after : /\ after[0] = <<>>
                   /\ \A n \in 1 .. k : after[n] = Notify(m, d, after[n - 1], m.order[n])
                   /\ Redraws(m, d) = after[k]
  <2>1. k = Len(m.order)
    BY <1>1
  <2> QED BY ONLY k \in Nat, <2>1, NotifyTurns
<1> DEFINE Told(n, g) == \E j \in DOMAIN after[n] : after[n][j] = Notice(m, d, g)
           P == {n \in 0 .. k : /\ after[n] \in Seq(Notices(m, d))
                                /\ \A i \in 1 .. n : Clip(m, d, m.order[i]) # Zero => Told(n, m.order[i])}
<1>3. 0 \in P
  <2>1. after[0] \in Seq(Notices(m, d))
    BY <1>2
  <2>2. \A i \in 1 .. 0 : FALSE
    OBVIOUS
  <2>3. 0 \in 0 .. k
    OBVIOUS
  <2> HIDE DEF Told
  <2> QED BY ONLY <2>1, <2>2, <2>3
<1>4. ASSUME NEW n \in 1 .. k, n - 1 \in P PROVE n \in P
  <2>1. PICK sent \in Seq(Notices(m, d)) : sent = after[n - 1]
    BY <1>4
  <2>2. PICK g \in Handles : g = m.order[n]
    BY <1>1
  <2>3. after[n] = Notify(m, d, sent, g)
    BY <1>2, <2>1, <2>2
  <2>4. n \in 0 .. k /\ n - 1 \in Nat /\ \A i \in 1 .. n : i \in 1 .. n - 1 \/ i = n
    BY <1>1
  <2>5. \A i \in 1 .. n - 1 : Clip(m, d, m.order[i]) # Zero => Told(n - 1, m.order[i])
    BY <1>4
  <2>6. CASE Clip(m, d, g) = Zero
    <3>1. after[n] = sent
      BY <2>3, <2>6 DEF Notify
    <3>2. ASSUME NEW i \in 1 .. n, Clip(m, d, m.order[i]) # Zero PROVE Told(n, m.order[i])
      BY <2>1, <2>2, <2>4, <2>5, <2>6, <3>1, <3>2
    <3> QED BY <2>4, <3>1, <3>2
  <2>7. CASE Clip(m, d, g) # Zero
    <3>1. PICK e : e = Notice(m, d, g) /\ e \in Notices(m, d)
      BY DEF Notices
    <3>2. PICK new : new = Append(sent, e)
      OBVIOUS
    <3>3. after[n] = new
      BY <2>3, <2>7, <3>1, <3>2 DEF Notify
    <3>4. PICK l \in Nat : l = Len(sent) /\ DOMAIN sent = 1 .. l
      BY LenProperties
    <3>5. /\ new \in Seq(Notices(m, d)) /\ DOMAIN new = 1 .. l + 1 /\ new[l + 1] = e
          /\ \A j \in 1 .. l : new[j] = sent[j]
      BY <3>1, <3>2, <3>4, AppendProperties, LenProperties
    <3>6. l + 1 \in 1 .. l + 1 /\ \A j \in 1 .. l : j \in 1 .. l + 1
      BY <3>4
    <3>7. ASSUME NEW i \in 1 .. n, Clip(m, d, m.order[i]) # Zero PROVE Told(n, m.order[i])
      <4>1. CASE i = n
        BY <2>2, <3>1, <3>3, <3>5, <3>6, <4>1
      <4>2. CASE i # n
        <5>1. Told(n - 1, m.order[i])
          BY <2>4, <2>5, <3>7, <4>2
        <5>2. PICK j \in 1 .. l : sent[j] = Notice(m, d, m.order[i])
          BY <2>1, <3>4, <5>1
        <5> QED BY <3>3, <3>5, <3>6, <5>2
      <4> QED BY <4>1, <4>2
    <3> QED BY <2>4, <3>3, <3>5, <3>7
  <2> QED BY <2>6, <2>7
<1>5. k \in P
  <2> HIDE DEF P
  <2> QED BY <1>3, <1>4, Turns
<1>6. PICK i \in 1 .. k : m.order[i] = h
  BY <1>1 DEF Listed
<1>7. Told(k, h)
  BY <1>5, <1>6
<1> QED BY <1>2, <1>7

\* Whatever of a window comes into sight lies in the area to repaint.
LEMMA Exposure ==
    ASSUME Fine(wm), ~wm.short, NEW a, Ready(a), NEW n, n = Rebuild(a), ~n.short,
           NEW d \in RectType, Uncovers(wm, a, d),
           NEW x \in Lists, Shows(n, x), NEW u \in Int, NEW v \in Int, OnSome(n.pieces[x], u, v),
           \/ ~Shows(wm, x)
           \/ x # Root /\ (wm.win[x].outer # n.win[x].outer \/ wm.win[x].work # n.win[x].work)
           \/ ~OnSome(wm.pieces[x], u, v)
    PROVE  On(d, u, v)
<1>1. Rebuilt(a, n) /\ a \in Managers
  BY AfterRebuild DEF Ready
<1>2. Kept(a, n) /\ n \in Managers
  BY <1>1 DEF Rebuilt
<1>3. Shows(a, x)
  BY <1>2 DEF Shows, Kept
<1>4. Seen(n, x, u, v)
  BY <1>1, <1>3 DEF Rebuilt, Parts
<1>5. Seen(a, x, u, v)
  BY <1>1, <1>2, <1>4, KeptSeen
<1>6. x # Root => /\ x \in Handles
                  /\ n.win[x].outer = a.win[x].outer /\ n.win[x].work = a.win[x].work
                  /\ Base(a, x) = a.win[x].outer /\ Base(wm, x) = wm.win[x].outer
  BY <1>2 DEF Kept, SameWin, Base, Lists
<1>7. Base(a, Root) = Base(wm, Root)
  BY DEF Base
<1>8. UncoversFor(wm, a, d, x)
  BY <1>3 DEF Uncovers
<1>9. CASE x # Root /\ Within(a.win[x].outer, d)
  BY <1>5, <1>6, <1>9 DEF Seen, Within
<1>10. CASE /\ Shows(wm, x)
            /\ x # Root => a.win[x].outer = wm.win[x].outer /\ a.win[x].work = wm.win[x].work
            /\ \A y \in Handles : Over(wm.order, x, y) =>
                  \/ Over(a.order, x, y) /\ a.win[y].outer = wm.win[y].outer
                  \/ Within(wm.win[y].outer, d)
  <2>1. Base(a, x) = Base(wm, x)
    BY <1>6, <1>7, <1>10
  <2>2. ~OnSome(wm.pieces[x], u, v)
    BY <1>6, <1>10
  <2>3. Parts(wm, x)
    BY <1>10, FineParts
  <2>4. ~Seen(wm, x, u, v)
    BY <2>2, <2>3 DEF Parts
  <2>5. PICK y \in Handles : Over(wm.order, x, y) /\ On(wm.win[y].outer, u, v)
    BY <1>5, <2>1, <2>4 DEF Seen, Veiled
  <2>6. ~(Over(a.order, x, y) /\ a.win[y].outer = wm.win[y].outer)
    BY <1>5, <2>5 DEF Seen, Veiled
  <2>7. Within(wm.win[y].outer, d)
    BY <1>10, <2>5, <2>6
  <2> QED BY <2>5, <2>7 DEF Within
<1> QED BY <1>8, <1>9, <1>10 DEF UncoversFor

\* What a window shows of its work area, cell by cell.
LEMMA ShownIs ==
    ASSUME NEW m \in Managers, NEW h \in Handles
    PROVE  /\ \A c \in Shown(m, h) : Pair(c)
           /\ \A u, v \in Int : <<u, v>> \in Shown(m, h)
                                <=> OnSome(m.pieces[h], u, v) /\ On(m.win[h].work, u, v)
<1>1. m.win[h].work \in RectType /\ h \in Lists
  BY DEF Managers, Wins, Lists
<1> QED BY <1>1, CellsAre, CoveredAre DEF Shown

\* A notice covers what the window shows of its work area in the area to repaint.
LEMMA NoticeHas ==
    ASSUME NEW m \in Managers, NEW h \in Handles, Listed(m.order, h), NEW d \in RectType,
           NEW u \in Int, NEW v \in Int, <<u, v>> \in Shown(m, h), On(d, u, v),
           effects'.messages = Redraws(m, d)
    PROVE  <<u, v>> \in Redrawn(h)
<1>1. OnSome(m.pieces[h], u, v) /\ On(m.win[h].work, u, v)
  BY ShownIs
<1>2. PICK work \in RectType, hull \in RectType :
         work = m.win[h].work /\ hull = VisibleHull(m, h) /\ On(hull, u, v)
  BY <1>1, VisibleHullHas DEF Managers, Wins, Lists
<1>3. PICK inner \in RectType : inner = Meet(work, d) /\ On(inner, u, v)
  BY <1>1, <1>2, MeetIs
<1>4. PICK clip \in RectType : clip = Meet(hull, inner) /\ On(clip, u, v)
  BY <1>2, <1>3, MeetIs
<1>5. clip # Zero
  BY <1>4 DEF On, Zero, Rect, Right, Bottom
<1>6. Clip(m, d, h) = clip
  BY <1>2, <1>3, <1>4 DEF Clip
<1>7. PICK j \in DOMAIN Redraws(m, d) : Redraws(m, d)[j] = Notice(m, d, h)
  BY <1>5, <1>6, RedrawsAre
<1>8. Notice(m, d, h).type = "REDRAW" /\ Notice(m, d, h).handle = h /\ Notice(m, d, h).rect = clip
  BY <1>6 DEF Notice, Message
<1>9. <<u, v>> \in Cells(clip)
  BY <1>4, CellsAre
<1> QED BY <1>7, <1>8, <1>9 DEF Redrawn

\* What a step must have repainted.
Repainted ==
    /\ \A h \in ToSet(wm'.order) : Exposed(h) \subseteq Redrawn(h)
    /\ Covered(wm', Root) \ Covered(wm, Root) \subseteq
          (IF effects'.background THEN Cells(effects'.dirty) ELSE {})

\* If lists and open windows are the same there is nothing to repaint.
LEMMA NothingExposed ==
    ASSUME Fine(wm), wm'.order = wm.order, wm'.pieces = wm.pieces,
           \A h \in Handles : wm.win[h].open =>
               wm'.win[h].outer = wm.win[h].outer /\ wm'.win[h].work = wm.win[h].work
    PROVE  Repainted
<1>1. wm \in Managers /\ Tree(wm)
  BY DEF Fine, Good
<1>2. ASSUME NEW h \in ToSet(wm'.order) PROVE Exposed(h) = {}
  <2>1. h \in Handles /\ Listed(wm.order, h)
    BY <1>1, <1>2, MembersAre DEF Managers
  <2>2. wm.win[h].open
    BY <1>1, <2>1 DEF Tree
  <2>3. Shown(wm', h) = Shown(wm, h)
    BY <2>1, <2>2 DEF Shown, Covered
  <2> QED BY <2>1, <2>2, <2>3 DEF Exposed
<1>3. Covered(wm', Root) = Covered(wm, Root)
  BY DEF Covered
<1> QED BY <1>2, <1>3 DEF Repainted

LEMMA StepRepaints ==
    ASSUME Fine(wm), ~wm.short, ~wm'.short, effects'.op # "TOP", Steady \/ Arranged \/ Reverted
    PROVE  Repainted
<1>1. CASE Steady
  BY <1>1, NothingExposed DEF Steady, Still
<1>2. CASE Reverted
  <2>1. Unchanged(wm, wm')
    BY <1>2, BackUnchanged DEF Reverted
  <2> QED BY <2>1, NothingExposed DEF Unchanged, SameWin
<1>3. CASE Arranged
  <2>1. PICK a, d :
           /\ Ready(a) /\ wm' = Rebuild(a) /\ d \in RectType /\ Uncovers(wm, a, d)
           /\ effects'.messages = Redraws(wm', d) /\ effects'.background /\ effects'.dirty = d
    BY <1>3 DEF Arranged
  <2>2. PICK n : n = wm'
    OBVIOUS
  <2>3. n \in Managers /\ n = Rebuild(a) /\ Tree(wm) /\ wm \in Managers
    BY <2>1, <2>2, AfterRebuild DEF Fine, Good
  <2>4. ASSUME NEW h \in ToSet(n.order), NEW c \in Exposed(h) PROVE c \in Redrawn(h)
    <3>1. h \in Handles /\ h \in Lists /\ h # Root /\ Listed(n.order, h)
      BY <2>3, MembersAre DEF Managers, Lists, Handles, Root
    <3>2. c \in Shown(n, h)
      BY <2>2, <2>4 DEF Exposed
    <3>3. PICK u \in Int, v \in Int : c = <<u, v>>
      BY <2>3, <3>1, <3>2, ShownIs DEF Pair
    <3>4. OnSome(n.pieces[h], u, v) /\ On(n.win[h].work, u, v)
      BY <2>3, <3>1, <3>2, <3>3, ShownIs
    <3>5. \/ ~Shows(wm, h)
          \/ h # Root /\ (wm.win[h].outer # n.win[h].outer \/ wm.win[h].work # n.win[h].work)
          \/ ~OnSome(wm.pieces[h], u, v)
      <4>1. SUFFICES ASSUME Shows(wm, h), wm.win[h].outer = n.win[h].outer,
                            wm.win[h].work = n.win[h].work
                     PROVE  ~OnSome(wm.pieces[h], u, v)
        BY <3>1
      <4>2. wm.win[h].open
        BY <2>3, <3>1, <4>1 DEF Shows, Tree
      <4>3. c \notin Shown(wm, h)
        BY <2>2, <2>4, <4>1, <4>2 DEF Exposed
      <4> QED BY <2>3, <3>1, <3>3, <3>4, <4>1, <4>3, ShownIs
    <3>6. On(d, u, v)
      BY <2>1, <2>2, <2>3, <3>1, <3>4, <3>5, Exposure DEF Shows
    <3> QED BY <2>1, <2>2, <2>3, <3>1, <3>2, <3>3, <3>6, NoticeHas
  <2>5. ASSUME NEW c \in Covered(n, Root) \ Covered(wm, Root) PROVE c \in Cells(d)
    <3>1. Root \in Lists
      BY DEF Lists
    <3>2. PICK u \in Int, v \in Int : c = <<u, v>>
      BY <2>3, <2>5, <3>1, CoveredAre DEF Pair
    <3>3. OnSome(n.pieces[Root], u, v) /\ ~OnSome(wm.pieces[Root], u, v)
      BY <2>3, <2>5, <3>1, <3>2, CoveredAre
    <3>4. On(d, u, v)
      BY <2>1, <2>2, <2>3, <3>1, <3>3, Exposure DEF Shows
    <3> QED BY <2>1, <3>2, <3>4, CellsAre
  <2> QED BY <2>1, <2>2, <2>4, <2>5 DEF Repainted
<1> QED BY <1>1, <1>2, <1>3

----------------------------------------------------------------------------
(* Drags *)

\* The borders of a window leave something of it if it is wider and higher than they are.
Sides(kind) == IF Vertical(kind) THEN BoxW - 1 ELSE 0
Bars(kind) ==
    (IF Titled(kind) THEN BoxH - 1 ELSE 0) + (IF "INFO" \in kind THEN BoxH - 1 ELSE 0)
    + (IF Horizontal(kind) THEN BoxH - 1 ELSE 0)

LEMMA WorkFits ==
    ASSUME NEW kind, NEW r \in RectType
    PROVE  WorkRect(kind, r) # Zero <=> r.w > 2 + Sides(kind) /\ r.h > 2 + Bars(kind)
<1>1. /\ r.x \in Int /\ r.y \in Int /\ r.w \in Int /\ r.h \in Int /\ BoxW \in Int /\ BoxH \in Int
      /\ Right(r) = r.x + r.w /\ Bottom(r) = r.y + r.h
  BY ScreenAssumption DEF RectType, Right, Bottom
<1>2. PICK titled, info, side, foot \in Int :
         /\ titled = (IF Titled(kind) THEN BoxH - 1 ELSE 0)
         /\ info = (IF "INFO" \in kind THEN BoxH - 1 ELSE 0)
         /\ side = (IF Vertical(kind) THEN BoxW - 1 ELSE 0)
         /\ foot = (IF Horizontal(kind) THEN BoxH - 1 ELSE 0)
  BY <1>1
<1>3. WorkRect(kind, r) = Corners(r.x + 1, r.y + 1 + titled + info, Right(r) - 1 - side, Bottom(r) - 1 - foot)
  BY <1>2 DEF WorkRect
<1>4. PICK left, top, right, bottom \in Int :
         /\ left = r.x + 1 /\ top = r.y + 1 + titled + info
         /\ right = Right(r) - 1 - side /\ bottom = Bottom(r) - 1 - foot
  <2>1. Right(r) \in Int /\ Bottom(r) \in Int
    BY <1>1
  <2>2. r.x + 1 \in Int /\ r.y + 1 + titled + info \in Int
        /\ Right(r) - 1 - side \in Int /\ Bottom(r) - 1 - foot \in Int
    BY <1>1, <2>1
  <2> QED BY <2>2
<1>5. Corners(left, top, right, bottom) # Zero <=> left < right /\ top < bottom
  BY DEF Corners, Zero, Rect
<1>6. Sides(kind) = side /\ Bars(kind) = titled + info + foot
  BY <1>2 DEF Sides, Bars
<1>7. left < right <=> r.w > 2 + side
  BY <1>1, <1>2, <1>4
<1>8. top < bottom <=> r.h > 2 + (titled + info + foot)
  BY <1>1, <1>2, <1>4
<1> QED BY <1>3, <1>4, <1>5, <1>6, <1>7, <1>8

\* The borders are less than three boxes.
LEMMA BordersAre ==
    ASSUME NEW kind
    PROVE  /\ BoxW \in Int /\ BoxH \in Int /\ Sides(kind) \in Int /\ Bars(kind) \in Int
           /\ Sides(kind) >= 0 /\ 2 + Sides(kind) < 3 * BoxW /\ Bars(kind) >= 0 /\ 2 + Bars(kind) < 3 * BoxH
<1>1. BoxW \in Int /\ BoxH \in Int /\ BoxW >= 1 /\ BoxH >= 1
  BY ScreenAssumption
<1>2. PICK titled, info, foot \in 0 .. BoxH - 1 : Bars(kind) = titled + info + foot
  <2>1. 0 \in 0 .. BoxH - 1 /\ BoxH - 1 \in 0 .. BoxH - 1
    BY <1>1
  <2> QED BY <2>1 DEF Bars
<1>3. PICK side \in 0 .. BoxW - 1 : Sides(kind) = side
  BY <1>1 DEF Sides
<1> QED BY <1>1, <1>2, <1>3

\* The least size is at least three boxes.
LEMMA LeastSize ==
    ASSUME NEW box \in Int, box >= 1
    PROVE  MinBoxes * box \in Int /\ MinBoxes * box >= 3 * box
<1>1. PICK k \in Nat : k = MinBoxes - 3 /\ MinBoxes = k + 3
  BY ScreenAssumption
<1>2. (k + 3) * box = k * box + 3 * box
  OBVIOUS
<1>3. k * box >= 0 /\ k * box \in Int
  OBVIOUS
<1> QED BY <1>1, <1>2, <1>3

\* A position or a size is brought between its bounds.
LEMMA BetweenIs ==
    ASSUME NEW v \in Int, NEW low \in Int, NEW high \in Int, low <= high
    PROVE  Between(v, low, high) \in Int /\ low <= Between(v, low, high) /\ Between(v, low, high) <= high
BY DEF Between

LEMMA SizeIs ==
    ASSUME NEW was \in Int, NEW delta \in Int, NEW box \in Int, box >= 1, NEW room \in Int, room >= was,
           NEW least \in Int, was > least, least < 3 * box
    PROVE  LET size == Between(was + delta, Lesser(MinBoxes * box, room), room)
           IN  size \in Int /\ size <= room /\ size > least
<1>1. PICK min \in Int : min = MinBoxes * box /\ min >= 3 * box
  BY LeastSize
<1>2. PICK low \in Int : low = Lesser(min, room) /\ low <= room /\ low > least
  BY <1>1 DEF Lesser
<1>3. PICK v \in Int : v = was + delta
  OBVIOUS
<1>4. Between(v, low, room) \in Int /\ low <= Between(v, low, room) /\ Between(v, low, room) <= room
  BY <1>2, BetweenIs
<1>5. Between(was + delta, Lesser(MinBoxes * box, room), room) = Between(v, low, room)
  BY <1>1, <1>2, <1>3
<1> QED BY <1>2, <1>4, <1>5

\* Where a drag of a window that is on the screen, below the menu bar, leaves it is
\* a rectangle it may have.
LEMMA DragsFit ==
    ASSUME wm.control \in Controls, NEW kind, PublicRect(kind, wm.control.start),
           wm.control.start.x >= 0, wm.control.start.y >= BoxH, NEW p \in Points
    PROVE  PublicRect(kind, Moved(p)) /\ PublicRect(kind, Sized(p))
<1>1. PICK s \in RectType : s = wm.control.start
  BY DEF Controls
<1>2. /\ s.x \in Int /\ s.y \in Int /\ s.w \in Int /\ s.h \in Int
      /\ Right(s) = s.x + s.w /\ Bottom(s) = s.y + s.h
  BY DEF RectType, Right, Bottom
<1>3. Width \in Int /\ Height \in Int /\ BoxW \in Int /\ BoxH \in Int /\ BoxW >= 1 /\ BoxH >= 1
  BY ScreenAssumption
<1>4. s.x >= 0 /\ s.y >= BoxH /\ s.x + s.w <= Width /\ s.y + s.h <= Height /\ WorkRect(kind, s) # Zero
  BY <1>1, <1>2, <1>3 DEF PublicRect
<1>5. PICK sides, bars \in Int :
         /\ sides = Sides(kind) /\ bars = Bars(kind)
         /\ sides >= 0 /\ 2 + sides < 3 * BoxW /\ bars >= 0 /\ 2 + bars < 3 * BoxH
  BY BordersAre
<1>6. s.w > 2 + sides /\ s.h > 2 + bars
  BY <1>4, <1>5, WorkFits
<1>7. PICK dx, dy \in Int : dx = p[1] - wm.control.x /\ dy = p[2] - wm.control.y
  <2>1. p[1] \in Int /\ p[2] \in Int /\ wm.control.x \in Int /\ wm.control.y \in Int
    BY ScreenAssumption DEF Controls
  <2> QED BY <2>1
<1>8. ASSUME NEW x \in Int, NEW y \in Int, NEW w \in Int, NEW h \in Int, x >= 0, y >= BoxH,
             w > 2 + sides, h > 2 + bars, x + w <= Width, y + h <= Height,
             NEW r, r = [s EXCEPT !.x = x, !.y = y, !.w = w, !.h = h]
      PROVE  PublicRect(kind, r)
  <2>1. r \in RectType /\ r.x = x /\ r.y = y /\ r.w = w /\ r.h = h
    BY <1>8 DEF RectType
  <2>2. Right(r) = x + w /\ Bottom(r) = y + h
    BY <2>1 DEF Right, Bottom
  <2>3. WorkRect(kind, r) # Zero
    BY <1>5, <1>8, <2>1, WorkFits
  <2>4. x + w \in 1 .. Width /\ y + h \in BoxH + 1 .. Height
    BY <1>3, <1>5, <1>8
  <2> QED BY <1>3, <1>8, <2>1, <2>2, <2>3, <2>4 DEF PublicRect
<1>9. PublicRect(kind, Moved(p))
  <2>1. PICK maxx, maxy \in Int :
           /\ maxx = Greater(Width - s.w, 0) /\ maxy = Greater(Height - s.h, BoxH)
           /\ maxx = Width - s.w /\ maxy = Height - s.h /\ maxx >= 0 /\ maxy >= BoxH
    BY <1>2, <1>3, <1>4 DEF Greater
  <2>2. PICK fromx, fromy \in Int : fromx = s.x + p[1] - wm.control.x /\ fromy = s.y + p[2] - wm.control.y
    <3>1. p[1] \in Int /\ p[2] \in Int /\ wm.control.x \in Int /\ wm.control.y \in Int
      BY ScreenAssumption DEF Controls
    <3> QED BY <1>2, <3>1
  <2>3. PICK x, y \in Int : /\ x = Between(fromx, 0, maxx) /\ y = Between(fromy, BoxH, maxy)
                            /\ 0 <= x /\ x <= maxx /\ BoxH <= y /\ y <= maxy
    <3>1. PICK x \in Int : x = Between(fromx, 0, maxx) /\ 0 <= x /\ x <= maxx
      <4>1. 0 \in Int /\ 0 <= maxx
        BY <2>1
      <4>2. /\ Between(fromx, 0, maxx) \in Int
            /\ 0 <= Between(fromx, 0, maxx) /\ Between(fromx, 0, maxx) <= maxx
        BY ONLY <4>1, fromx \in Int, maxx \in Int, BetweenIs
      <4> QED BY <4>2
    <3>2. PICK y \in Int : y = Between(fromy, BoxH, maxy) /\ BoxH <= y /\ y <= maxy
      BY <1>3, <2>1, BetweenIs
    <3> QED BY <3>1, <3>2
  <2>4. PICK r : r = [s EXCEPT !.x = x, !.y = y]
    OBVIOUS
  <2>5. Moved(p) = r
    BY <1>1, <2>1, <2>2, <2>3, <2>4 DEF Moved
  <2>6. r = [s EXCEPT !.x = x, !.y = y, !.w = s.w, !.h = s.h]
    BY <2>4 DEF RectType
  <2>7. x + s.w <= Width /\ y + s.h <= Height
    BY <1>2, <1>3, <2>1, <2>3
  <2>8. PublicRect(kind, r)
    BY <1>2, <1>6, <1>8, <2>3, <2>6, <2>7
  <2> QED BY <2>5, <2>8
<1>10. PublicRect(kind, Sized(p))
  <2>1. PICK roomx, roomy \in Int : /\ roomx = Width - s.x /\ roomy = Height - s.y
                                    /\ roomx >= s.w /\ roomy >= s.h
    BY <1>2, <1>3, <1>4
  <2>2. PICK leastw, leasth \in Int : leastw = 2 + sides /\ leasth = 2 + bars
    OBVIOUS
  <2>3. PICK w \in Int : /\ w = Between(s.w + dx, Lesser(MinBoxes * BoxW, roomx), roomx)
                         /\ w <= roomx /\ w > leastw
    BY <1>2, <1>3, <1>5, <1>6, <2>1, <2>2, SizeIs
  <2>4. PICK h \in Int : /\ h = Between(s.h + dy, Lesser(MinBoxes * BoxH, roomy), roomy)
                         /\ h <= roomy /\ h > leasth
    BY <1>2, <1>3, <1>5, <1>6, <2>1, <2>2, SizeIs
  <2>5. PICK r : r = [s EXCEPT !.w = w, !.h = h]
    OBVIOUS
  <2>6. Sized(p) = r
    BY <1>1, <1>7, <2>1, <2>3, <2>4, <2>5 DEF Sized
  <2>7. r = [s EXCEPT !.x = s.x, !.y = s.y, !.w = w, !.h = h]
    BY <2>5 DEF RectType
  <2>8. s.x + w <= Width /\ s.y + h <= Height
    BY <1>2, <1>3, <2>1, <2>3, <2>4
  <2>9. PublicRect(kind, r)
    BY <1>2, <1>4, <1>8, <2>2, <2>3, <2>4, <2>7, <2>8
  <2> QED BY <2>6, <2>9
<1> QED BY <1>9, <1>10

----------------------------------------------------------------------------
(* The theorems *)

\* With no window open the root has one piece, and a rebuild makes just that.
LEMMA RebuildNothing ==
    ASSUME NEW m \in Managers, Whole(m), m.order = <<>>
    PROVE  LET r == Rebuild(m)
           IN  /\ Rebuilt(m, r) /\ ~r.short /\ r.pieces[Root] = <<RootWork>>
               /\ r.free = RectCount - 1
<1>1. PICK e : e = Emptied(m) /\ e \in Managers /\ Kept(m, e) /\ Whole(e) /\ ~e.short
               /\ e.free = RectCount
  BY EmptiedIs
<1>2. e.order = <<>> /\ NoRepeats(m.order) /\ m.order \in Seq(Handles)
  BY <1>1 DEF Kept, NoRepeats, Managers
<1>3. PICK k \in Nat : k = Len(Agenda(m)) /\ k = 1 /\ Agenda(m)[1] = Root
  <2>1. Agenda(m) = <<Root>>
    BY DEF Agenda
  <2> QED BY <2>1
<1>4. Rebuild(m) = BuildList(e, Root)
  <2>1. PICK after : /\ after[0] = Emptied(m)
                     /\ \A n \in 1 .. k : after[n] = BuildNext(after[n - 1], Agenda(m)[n])
                     /\ Rebuild(m) = after[k]
    BY <1>3, RebuildTurns
  <2>2. after[1] = BuildNext(after[0], Root)
    BY <1>3, <2>1
  <2> QED BY <1>1, <1>3, <2>1, <2>2 DEF BuildNext
<1>5. PICK c : c = Cutting(<<RootWork>>, RectCount - 1, TRUE) /\ c = Cutout(e, Root)
  <2>1. Covers(e, Root) = <<>>
    BY <1>2 DEF Covers, Above
  <2>2. PICK after : after[0] = Uncut(e, Root) /\ Cutout(e, Root) = after[0]
    <3>1. PICK z \in Nat : z = 0 /\ z = Len(Covers(e, Root))
      BY <2>1
    <3>2. PICK after : after[0] = Uncut(e, Root) /\ Cutout(e, Root) = after[z]
      BY <3>1, CutoutTurns
    <3> QED BY <3>1, <3>2
  <2>3. Uncut(e, Root) = Cutting(<<RootWork>>, RectCount - 1, TRUE)
    BY <1>1 DEF Uncut, Base
  <2> QED BY <2>2, <2>3
<1>6. c.list = <<RootWork>> /\ c.free = RectCount - 1 /\ c.ok = TRUE
  BY <1>5 DEF Cutting
<1>7. PICK b : b = [e EXCEPT !.pieces[Root] = c.list, !.free = c.free, !.short = ~c.ok]
  OBVIOUS
<1>8. BuildList(e, Root) = b
  <2>1. e.free # 0
    BY <1>1, ScreenAssumption
  <2> QED BY <1>5, <1>7, <2>1 DEF BuildList, Cutout
<1>9. ~b.short /\ b.pieces[Root] = <<RootWork>> /\ b.free = RectCount - 1
  BY <1>1, <1>6, <1>7 DEF Managers, Lists
<1>10. Rebuilt(m, Rebuild(m))
  BY <1>2, RebuildIs
<1> QED BY <1>4, <1>8, <1>9, <1>10

LEMMA InitFine ==
    ASSUME Init
    PROVE  Fine(wm)
<1>1. Zero \in RectType /\ RootWork \in RectType
  BY ScreenAssumption DEF RootWork, Zero, Rect, RectType
<1>2. NoWindow \in Wins /\ ~NoWindow.open /\ NoWindow.owner = NONE
  BY <1>1 DEF NoWindow, Wins
<1>3. Idle \in Controls /\ Idle.state = "IDLE"
  BY <1>1 DEF Idle, Controls, Gestures, Gadgets
<1>4. PICK pieces : pieces = [h \in Lists |-> IF h = Root THEN <<RootWork>> ELSE <<>>]
  OBVIOUS
<1>5. pieces \in PieceLists /\ pieces[Root] = <<RootWork>> /\ \A h \in Handles : pieces[h] = <<>>
  <2>1. Root \in Lists /\ \A h \in Handles : h \in Lists /\ h # Root
    BY DEF Lists, Handles, Root
  <2>2. <<RootWork>> \in Seq(RectType) /\ <<>> \in Seq(RectType)
    BY <1>1, SingleOn
  <2> QED BY <1>4, <2>1, <2>2 DEF PieceLists
<1>6. RectCount - 1 \in Nat
  BY ScreenAssumption
<1>7. /\ wm \in Managers /\ wm.order = <<>> /\ wm.top = Root /\ wm.pieces = pieces
      /\ wm.free = RectCount - 1 /\ ~wm.short /\ wm.control = Idle
      /\ \A h \in Handles : wm.win[h] = NoWindow
  BY <1>2, <1>3, <1>4, <1>5, <1>6 DEF Init, Managers, Lists, PieceLists
<1>8. Held(pieces) = 1
  <2>1. PICK none \in PieceLists : \A g \in Lists : none[g] = <<>>
    <3>1. <<>> \in Seq(RectType)
      BY <1>1, SingleOn
    <3>2. [g \in Lists |-> <<>>] \in PieceLists /\ \A g \in Lists : [x \in Lists |-> <<>>][g] = <<>>
      BY <3>1 DEF PieceLists
    <3> QED BY <3>2
  <2>2. Root \in Lists /\ \A g \in Lists \ {Root} : pieces[g] = none[g]
    BY <1>5, <2>1 DEF Lists
  <2>3. Held(pieces) \in Nat /\ Held(pieces) + Len(none[Root]) = Held(none) + Len(pieces[Root])
    BY <1>5, <2>2, HeldChange
  <2>4. Held(none) = 0 /\ Len(none[Root]) = 0 /\ Len(pieces[Root]) = 1
    BY <1>5, <2>1, <2>2, HeldNothing
  <2> QED BY <2>3, <2>4
<1>9. Whole(wm)
  BY <1>7, <1>8, ScreenAssumption DEF Whole
<1>10. NoRepeats(wm.order) /\ \A h : ~Listed(wm.order, h)
  BY <1>7 DEF NoRepeats, Listed
<1>11. Tree(wm) /\ Framed(wm) /\ Controlled(wm)
  BY <1>2, <1>3, <1>5, <1>7, <1>10 DEF Tree, Framed, Controlled
<1>12. Settled(wm)
  <2>1. PICK r : r = Rebuild(wm) /\ Rebuilt(wm, r) /\ ~r.short /\ r.pieces[Root] = <<RootWork>>
                 /\ r.free = RectCount - 1
    BY <1>7, <1>9, RebuildNothing
  <2>2. r.pieces = wm.pieces
    <3>1. r.pieces \in PieceLists /\ wm.pieces \in PieceLists
      BY <1>5, <1>7, <2>1 DEF Rebuilt, Managers, PieceLists
    <3>2. \A h \in Lists : r.pieces[h] = wm.pieces[h]
      BY <1>5, <1>7, <1>10, <2>1 DEF Rebuilt, Lists
    <3> QED BY <3>1, <3>2 DEF PieceLists
  <2>3. Flags(wm)
    BY <1>10 DEF Flags
  <2> QED BY <1>7, <1>9, <1>10, <2>1, <2>2, <2>3, FlagsSettle
<1> QED BY <1>7, <1>9, <1>11, <1>12 DEF Fine, Good

\* The invariant holds of every reachable state.
THEOREM WindowsAreFine == Spec => []IInv
<1>1. Init => IInv
  BY InitFine DEF IInv, Fine
<1>2. IInv /\ [Next]_vars => IInv'
  <2>1. SUFFICES ASSUME IInv, [Next]_vars PROVE Fine(wm')
    BY DEF IInv, Fine, Good, Settled, Whole, Tree, Framed, Controlled, Managers
  <2>2. Fine(wm)
    BY <2>1 DEF IInv, Fine
  <2>3. CASE Next
    <3>1. Steady \/ Arranged \/ Reverted
      BY <2>2, <2>3, NextIs, UpSteady DEF Step
    <3> QED BY <2>2, <3>1, StepFine
  <2>4. CASE UNCHANGED vars
    BY <2>2, <2>4 DEF vars
  <2> QED BY <2>1, <2>3, <2>4
<1> QED BY <1>1, <1>2, PTL DEF Spec

\* The tree holds the open windows and ends in the top one, the pieces of every
\* window are exactly what nothing above it hides (gem_window_break_list and
\* gem_window_build_one_list), no rectangle of the pool is lost, and a gesture is on
\* a window of the tree: for any screen, any windows and any size of the pool.
THEOREM WindowsAreSafe == Spec => []TreeSafety
<1>1. IInv => TreeSafety
  BY FineIsSafe DEF IInv, Fine
<1> QED BY WindowsAreFine, <1>1, PTL

\* The three kinds of step are all there are from a good state.
LEMMA StepKinds ==
    ASSUME IInv, Next
    PROVE  Fine(wm) /\ (Steady \/ Arranged \/ Reverted)
<1>1. Fine(wm)
  BY DEF IInv
<1> QED BY <1>1, NextIs, UpSteady DEF Step

\* gem_window_release_list ends the walk over a list, so that no NEXTXYWH goes on
\* in a list that was rebuilt since its FIRSTXYWH.
THEOREM WalksAreFresh == Spec => WalksAreNotStale
<1> DEFINE Fresh == \A h \in {Root} \cup Handles :
                       wm'.next[h] # 0 => wm'.pieces[h] = wm.pieces[h]
<1>1. IInv /\ [Next]_vars => [Fresh]_vars
  <2> SUFFICES ASSUME IInv, Next PROVE Fresh
    OBVIOUS
  <2> QED BY StepKinds, StepWalks DEF Lists
<1> QED BY WindowsAreFine, <1>1, PTL DEF Spec, WalksAreNotStale

\* WIND_OPEN, WIND_SET(CXYWH) and WIND_SET(TOP) that find the pool too small put back
\* what was, but for the walks and the BROKEN flags of windows wholly covered.
THEOREM FailuresLeaveNoTrace == Spec => FailureLeavesNoTrace
<1> DEFINE Same == LET flagged(h) == [wm.win[h] EXCEPT !.broken = wm'.win[h].broken]
                       kept(h) == IF wm.pieces[h] = <<>> THEN flagged(h) ELSE wm.win[h]
                   IN  ~effects'.result /\ ~wm.short
                       => wm' = [wm EXCEPT !.next = wm'.next,
                                           !.win = [h \in Handles |-> kept(h)]]
<1>1. IInv /\ [Next]_vars => [Same]_vars
  <2> SUFFICES ASSUME IInv, Next PROVE Same
    OBVIOUS
  <2>1. CASE effects'.result \/ wm.short
    BY <2>1
  <2>2. CASE ~effects'.result /\ ~wm.short
    <3>1. Fine(wm) /\ Reverted
      BY <2>2, StepKinds DEF Steady, Arranged
    <3>2. Unchanged(wm, wm')
      BY <2>2, <3>1, BackUnchanged DEF Reverted
    <3>3. Fine(wm')
      BY <3>1, StepFine
    <3>4. PICK m \in Managers, n \in Managers : m = wm /\ n = wm'
      BY <3>1, <3>3 DEF Fine, Good
    <3>5. LET flagged(h) == [m.win[h] EXCEPT !.broken = n.win[h].broken]
              kept(h) == IF m.pieces[h] = <<>> THEN flagged(h) ELSE m.win[h]
          IN  n = [m EXCEPT !.next = n.next, !.win = [h \in Handles |-> kept(h)]]
      BY <3>2, <3>4, NoTrace
    <3> QED BY <3>4, <3>5
  <2> QED BY <2>1, <2>2
<1> QED BY WindowsAreFine, <1>1, PTL DEF Spec, FailureLeavesNoTrace

\* The WM_REDRAW messages of a call (gem_window_redraw) and its dirty rectangle cover
\* every cell of a work area, and of the background, that the call brings into sight.
THEOREM RedrawsAreComplete == Spec => ExposedIsRedrawn
<1> DEFINE Painted ==
       ~wm.short /\ ~wm'.short /\ effects'.op # "TOP"
       => /\ \A h \in ToSet(wm'.order) : Exposed(h) \subseteq Redrawn(h)
          /\ Covered(wm', Root) \ Covered(wm, Root) \subseteq
                (IF effects'.background THEN Cells(effects'.dirty) ELSE {})
<1>1. IInv /\ [Next]_vars => [Painted]_vars
  <2> SUFFICES ASSUME IInv, Next PROVE Painted
    OBVIOUS
  <2> QED BY StepKinds, StepRepaints DEF Repainted
<1> QED BY WindowsAreFine, <1>1, PTL DEF Spec, ExposedIsRedrawn

\* A drag of a window that lies on the screen and below the menu bar ends in one
\* message to its owner, with a rectangle that gem_window_public_rect accepts.
THEOREM DragsAreTold == Spec => DragsAreReported
<1> DEFINE Told == LET g == wm.control
                   IN  /\ g.state \in {"MOVE", "SIZE"} /\ effects'.op = "UP"
                       /\ g.start.x >= 0 /\ g.start.y >= BoxH
                       => /\ Len(effects'.messages) = 1
                          /\ effects'.messages[1].owner = wm.win[g.handle].owner
                          /\ PublicRect(wm.win[g.handle].kind, effects'.messages[1].rect)
<1>1. IInv /\ [Next]_vars => [Told]_vars
  <2> SUFFICES ASSUME IInv, Next, wm.control.state \in {"MOVE", "SIZE"}, effects'.op = "UP",
                      wm.control.start.x >= 0, wm.control.start.y >= BoxH
               PROVE  /\ Len(effects'.messages) = 1
                      /\ effects'.messages[1].owner = wm.win[wm.control.handle].owner
                      /\ PublicRect(wm.win[wm.control.handle].kind, effects'.messages[1].rect)
    BY DEF Told
  <2>1. Fine(wm)
    BY DEF IInv, Fine
  <2>2. PICK p \in Points : Up(p)
    BY <2>1, NextIs DEF Step
  <2>3. PICK h, kind : h = wm.control.handle /\ kind = wm.win[h].kind
    OBVIOUS
  <2>4. wm.control \in Controls /\ PublicRect(kind, wm.control.start)
    BY <2>1, <2>3 DEF Fine, Good, Managers, Controlled
  <2>5. PublicRect(kind, Moved(p)) /\ PublicRect(kind, Sized(p))
    BY <2>4, DragsFit
  <2>6. PICK type \in {"MOVED", "SIZED"}, r \in {Moved(p), Sized(p)} : Sampled("UP", Idle, Post(type, h, r))
    <3>1. PICK messages \in Finishes(p) : Sampled("UP", Idle, messages)
      BY <2>2 DEF Up
    <3>2. CASE wm.control.state = "MOVE"
      BY <2>3, <3>1, <3>2 DEF Finishes
    <3>3. CASE wm.control.state = "SIZE"
      BY <2>3, <3>1, <3>3 DEF Finishes
    <3> QED BY <3>2, <3>3
  <2>7. effects'.messages = <<Message(wm, type, h, r)>>
    BY <2>3, <2>5, <2>6 DEF Sampled, NoEffects, Post
  <2>8. Message(wm, type, h, r).owner = wm.win[h].owner /\ Message(wm, type, h, r).rect = r
    BY DEF Message
  <2> QED BY <2>3, <2>5, <2>6, <2>7, <2>8
<1> QED BY WindowsAreFine, <1>1, PTL DEF Spec, DragsAreReported
=============================================================================
