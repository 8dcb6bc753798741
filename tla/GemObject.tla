------------------------------ MODULE GemObject ------------------------------
(***************************************************************************)
(* Object trees (gem_object_resident.c).  A tree is an array of objects    *)
(* with three links each: ob_head and ob_tail lead to the first and last   *)
(* child, ob_next to the next sister, and from the last child back to the  *)
(* parent.  The array is the client's; the calls OBJC_ADD, OBJC_DELETE and *)
(* OBJC_ORDER relink it, OBJC_DRAW, OBJC_FIND and OBJC_OFFSET walk it, and *)
(* OBJC_CHANGE stores a state and repaints one object.                     *)
(*                                                                         *)
(* One axis stands for both: a rectangle is an interval.  The colors, text *)
(* and bitmaps of an object are left out; what is kept is whether drawing  *)
(* it succeeds, and whether the screen shows the state it has.             *)
(***************************************************************************)
EXTENDS Integers, SequencesExt, GemFifo

CONSTANTS
    Count,       \* objects in the array, up to the one with LASTOB
    FirstKids,   \* the tree as the client built it: the children of each
    Place,       \* ob_x and ob_width of each object
    Hidden,      \* choices for the objects with HIDETREE
    Spoilt,      \* choices for the objects that cannot be drawn
    Icons,       \* icons and buttons, which are never just inverted
    Changeable,  \* objects the client changes the state of
    MaxDepth,    \* GEM_OBJECT_MAX_DEPTH
    Depths,      \* depths the client asks for
    Points       \* positions of the mouse

ROOT == 0
NIL == -1
Bad == -2        \* the result of a walk that failed

Objects == 0 .. Count - 1
Links == Objects \cup {NIL}
Bits == {"SELECTED", "CHECKED"}
Unknown == {"?"}     \* what the screen shows says nothing of the state

\* A client builds its tree like that: no object is twice among the children,
\* nor is the root, or an object among its own.
ASSUME BuiltAssumption ==
    /\ Count \in Nat \ {0}
    /\ FirstKids \in [Objects -> Seq(Objects \ {ROOT})]
    /\ \A p \in Objects : NoRepeats(FirstKids[p]) /\ ~Listed(FirstKids[p], p)
    /\ \A p, q, o \in Objects :
          Listed(FirstKids[p], o) /\ Listed(FirstKids[q], o) => p = q

VARIABLES
    ob_next, ob_head, ob_tail,  \* the links
    hidden,            \* the objects with HIDETREE
    spoilt,            \* the objects whose drawing fails
    state,             \* ob_state
    face,              \* the state each object shows on the screen
    kids               \* read off the links, for the properties only

links == <<ob_next, ob_head, ob_tail, kids>>
objectVars == <<ob_next, ob_head, ob_tail, hidden, spoilt, state, face, kids>>

\* The objects met from x on along the links n, as many as there are at most.
Met(n, x) ==
    LET met[i \in 0 .. Count] ==
            IF i = 0 THEN x ELSE IF met[i - 1] = NIL THEN NIL ELSE n[met[i - 1]]
    IN  met

\* How far a walk goes that ends at the first object that Ends.  Every walk
\* of the code is bounded by the number of objects, so that links that do not
\* form a tree end it too.
Steps(met, Ends(_)) ==
    IF \E i \in 0 .. Count : Ends(met[i])
    THEN CHOOSE i \in 0 .. Count : Ends(met[i]) /\ \A j \in 0 .. i - 1 : ~Ends(met[j])
    ELSE Count

\* How far it is from the first child of p, along the links n, to its end.
Sisters(n, h, p) == Steps(Met(n, h[p]), LAMBDA x : x \in {p, NIL})

\* The children of each object in order, as the links have them.
Kids(n, h) ==
    [p \in Objects |-> [i \in 1 .. Sisters(n, h, p) |-> Met(n, h[p])[i - 1]]]

ObjectInit ==
    /\ ob_head = [o \in Objects |-> IF FirstKids[o] = <<>> THEN NIL ELSE FirstKids[o][1]]
    /\ ob_tail = [o \in Objects |-> IF FirstKids[o] = <<>> THEN NIL
                                 ELSE FirstKids[o][Len(FirstKids[o])]]
    /\ ob_next = [o \in Objects |->
                 IF \E p \in Objects : Listed(FirstKids[p], o)
                 THEN LET p == CHOOSE q \in Objects : Listed(FirstKids[q], o)
                          i == CHOOSE j \in DOMAIN FirstKids[p] : FirstKids[p][j] = o
                      IN  IF i = Len(FirstKids[p]) THEN p ELSE FirstKids[p][i + 1]
                 ELSE NIL]
    /\ hidden \in Hidden
    /\ spoilt \in Spoilt
    /\ state = [o \in Objects |-> {}]
    /\ face = [o \in Objects |-> Unknown]
    /\ kids = FirstKids

----------------------------------------------------------------------------
(* Walks *)

\* gem_object_parent: along the sisters to the object they belong to.
Parent(o) ==
    LET met == Met(ob_next, o)
        steps == Steps(met, LAMBDA x : ob_next[x] = NIL \/ ob_tail[ob_next[x]] = x)
    IN  IF o = ROOT THEN NIL
        ELSE IF steps = Count THEN Bad
        ELSE ob_next[met[steps]]

\* gem_object_offset: the sum of the positions up to the root.
Offset(o) ==
    LET sum[steps \in 0 .. Count, x \in Objects, total \in Int] ==
            IF steps = 0 \/ Parent(x) = Bad THEN Bad
            ELSE IF Parent(x) = NIL THEN total + Place[x].x
            ELSE sum[steps - 1, Parent(x), total + Place[x].x]
    IN  sum[Count, o, 0]

\* gem_object_previous
PreviousChild(p, o) ==
    LET met == Met(ob_next, ob_head[p])
        steps == Steps(met, LAMBDA x : x = NIL \/ ob_next[x] \in {o, p})
    IN  IF ob_head[p] = o \/ steps = Count \/ met[steps] = NIL THEN NIL
        ELSE IF ob_next[met[steps]] = o THEN met[steps]
        ELSE NIL

\* gem_object_children: their number, if the last one is the tail.
Children(p) ==
    LET met == Met(ob_next, ob_head[p])
        number == Sisters(ob_next, ob_head, p)
    IN  IF ob_head[p] = NIL /\ ob_tail[p] = NIL THEN 0
        ELSE IF NIL \in {ob_head[p], ob_tail[p]} THEN Bad
        ELSE IF met[number] = p /\ number > 0 /\ met[number - 1] = ob_tail[p] THEN number
        ELSE Bad

----------------------------------------------------------------------------
(* The calls that relink.  One that is refused changes nothing, and is left *)
(* out.                                                                    *)

CanAdd(p, o) == o # ROOT /\ p # o /\ Children(p) # Bad /\ ob_next[o] = NIL

\* gem_object_add_child
AddChild(p, o) ==
    /\ ob_next' = IF Children(p) = 0 THEN [ob_next EXCEPT ![o] = p]
               ELSE [ob_next EXCEPT ![o] = p, ![ob_tail[p]] = o]
    /\ ob_head' = IF Children(p) = 0 THEN [ob_head EXCEPT ![p] = o] ELSE ob_head
    /\ ob_tail' = [ob_tail EXCEPT ![p] = o]

\* The object is a child in a well-formed list of its parent.
IsChild(o) == o # ROOT /\ Parent(o) \in Objects /\ Children(Parent(o)) > 0

CanDelete(o) ==
    IsChild(o) /\ (ob_head[Parent(o)] # o => PreviousChild(Parent(o), o) # NIL)

\* gem_object_delete: what is below the object stays below it.
Delete(o) ==
    LET p == Parent(o)
        before == PreviousChild(p, o)
        only == ob_head[p] = o /\ ob_tail[p] = o
    IN  /\ ob_head' = IF ob_head[p] # o THEN ob_head
                   ELSE [ob_head EXCEPT ![p] = IF only THEN NIL ELSE ob_next[o]]
        /\ ob_tail' = IF ob_tail[p] = o THEN [ob_tail EXCEPT ![p] = before] ELSE ob_tail
        /\ ob_next' = IF ob_head[p] = o THEN [ob_next EXCEPT ![o] = NIL]
                   ELSE [ob_next EXCEPT ![before] = ob_next[o], ![o] = NIL]

\* The checks are made before anything is unlinked.
CanOrder(o, position) ==
    /\ IsChild(o)
    /\ position # NIL => position < Children(Parent(o))
    /\ Children(Parent(o)) = 1 => ob_head[Parent(o)] = o
    /\ ob_head[Parent(o)] # o => PreviousChild(Parent(o), o) # NIL

\* The list of p without its child o, which keeps its own link.
Unhooked(p, o) ==
    [next  |-> IF ob_head[p] = o THEN ob_next ELSE [ob_next EXCEPT ![PreviousChild(p, o)] = ob_next[o]],
     first |-> IF ob_head[p] = o THEN ob_next[o] ELSE ob_head[p],
     last  |-> IF ob_tail[p] = o THEN PreviousChild(p, o) ELSE ob_tail[p]]

\* gem_object_order: an only child stays.
OrderAlone(p, o) ==
    /\ ob_next' = [ob_next EXCEPT ![o] = p]
    /\ UNCHANGED <<ob_head, ob_tail>>

OrderToFront(p, o) ==
    LET rest == Unhooked(p, o)
    IN  /\ ob_next' = [rest.next EXCEPT ![o] = rest.first]
        /\ ob_head' = [ob_head EXCEPT ![p] = o]
        /\ ob_tail' = [ob_tail EXCEPT ![p] = rest.last]

\* Mutant: an object put behind the last one does not become the tail.
OrderBehindTail(p, o, position) ==
    LET rest == Unhooked(p, o)
        met == Met(rest.next, rest.first)
        place == IF position = NIL THEN rest.last ELSE met[position - 1]
    IN  /\ ob_next' = [rest.next EXCEPT ![o] = rest.next[place], ![place] = o]
        /\ ob_head' = [ob_head EXCEPT ![p] = rest.first]
        /\ ob_tail' = [ob_tail EXCEPT ![p] = rest.last]

\* Linked in behind the last, or behind the one before the position.
OrderBehind(p, o, position) ==
    LET rest == Unhooked(p, o)
        met == Met(rest.next, rest.first)
        place == IF position = NIL THEN rest.last ELSE met[position - 1]
    IN  /\ ob_next' = [rest.next EXCEPT ![o] = rest.next[place], ![place] = o]
        /\ ob_head' = [ob_head EXCEPT ![p] = rest.first]
        /\ ob_tail' = [ob_tail EXCEPT ![p] = IF rest.next[place] = p THEN o ELSE rest.last]

Order(o, position) ==
    LET p == Parent(o)
    IN  IF Children(p) = 1 THEN OrderAlone(p, o)
        ELSE IF position = 0 THEN OrderToFront(p, o)
        ELSE OrderBehind(p, o, position)

----------------------------------------------------------------------------
(* Drawing *)

\* gem_object_just_draw: an object that is hidden is passed over, one that
\* cannot be drawn ends the call.
Drawing(o) ==
    IF o \in hidden THEN "passed" ELSE IF o \in spoilt THEN "failed" ELSE "drawn"

CoordStack == MaxDepth + 2

\* gem_object_every: the objects from "first" on, in the order in which they
\* are drawn and with their positions, until "last" comes next.  Its loops
\* have no bound in the code; here "fuel" would end an endless one.
Every(first, last, x0, depth) ==
    LET cap == IF depth > MaxDepth THEN MaxDepth ELSE depth
        walk[sister \in BOOLEAN, o \in Links, at \in Seq(Int), out \in Seq(Seq(Int)),
             fuel \in Nat] ==
            LET result(ok) == [ok |-> ok, drawn |-> out]
                x == at[Len(at)] + Place[o].x
                more == IF Drawing(o) = "drawn" THEN Append(out, <<o, x>>) ELSE out
                n == ob_next[o]
            IN  IF fuel = 0 THEN result("endless")
                ELSE IF ~sister
                THEN IF o = last THEN result("done")
                     ELSE IF o = NIL \/ Len(at) >= CoordStack \/ Drawing(o) = "failed"
                     THEN result("failed")
                     ELSE IF ob_head[o] # NIL /\ o \notin hidden /\ Len(at) <= cap
                     THEN walk[FALSE, ob_head[o], Append(at, x), more, fuel - 1]
                     ELSE walk[TRUE, o, at, more, fuel - 1]
                ELSE IF n = last \/ o = ROOT THEN result("done")
                ELSE IF n = NIL THEN result("failed")
                ELSE IF ob_tail[n] # o THEN walk[FALSE, n, at, out, fuel - 1]
                ELSE IF Len(at) <= 1 THEN result("failed")
                ELSE walk[TRUE, n, Front(at), out, fuel - 1]
    IN  walk[FALSE, first, <<x0>>, <<>>, 3 * Count]

\* gem_object_draw
Draw(o, depth) ==
    LET p == Parent(o)
        x0 == IF p \in Objects THEN Offset(p) ELSE 0
        last == IF o = ROOT THEN NIL ELSE ob_next[o]
    IN  IF p = Bad \/ x0 = Bad THEN [ok |-> "failed", drawn |-> <<>>]
        ELSE Every(o, last, x0, depth)

\* An object and all that is below it.
Below(o) ==
    LET parent == [x \in Objects |-> Parent(x)]
        grown[i \in 0 .. Count] ==
            IF i = 0 THEN {o}
            ELSE LET g == grown[i - 1] IN g \cup {x \in Objects : parent[x] \in g}
    IN  grown[Count]

\* gem_object_find: down from "first", in each list of children from the
\* last to the first, into the first one the point is in.
Find(first, depth0, point) ==
    LET search[o \in Links, depth \in Nat, x0 \in Int, found \in Links, sisters \in BOOLEAN] ==
            LET x == x0 + Place[o].x
                inside == point >= x /\ point < x + Place[o].w
                before == PreviousChild(found, o)
            IN  IF inside /\ o \notin hidden
                THEN IF ob_tail[o] # NIL /\ depth > 0
                     THEN search[ob_tail[o], depth - 1, x, o, TRUE]
                     ELSE o
                ELSE IF sisters /\ found # NIL /\ before # NIL
                THEN search[before, depth, x0, found, TRUE]
                ELSE found
        p == Parent(first)
        x0 == IF p \in Objects THEN Offset(p) ELSE 0
    IN  IF p = Bad \/ x0 = Bad THEN NIL ELSE search[first, depth0, x0, NIL, FALSE]

----------------------------------------------------------------------------
(* The calls *)

ObjcAdd(p, o) ==
    /\ CanAdd(p, o)
    /\ AddChild(p, o)
    /\ kids' = Kids(ob_next', ob_head')
    /\ face' = [x \in Objects |-> Unknown]
    /\ UNCHANGED <<hidden, spoilt, state>>

ObjcDelete(o) ==
    /\ CanDelete(o)
    /\ Delete(o)
    /\ kids' = Kids(ob_next', ob_head')
    /\ face' = [x \in Objects |-> Unknown]
    /\ UNCHANGED <<hidden, spoilt, state>>

ObjcOrder(o, position) ==
    /\ CanOrder(o, position)
    /\ Order(o, position)
    /\ kids' = Kids(ob_next', ob_head')
    /\ face' = [x \in Objects |-> Unknown]
    /\ UNCHANGED <<hidden, spoilt, state>>

\* What is not drawn again is covered by what is above it.
ObjcDraw(o, depth) ==
    /\ LET drawn == {d[1] : d \in ToSet(Draw(o, depth).drawn)}
       IN  face' = [x \in Objects |->
                      IF x \in drawn THEN state[x]
                      ELSE IF drawn # {} /\ x \in Below(o) THEN Unknown
                      ELSE face[x]]
    /\ UNCHANGED <<links, hidden, spoilt, state>>

\* Mutant: any change of SELECTED is taken for a mere inversion.
InvertsAlways(o, new) ==
    /\ o \notin Icons
    /\ "SELECTED" \in SymDiff(state[o], new)

\* OBJC_CHANGE inverts an object of which only SELECTED changes.
Inverts(o, new) ==
    /\ o \notin Icons
    /\ SymDiff(state[o], new) = {"SELECTED"}

\* The new state is stored first, and stays when the repainting fails.
ObjcChange(o, new, redraw) ==
    /\ state[o] # new
    /\ state' = [state EXCEPT ![o] = new]
    /\ face' = [x \in Objects |->
                  IF x # o THEN IF redraw /\ x \in Below(o) \cup {Parent(o)}
                                   /\ (o \notin hidden \/ Inverts(o, new))
                                THEN Unknown ELSE face[x]
                  ELSE IF ~redraw \/ Offset(o) = Bad \/ o \in hidden THEN Unknown
                  ELSE IF Inverts(o, new)
                  THEN IF face[o] = Unknown THEN Unknown
                       ELSE SymDiff(face[o], {"SELECTED"})
                  ELSE IF o \in spoilt THEN Unknown ELSE new]
    /\ UNCHANGED <<links, hidden, spoilt>>

ObjectNext ==
    \/ \E p, o \in Objects : ObjcAdd(p, o)
    \/ \E o \in Objects : ObjcDelete(o)
    \/ \E o \in Objects, position \in -1 .. Count - 1 : ObjcOrder(o, position)
    \/ \E o \in Objects, depth \in Depths : ObjcDraw(o, depth)
    \/ \E o \in Changeable, new \in SUBSET Bits, redraw \in BOOLEAN :
         ObjcChange(o, new, redraw)

ObjectSpec == ObjectInit /\ [][ObjectNext]_objectVars
----------------------------------------------------------------------------
(* What the tree is.  The definitions below speak of the lists of children,*)
(* not of the links.                                                       *)

Forest == INSTANCE GemForest
              WITH Root <- ROOT, First <- FirstKids

Owner(o) == IF Forest!Parents(o) = {} THEN NIL
            ELSE CHOOSE p \in Forest!Parents(o) : TRUE

\* The path from an object to the one on top, or to one already on it.
Path(o) ==
    LET up[steps \in 0 .. Count, x \in Objects] ==
            IF steps = 0 \/ Owner(x) = NIL THEN <<x>>
            ELSE <<x>> \o up[steps - 1, Owner(x)]
    IN  up[Count, o]

\* Objects above which there is no end: a detached object was added below
\* itself.
Circular(o) == Owner(Last(Path(o))) # NIL

PlaceOf(o) == FoldLeft(LAMBDA sum, x : sum + Place[x].x, 0, Path(o))

\* The visible objects from o on, parents before children, sisters in order.
Preorder(o, depth) ==
    LET visit[x \in Objects, d \in Nat] ==
            IF x \in hidden THEN <<>>
            ELSE <<x>> \o (IF d = 0 THEN <<>>
                           ELSE FlattenSeq([i \in DOMAIN kids[x] |->
                                              visit[kids[x][i], d - 1]]))
    IN  visit[o, depth]

\* A click can mean object x: all from there up to o contain the point.
Hit(o, x, point, place) ==
    LET hit[y \in Objects] ==
            /\ point >= place[y] /\ point < place[y] + Place[y].w
            /\ y = o \/ hit[Owner(y)]
    IN  hit[x]

----------------------------------------------------------------------------
(* Properties *)

\* gem_object_add_child, gem_object_delete, gem_object_order: the links are
\* changed the way the lists of children should be, whichever of its list
\* the object is, the only one, the first, the last or one inside.
ImplementsForest == Forest!Spec

\* A call is refused only when there is nothing to do: gem_object_parent and
\* gem_object_children never give up on a list the calls have made, and an
\* object that was taken out can be added again.
RefusedOnlyInVain ==
    \A o \in Objects :
        /\ CanDelete(o) <=> Owner(o) # NIL
        /\ \A p \in Objects : CanAdd(p, o) <=> o # ROOT /\ p # o /\ Owner(o) = NIL
        /\ \A position \in -1 .. Count - 1 :
             CanOrder(o, position) <=>
                 /\ Owner(o) # NIL
                 /\ position < Len(kids[Owner(o)])

\* gem_object_every: drawing comes to an end, whatever was relinked, and
\* draws what it should in the order it should, each object at the sum of
\* the positions above it, up to the first that cannot be drawn.  Nothing is
\* drawn of objects that have no end above them.
DrawnInOrder ==
    LET place == [x \in Objects |-> IF Circular(x) THEN Bad ELSE PlaceOf(x)]
    IN  \A o \in Objects, depth \in Depths :
        LET d == Draw(o, depth)
            full == Preorder(o, IF depth > MaxDepth THEN MaxDepth ELSE depth)
            bad == {i \in DOMAIN full : full[i] \in spoilt}
            stop == IF bad = {} THEN Len(full)
                    ELSE (CHOOSE i \in bad : \A j \in bad : i <= j) - 1
        IN  IF Circular(o) THEN d = [ok |-> "failed", drawn |-> <<>>]
            ELSE /\ d.ok = IF bad = {} THEN "done" ELSE "failed"
                 /\ d.drawn = [i \in 1 .. stop |-> <<full[i], place[full[i]]>>]

\* gem_object_find: the object under the mouse is the one that is drawn last
\* among those it can be.
FoundOnTop ==
    LET place == [x \in Objects |-> IF Circular(x) THEN Bad ELSE PlaceOf(x)]
    IN  \A o \in Objects, depth \in {0, Count} :
        LET order == IF Circular(o) THEN <<>> ELSE Preorder(o, depth)
        IN  \A point \in Points :
                LET hit == SelectSeq(order, LAMBDA x : Hit(o, x, point, place))
                IN  Find(o, depth, point) = IF hit = <<>> THEN NIL ELSE Last(hit)

\* OBJC_CHANGE repaints one object, or only inverts it: either way the screen
\* then shows the state that was stored, if it did before.
FacesShowStates ==
    \A o \in Objects : face[o] # Unknown => face[o] = state[o]

TreeIsSafe ==
    /\ RefusedOnlyInVain
    /\ DrawnInOrder
    /\ FoundOnTop
    /\ FacesShowStates
=============================================================================
