------------------------------ MODULE GemForest ------------------------------
(***************************************************************************)
(* What the calls on an object tree promise: every object has its children *)
(* in order, an object has at most one parent, and a call adds one at the  *)
(* end, takes one out with all that is below it, or moves one among its    *)
(* sisters.                                                                *)
(***************************************************************************)
EXTENDS Integers, SequencesExt, GemFifo

CONSTANTS Objects, Root, First

VARIABLE kids

Parents(o) == {p \in Objects : Listed(kids[p], o)}

Init == kids = First

Add(p, o) ==
    /\ o # Root /\ o # p /\ Parents(o) = {}
    /\ kids' = [kids EXCEPT ![p] = Append(@, o)]

Take(o) ==
    \E p \in Parents(o) : kids' = [kids EXCEPT ![p] = Without(@, o)]

\* Position 0 is the front.
Move(o, position) ==
    \E p \in Parents(o) :
        /\ position < Len(kids[p])
        /\ kids' = [kids EXCEPT ![p] = InsertAt(Without(@, o), position + 1, o)]

MoveToEnd(o) ==
    \E p \in Parents(o) : kids' = [kids EXCEPT ![p] = Append(Without(@, o), o)]

Next ==
    \E o \in Objects :
        \/ \E p \in Objects : Add(p, o)
        \/ Take(o)
        \/ \E position \in 0 .. Cardinality(Objects) : Move(o, position)
        \/ MoveToEnd(o)

Spec == Init /\ [][Next]_kids
=============================================================================
