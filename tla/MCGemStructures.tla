--------------------------- MODULE MCGemStructures ---------------------------
(* The data structures the AES keeps on behalf of its clients, each on a     *)
(* small instance and one at a time: "scene" says which one is at work, the  *)
(* other two stay as they begin.                                             *)
(*                                                                           *)
(* links:    four slots, so that a removal can be at the front, inside or at *)
(*           the end of a list, and two lists to move between.               *)
(* tree:     four objects, two levels deep, one of them perhaps hidden or    *)
(*           spoilt.                                                         *)
(* selector: two clients, three segments, a directory longer than the box    *)
(*           and longer than the list.                                       *)
EXTENDS GemPendingLinks, GemObject, TLC

CONSTANTS
    c1, c2, c3, c4, s1, s2, s3, NONE,
    \* those of GemSelector
    Clients, Segments, Files, Disk, Matching, Rank, Lines, MaxFiles, StemWidth, Track,
    MinHeight, Presses

VARIABLES
    scene,
    live, far, lost, res, tried,
    active, storage, asking, answer, path, list, top, selection, shown, marked,
    elevator, name

selectorVars == <<live, far, lost, res, tried, active, storage, asking, answer, path,
                  list, top, selection, shown, marked, elevator, name>>

----------------------------------------------------------------------------
(* The tree *)

Spans(x, w) == [x |-> x, w |-> w]

TreeKids == 0 :> <<1, 2>> @@ 1 :> <<>> @@ 2 :> <<3>> @@ 3 :> <<>>
TreePlace == 0 :> Spans(0, 5) @@ 1 :> Spans(0, 3) @@ 2 :> Spans(1, 4) @@ 3 :> Spans(1, 2)

\* gem_object_every, gem_object_find, OBJC_CHANGE: see GemObject.
ObjectSafety == scene = "tree" => TreeIsSafe

----------------------------------------------------------------------------
(* The selector *)

Counts(tr, ob, te, st) == "tree" :> tr @@ "object" :> ob @@ "text" :> te @@ "string" :> st

\* The trees first and the texts last; every place of the objects between and
\* beyond them, and files that are cut or do not check out.
SmallFiles ==
    {[size |-> 6, at |-> Counts(1, at, 4, 0), n |-> Counts(1, 1, 1, 0), bad |-> {},
      short |-> "no"] : at \in {1, 2, 5}}
    \cup {[size |-> 4, at |-> Counts(1, 2, 0, 0), n |-> Counts(1, 1, 0, 0), bad |-> bad,
           short |-> short] : bad \in {{}, {"object"}}, short \in {"rest", "header"}}

A == <<"a">>
B == <<"b", ".", "c">>
Long == <<"l", "o", "n", "g">>
D == <<"d">>
X == <<"x", ".", "x">>
Folder(n) == [kind |-> "folder", name |-> n]
File(n) == [kind |-> "file", name |-> n]

SmallDisk ==
    <<>> :> {Folder(A), File(B), Folder(Long), File(X), Folder(D)}
    @@ <<A>> :> {File(B), File(Long)}
    @@ <<Long>> :> {}
    @@ <<D>> :> {Folder(A)}
SmallRank == A :> 1 @@ B :> 2 @@ D :> 3 @@ Long :> 4 @@ X :> 5
SmallMatching == {B, X}

Selector == INSTANCE GemSelector

\* gem_form_fsel_read, gem_resource_resident_load, gem_far_resource_alloc: see
\* GemSelector.
SelectorSafety ==
    scene = "selector" => Selector!SelectorSafety /\ Selector!ResourcesAreWhole

----------------------------------------------------------------------------

MCInit ==
    /\ scene \in {"links", "tree", "selector"}
    /\ LinksInit
    /\ ObjectInit
    /\ (scene # "tree" => hidden = {} /\ spoilt = {})
    /\ Selector!ResourceInit
    /\ Selector!SelectorInit

MCNext ==
    \/ /\ scene = "links"
       /\ LinksNext
       /\ UNCHANGED <<scene, objectVars, selectorVars>>
    \/ /\ scene = "tree"
       /\ ObjectNext
       /\ UNCHANGED <<scene, linkVars, selectorVars>>
    \/ /\ scene = "selector"
       /\ Selector!SelectorNext
       /\ UNCHANGED <<scene, linkVars, objectVars>>

MCSpec == MCInit /\ [][MCNext]_<<scene, linkVars, objectVars, selectorVars>>
=============================================================================
