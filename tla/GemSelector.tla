----------------------------- MODULE GemSelector -----------------------------
(***************************************************************************)
(* Resources (gem_resource_resident.c, gem_rsc.c, gem_system_resource.c),  *)
(* the far segments they live in (gem_far_resource_elks.c), and the file   *)
(* selector that uses both (gem_fsel_resident.c).                          *)
(*                                                                         *)
(* RSRC_LOAD reads a file into a segment, checks all of it, and then       *)
(* relocates it in place: pointers get the segment, positions in characters*)
(* become pixels.  Neither may happen twice to the same cell.  A file is a *)
(* row of cells.  Its header names four tables: the trees and the free     *)
(* strings, whose records are one pointer, and the objects and the texts,  *)
(* whose records are a pointer and a position.  What the pointers say is   *)
(* reduced to whether the checks of that table pass.                       *)
(*                                                                         *)
(* There is one selector for all clients, in a tree of the AES's own       *)
(* resource.  Its list of names lives in a far segment, and each pass of   *)
(* its form (gem_form_fsel_progress) ends with the object that was touched:*)
(* an arrow or the slider scrolls, a line picks a file or enters a folder, *)
(* the closer leaves one, OK and Cancel answer.  A name is a short sequence*)
(* of characters, because the list shows it in columns and the code has to *)
(* take it apart again.  A path is the sequence of the names of its        *)
(* folders; the pattern behind it matches the files of Matching.           *)
(***************************************************************************)
EXTENDS Integers, FiniteSets, SequencesExt

CONSTANTS
    Clients,   \* the channels that can have a PD
    Segments,  \* far segments the system can give
    Files,     \* headers and contents of the files there are
    NONE,
    Disk,       \* the folders there are: from path to a set of entries
    Matching,   \* the names the pattern matches
    Rank,       \* the order of names by their characters
    Lines,      \* GEM_SYSTEM_FSEL_NAMES
    MaxFiles,   \* GEM_FORM_FSEL_MAX_FILES
    StemWidth,  \* columns of a name before its extension
    Track,      \* height of the slider, in pixels
    MinHeight,  \* least height of the elevator
    Presses     \* heights at which the slider is pressed

Tables == {"tree", "object", "text", "string"}
Bytes(t) == IF t \in {"object", "text"} THEN 2 ELSE 1
HeaderCells == 1

\* The owner of the AES's own GEM.RSC, and of the list of the file selector.
System == "system"
ListOwner == "selector"
Holders == Clients \cup {System, ListOwner}

Unloaded == [seg |-> NONE, loaded |-> FALSE, file |-> NONE, fixed |-> <<>>]

VARIABLES
    live,     \* the clients attached
    far,      \* who was given each segment
    lost,     \* segments no descriptor names any more
    res,      \* the descriptor of each client, and of the system
    tried     \* gem_system_resource_tried

resourceVars == <<live, far, lost, res, tried>>

ResourceInit ==
    /\ live = Clients
    /\ far = [s \in Segments |-> NONE]
    /\ lost = {}
    /\ res = [c \in Clients \cup {System} |-> Unloaded]
    /\ tried = FALSE

----------------------------------------------------------------------------
(* The checks of a file *)

Cells(f, t) == f.at[t] .. f.at[t] + f.n[t] * Bytes(t) - 1

\* gem_resource_make_span
SpanOk(f, t) ==
    /\ f.at[t] <= f.size
    /\ f.n[t] > 0 => f.at[t] >= HeaderCells
    /\ f.at[t] + f.n[t] * Bytes(t) <= f.size

\* gem_resource_spans_overlap
Overlap(f, t, u) ==
    /\ f.n[t] > 0 /\ f.n[u] > 0
    /\ f.at[t] < f.at[u] + f.n[u] * Bytes(u)
    /\ f.at[u] < f.at[t] + f.n[t] * Bytes(t)

\* gem_resource_validate_header
HeaderOk(f) ==
    /\ f.size >= HeaderCells
    /\ f.n["tree"] > 0 => f.n["object"] > 0
    /\ \A t \in Tables : SpanOk(f, t)
    /\ \A t, u \in Tables : t # u => ~Overlap(f, t, u)

\* gem_resource_validate_nested: links inside the tree, pointers into the
\* right table, strings with an end, bitmaps inside the file.
NestedOk(f) == f.bad = {}

\* gem_resource_relocate: table by table, record by record.
Relocated(f) ==
    [cell \in 0 .. f.size - 1 |-> Cardinality({t \in Tables : cell \in Cells(f, t)})]

----------------------------------------------------------------------------
(* Far segments *)

\* gem_far_resource_alloc: the old value of the descriptor is overwritten.
Given(s, who) == far[s] = NONE /\ far' = [far EXCEPT ![s] = who]

\* gem_far_resource_free
Returned(s) == IF s = NONE THEN UNCHANGED far ELSE far' = [far EXCEPT ![s] = NONE]

----------------------------------------------------------------------------
(* Operations *)

\* gem_resource_resident_load, up to the allocation: nothing has changed.
LoadRefused(f) == ~HeaderOk(f) \/ f.short = "header"
Loadable == {f \in Files : ~LoadRefused(f)}

\* After it: "fail" gives the segment back and clears the descriptor.
LoadFails(c, f) ==
    /\ (f.short = "rest" \/ ~NestedOk(f))
    /\ res[c] = Unloaded
    /\ UNCHANGED <<far, res>>

\* Checked as a whole, then relocated, then marked as loaded.
LoadDone(c, f) ==
    /\ f.short = "no" /\ NestedOk(f)
    /\ res[c] = Unloaded
    /\ \E s \in Segments :
         /\ Given(s, c)
         /\ res' = [res EXCEPT ![c] = [seg |-> s, loaded |-> TRUE, file |-> f,
                                       fixed |-> Relocated(f)]]

RsrcLoad(c) ==
    /\ c \in live
    /\ res[c] = Unloaded
    /\ \E f \in Loadable : LoadDone(c, f) \/ LoadFails(c, f)
    /\ UNCHANGED <<live, lost, tried>>

\* gem_resource_resident_free
RsrcFree(c) ==
    /\ c \in live /\ res[c].loaded
    /\ Returned(res[c].seg)
    /\ res' = [res EXCEPT ![c] = Unloaded]
    /\ UNCHANGED <<live, lost, tried>>

\* gem_rsc_address: the trees, strings and images are answered by what their
\* slot holds, everything else by the slot.
Address(r, t, i) ==
    IF ~r.loaded \/ i >= r.file.n[t] THEN NONE
    ELSE IF t \in {"tree", "string"} THEN [seg |-> r.seg, of |-> "stored"]
    ELSE [seg |-> r.seg, of |-> r.file.at[t] + i * Bytes(t)]

\* gem_resource_resident_obfix: the client's own business, as often as it
\* likes; the positions of a tree in the resource are already pixels.
RsrcObfix(c, i) ==
    /\ c \in live /\ Address(res[c], "object", i) # NONE
    /\ LET cell == Address(res[c], "object", i).of + 1
       IN  res' = [res EXCEPT ![c].fixed[cell] = 2]
    /\ UNCHANGED <<live, far, lost, tried>>

\* gem_system_resource_load: once, and not again after a failure.
SystemLoad ==
    /\ ~res[System].loaded /\ ~tried
    /\ tried' = TRUE
    /\ \/ \E f \in Loadable : LoadDone(System, f) \/ LoadFails(System, f)
       \/ UNCHANGED <<far, res>>
    /\ UNCHANGED <<live, lost>>

\* gem_system_resource_free
SystemFree ==
    /\ tried
    /\ Returned(res[System].seg)
    /\ res' = [res EXCEPT ![System] = Unloaded]
    /\ tried' = FALSE
    /\ UNCHANGED <<live, lost>>

\* The client is detached (gem_resource_resident_cleanup), or comes back.
ResourceExit(c) ==
    /\ c \in live
    /\ live' = live \ {c}
    /\ Returned(res[c].seg)
    /\ res' = [res EXCEPT ![c] = Unloaded]
    /\ UNCHANGED <<lost, tried>>

ResourceAttach(c) ==
    /\ c \notin live
    /\ live' = live \cup {c}
    /\ UNCHANGED <<far, lost, res, tried>>

----------------------------------------------------------------------------
(* The file selector: its state *)

\* An entry of a directory or of the list.
Entry(kind, name) == [kind |-> kind, name |-> name]

VARIABLES
    active,    \* gem_form_fsel_active
    storage,   \* gem_form_fsel_storage
    asking,    \* the client whose form runs the selector
    answer,    \* the exit it ended with, or NONE
    path,      \* folders of gem_form_fsel_path
    list,      \* the names read, sorted
    top,       \* entries scrolled off
    selection, \* the line that is marked, or 0
    shown,     \* what the lines of the box show
    marked,    \* the lines drawn as selected
    elevator,  \* its position and height in the slider
    name       \* text of the field for the name

selectorVars == <<active, storage, asking, answer, path, list, top, selection,
                  shown, marked, elevator, name>>

SelectorInit ==
    /\ active = FALSE /\ storage = NONE /\ asking = NONE /\ answer = NONE
    /\ path = <<>> /\ list = <<>> /\ top = 0 /\ selection = 0
    /\ shown = <<>> /\ marked = {} /\ elevator = [y |-> 0, h |-> Track]
    /\ name = <<>>

----------------------------------------------------------------------------
(* Names *)

Dot == "."
Space == " "
Before(n) == SelectInSeq(n, LAMBDA c : c = Dot)

\* gem_form_fsel_format_name: the stem is filled up with spaces, if an
\* extension follows.
FormatName(n) ==
    IF Before(n) = 0 THEN n
    ELSE LET stem == SubSeq(n, 1, Before(n) - 1)
         IN  stem \o [i \in 1 .. StemWidth - Len(stem) |-> Space]
             \o SubSeq(n, Before(n) + 1, Len(n))

\* gem_form_fsel_unformat_name: what is beyond the columns of the stem is
\* taken for the extension.
UnformatName(t) ==
    LET stem == SelectSeq(SubSeq(t, 1, IF Len(t) < StemWidth THEN Len(t) ELSE StemWidth),
                          LAMBDA c : c # Space)
    IN  IF Len(t) <= StemWidth THEN stem
        ELSE stem \o <<Dot>> \o SubSeq(t, StemWidth + 1, Len(t))

----------------------------------------------------------------------------
(* Reading a directory *)

\* gem_form_fsel_compare: the first byte of an entry is its kind.
After(a, b) ==
    IF a.kind # b.kind THEN a.kind = "file" ELSE Rank[a.name] > Rank[b.name]

\* The shell sort of gem_form_fsel_read: for each gap, each entry is moved
\* towards the front by whole gaps while it is before the one it meets.
Sorted(entries) ==
    LET count == Len(entries)
        sink[inner \in Int, gap \in Nat, s \in Seq(ToSet(entries))] ==
            IF inner < 1 \/ ~After(s[inner], s[inner + gap]) THEN s
            ELSE sink[inner - gap, gap,
                      [s EXCEPT ![inner] = s[inner + gap], ![inner + gap] = s[inner]]]
        pass[outer \in Nat, gap \in Nat, s \in Seq(ToSet(entries))] ==
            IF outer > count THEN s
            ELSE pass[outer + 1, gap, sink[outer - gap, gap, s]]
        sort[gap \in Nat, s \in Seq(ToSet(entries))] ==
            IF gap = 0 THEN s ELSE sort[gap \div 2, pass[gap + 1, gap, s]]
    IN  sort[count \div 2, entries]

\* What is listed of a directory: its folders and the files that match.
Listed(p) ==
    IF p \notin DOMAIN Disk THEN {}
    ELSE {e \in Disk[p] : e.kind = "folder" \/ e.name \in Matching}

\* gem_form_fsel_read: in the order of the disk, until the list is full.
Listings ==
    [p \in DOMAIN Disk |->
        {Sorted(SubSeq(order, 1, IF Len(order) < MaxFiles THEN Len(order) ELSE MaxFiles)) :
             order \in SetToSeqs(Listed(p))}]

Read(p) ==
    /\ list' \in IF p \in DOMAIN Disk THEN Listings[p] ELSE {<<>>}
    /\ path' = p
    /\ selection' = 0

----------------------------------------------------------------------------
(* The box *)

\* gem_form_fsel_format: the lines are set from the list and none of them is
\* marked, and the elevator is placed.
Format(t, l) ==
    /\ top' = t
    /\ shown' = [i \in 1 .. Lines |->
                   IF t + i <= Len(l)
                   THEN [kind |-> l[t + i].kind, text |-> FormatName(l[t + i].name)]
                   ELSE NONE]
    /\ marked' = {}
    /\ LET part == (Lines * Track) \div Len(l)
           height == IF part < MinHeight THEN MinHeight ELSE part
       IN  elevator' = IF Len(l) <= Lines THEN [y |-> 0, h |-> Track]
                       ELSE [y |-> (t * (Track - height)) \div (Len(l) - Lines),
                             h |-> height]

\* gem_form_fsel_newdir
NewDirectory(p) == Read(p) /\ Format(0, list')

\* Mutant: the list is scrolled one line past its end.
ScrolledPast(t, up) ==
    LET step == IF up THEN t - 1 ELSE t + 1
    IN  IF Len(list) <= Lines \/ step < 0 THEN t ELSE step

\* gem_form_fsel_scroll_one
ScrolledOne(t, up) ==
    LET step == IF up THEN t - 1 ELSE t + 1
        kept == IF step < 0 THEN step + 1 ELSE step
    IN  IF Len(list) <= Lines THEN t
        ELSE IF Len(list) - kept < Lines THEN kept - 1 ELSE kept

\* By that many lines; what was marked is let go.
Scroll(up, by) ==
    LET scrolled[n \in 0 .. by] == IF n = 0 THEN top ELSE ScrolledOne(scrolled[n - 1], up)
    IN  /\ IF scrolled[by] = top
           THEN UNCHANGED <<top, shown, marked, elevator, selection>>
           ELSE Format(scrolled[by], list) /\ selection' = 0
        /\ UNCHANGED <<path, list, name>>

----------------------------------------------------------------------------
(* Its life *)

\* gem_form_begin_fsel.  The descriptor of the list is overwritten by the
\* new segment, whatever it named before.
FselInput(c, p) ==
    /\ c \in live /\ asking # c
    /\ ~active /\ res[System].loaded
    /\ \E s \in Segments : Given(s, ListOwner) /\ storage' = s
    /\ lost' = IF storage = NONE THEN lost ELSE lost \cup {storage}
    /\ active' = TRUE /\ asking' = c /\ answer' = NONE
    /\ name' = <<>>
    /\ NewDirectory(p)
    /\ UNCHANGED <<live, res, tried>>

\* A pass that does not end the selector arms its form again.
Pass ==
    /\ asking \in live /\ answer = NONE
    /\ UNCHANGED <<resourceVars, active, storage, asking, answer>>

Arrow(up) == Pass /\ Scroll(up, 1)

\* The height of the mouse on the screen is compared with the place of the
\* elevator in its slider.
Slider(y) == Pass /\ Scroll(y <= elevator.y, Lines)

\* FTITLE reads the directory again, FCLSBOX goes one folder up.
Title == Pass /\ NewDirectory(path) /\ UNCHANGED name

Closer ==
    /\ Pass
    /\ NewDirectory(IF path = <<>> THEN path ELSE Front(path))
    /\ UNCHANGED name

\* A line: the name is taken back from what the line shows.
Line(i) ==
    /\ Pass
    /\ top + i <= Len(list)
    /\ LET plain == UnformatName(shown[i].text)
       IN  IF shown[i].kind = "file"
           THEN /\ selection' = i
                /\ marked' = (marked \ {selection}) \cup {i}
                /\ name' = plain
                /\ UNCHANGED <<path, list, top, shown, elevator>>
           ELSE /\ NewDirectory(Append(path, plain))
                /\ UNCHANGED name

\* OK or Cancel settles the form.
Exit(object) ==
    /\ asking \in live /\ answer = NONE
    /\ answer' = object
    /\ UNCHANGED <<resourceVars, active, storage, asking, path, list, top, selection,
                   shown, marked, elevator, name>>

\* gem_form_resident_service: gem_form_fsel_release leaves the segment.
Complete ==
    /\ answer # NONE
    /\ active' = FALSE /\ asking' = NONE /\ answer' = NONE
    /\ UNCHANGED <<resourceVars, storage, path, list, top, selection, shown, marked,
                   elevator, name>>

\* gem_form_resident_detach clears the form and does not know the selector.
Die(c) ==
    /\ ResourceExit(c)
    /\ IF asking = c THEN asking' = NONE /\ answer' = NONE
       ELSE UNCHANGED <<asking, answer>>
    /\ UNCHANGED <<active, storage, path, list, top, selection, shown, marked,
                   elevator, name>>

SelectorNext ==
    \/ \E c \in Clients :
         \/ \E p \in DOMAIN Disk : FselInput(c, p)
         \/ Die(c)
         \/ (RsrcLoad(c) \/ RsrcFree(c) \/ ResourceAttach(c)) /\ UNCHANGED selectorVars
         \/ \E i \in 0 .. 1 : RsrcObfix(c, i) /\ UNCHANGED selectorVars
    \/ (SystemLoad \/ SystemFree) /\ ~active /\ UNCHANGED selectorVars
    \/ \E up \in BOOLEAN : Arrow(up)
    \/ \E y \in Presses : Slider(y)
    \/ Title
    \/ Closer
    \/ \E i \in 1 .. Lines : Line(i)
    \/ \E object \in {"FSOK", "FSCANCEL"} : Exit(object)
    \/ Complete

vars == <<resourceVars, selectorVars>>
SelectorSpec == SelectorInit /\ ResourceInit /\ [][SelectorNext]_vars

----------------------------------------------------------------------------
(* Properties *)

\* gem_resource_resident_load: a resource that is loaded has had every cell
\* of its tables relocated once and no other cell; only the positions of the
\* objects may be fixed again, by RSRC_OBFIX.
RelocatedOnce ==
    \A c \in Clients \cup {System} : res[c].loaded =>
        LET f == res[c].file
        IN  \A cell \in 0 .. f.size - 1 :
                LET position == \E i \in 0 .. f.n["object"] - 1 :
                                   cell = f.at["object"] + 2 * i + 1
                    inTable == \E t \in Tables : cell \in Cells(f, t)
                IN  res[c].fixed[cell] \in
                        IF position THEN {1, 2} ELSE IF inTable THEN {1} ELSE {0}

\* gem_far_resource_alloc, gem_far_resource_free: every segment that was
\* given is named by just one descriptor, that of its owner.  The exception
\* is the list of the file selector, which is not given back when it answers
\* and is forgotten when the next one opens.
SegmentsAreAccountedFor ==
    \A s \in Segments :
        LET names == {c \in Clients \cup {System} : res[c].seg = s}
        IN  IF far[s] = ListOwner THEN names = {} /\ (storage = s <=> s \notin lost)
            ELSE names = IF far[s] = NONE THEN {} ELSE {far[s]}

\* gem_form_fsel_read, gem_form_fsel_format: the list is the directory,
\* folders first and by name, the lines show the part of it that is scrolled
\* to, and what is marked is the selection.
BoxShowsTheDirectory ==
    asking # NONE =>
        /\ ToSet(list) \subseteq Listed(path)
        /\ Len(list) = IF Cardinality(Listed(path)) < MaxFiles
                       THEN Cardinality(Listed(path)) ELSE MaxFiles
        /\ \A i, j \in DOMAIN list : i < j =>
             \/ list[i].kind = "folder" /\ list[j].kind = "file"
             \/ list[i].kind = list[j].kind /\ Rank[list[i].name] < Rank[list[j].name]
        /\ top \in 0 .. IF Len(list) > Lines THEN Len(list) - Lines ELSE 0
        /\ \A i \in 1 .. Lines :
             shown[i] = IF i > Len(list) THEN NONE
                        ELSE [kind |-> list[top + i].kind,
                              text |-> FormatName(list[top + i].name)]
        /\ marked = {selection} \ {0}
        /\ elevator.y >= 0 /\ elevator.y + elevator.h <= Track

\* gem_form_fsel_active: the one selector is taken by the client that asks,
\* or by one that died over it; nobody gives it back then.
OneSelector ==
    /\ asking # NONE => active /\ asking \in live
    /\ answer # NONE => asking # NONE
    /\ active => storage # NONE /\ far[storage] = ListOwner

\* The two of them together.
SelectorSafety == BoxShowsTheDirectory /\ OneSelector

\* The descriptors of resources, with what is loaded through them.
ResourcesAreWhole == RelocatedOnce /\ SegmentsAreAccountedFor
=============================================================================
