------------------------------ MODULE GemDesk ------------------------------
(* The Desktop: its folder windows, and the copying and deleting of what is  *)
(* selected in them.  Every file operation goes through the few GEMDOS calls *)
(* that gemdos_posix.c makes of the system's; a walk through a folder keeps  *)
(* one directory search per level, each found by the address of its transfer *)
(* area (DTA), of which there is one more than there are search slots.       *)
(*                                                                           *)
(* The Desktop is one program that waits for its own dialogs, so its steps   *)
(* follow one another; what varies is what the user selects, where it is     *)
(* dropped, what the dialogs are answered, and which calls of the system     *)
(* fail.  A path is a sequence of names, the root the empty one; a file is   *)
(* what it holds.  Nobody else changes the file system meanwhile, no name    *)
(* and no path is longer than its buffer, and a drag of nothing, an alert    *)
(* that changes nothing and the running of programs are left out.            *)
EXTENDS Integers, Sequences, FiniteSets, SequencesExt

CONSTANTS
    NameOrder,      \* the names, as strcmp orders them
    ReadOrder,      \* the names, as readdir happens to give them
    Hidden,         \* those that begin with a dot
    Star,           \* the name "*"
    Levels,         \* MAX_LEVEL
    SearchSlots,    \* GEM_MAX_SEARCHES
    FileNodes,      \* NUM_FNODES
    Panes,          \* the window nodes, 1..NUM_WNODES
    Trees,          \* the file systems to begin with
    Typed,          \* what is typed into a dialog; NONE for nothing
    Preferences,    \* the settings for dialogs: [progress, overwrite]
    MaxFaults,      \* bound: calls of the system that fail
    MaxOrders,      \* bound: copies and deletions
    MaxFolders,     \* bound: new folders
    MaxDepth,       \* bound: names in a path
    NONE

VARIABLES
    fs,     \* path -> "dir", or what the file holds
    dos,    \* the search slots, handles never closed, failed calls, whether
            \* something has failed or been stopped
    desk,   \* the windows, free FNODEs, settings, orders given, folders made
    job     \* the copy or deletion under way, or the last one

deskVars == <<fs, dos, desk, job>>

FileNames == Range(NameOrder)
Folder == "dir"
Cut == "cut"                        \* a file emptied, or copied in part
IsFolder(f, p) == p \in DOMAIN f /\ f[p] = Folder
Below(p, q) == IsPrefix(p, q)
Overlap(p, q) == IsPrefix(p, q) \/ IsPrefix(q, p)
Put(f, p, what) == [q \in DOMAIN f \cup {p} |-> IF q = p THEN what ELSE f[q]]
Drop(f, p) == [q \in DOMAIN f \ {p} |-> f[q]]

----------------------------------------------------------------------------
(* GEMDOS calls on paths: the new file system and the error, "" for none *)

\* What the system says of a path that is not there.
Missing(f, p) ==
    IF \E q \in DOMAIN f : q # p /\ IsPrefix(q, p) /\ f[q] # Folder
    THEN "path" ELSE "notfound"

Mkdir(f, p) ==
    IF p \in DOMAIN f THEN [fs |-> f, err |-> "noaccess"]
    ELSE IF ~IsFolder(f, Front(p)) THEN [fs |-> f, err |-> Missing(f, p)]
    ELSE [fs |-> Put(f, p, Folder), err |-> ""]

Rmdir(f, p) ==
    IF p \notin DOMAIN f THEN [fs |-> f, err |-> Missing(f, p)]
    ELSE IF f[p] # Folder THEN [fs |-> f, err |-> "path"]
    ELSE IF \E q \in DOMAIN f : q # p /\ IsPrefix(p, q)
    THEN [fs |-> f, err |-> "noaccess"]
    ELSE [fs |-> Drop(f, p), err |-> ""]

Unlink(f, p) ==
    IF p \notin DOMAIN f THEN [fs |-> f, err |-> Missing(f, p)]
    ELSE IF f[p] = Folder THEN [fs |-> f, err |-> "noaccess"]
    ELSE [fs |-> Drop(f, p), err |-> ""]

\* A file that is there is emptied; a hidden one must keep a hidden name.
Create(f, p, hidden) ==
    IF hidden /\ Last(p) \notin Hidden THEN [fs |-> f, err |-> "noaccess"]
    ELSE IF IsFolder(f, p) THEN [fs |-> f, err |-> "noaccess"]
    ELSE IF p \notin DOMAIN f /\ ~IsFolder(f, Front(p))
    THEN [fs |-> f, err |-> Missing(f, p)]
    ELSE [fs |-> Put(f, p, Cut), err |-> ""]

\* The call as it goes, and as it fails while calls may.
Outcomes(result) ==
    {[fs |-> result.fs, err |-> result.err, fault |-> 0]}
    \cup IF dos.faults < MaxFaults
         THEN {[fs |-> fs, err |-> e, fault |-> 1] : e \in {"noaccess", "system"}} ELSE {}

----------------------------------------------------------------------------
(* GEMDOS searches: one for the windows, one for each level of a walk *)

Window == -1
Areas == {Window} \cup 0..Levels - 1

InUse(slots) == {a \in Areas : slots[a] # NONE}

\* Names not read yet; the windows' search passes hidden ones over.
Unread(f, a, s) ==
    {i \in s.at + 1..Len(ReadOrder) :
        /\ Append(s.dir, ReadOrder[i]) \in DOMAIN f
        /\ ~(a = Window /\ ReadOrder[i] \in Hidden)}

\* dos_snext: without a slot there are no more files; at the end it is given up.
Further(f, slots, a) ==
    IF slots[a] = NONE \/ Unread(f, a, slots[a]) = {}
    THEN [slots |-> [slots EXCEPT ![a] = NONE], err |-> "nofiles", entry |-> NONE]
    ELSE LET i == CHOOSE k \in Unread(f, a, slots[a]) :
                      \A l \in Unread(f, a, slots[a]) : k <= l
             path == Append(slots[a].dir, ReadOrder[i])
         IN  [slots |-> [slots EXCEPT ![a].at = i], err |-> "",
              entry |-> [name |-> ReadOrder[i], dir |-> f[path] = Folder]]

\* dos_sfirst: the slot the area has already, or a free one.
Search(f, slots, a, dir) ==
    IF slots[a] = NONE /\ Cardinality(InUse(slots)) >= SearchSlots
    THEN [slots |-> slots, err |-> "nohandles", entry |-> NONE]
    ELSE IF ~IsFolder(f, dir)
    THEN [slots |-> [slots EXCEPT ![a] = NONE], entry |-> NONE,
          err |-> IF dir \in DOMAIN f THEN "path" ELSE Missing(f, dir)]
    ELSE Further(f, [slots EXCEPT ![a] = [dir |-> dir, at |-> 0]], a)

----------------------------------------------------------------------------
(* The list of a folder *)

Rank(n) == CHOOSE i \in 1..Len(NameOrder) : NameOrder[i] = n
Precedes(e, f) ==
    IF e.dir # f.dir THEN e.dir ELSE Rank(e.name) <= Rank(f.name)

\* One place of the inner loop of the Shell sort: sink from j in steps of gap.
RECURSIVE Sink(_, _, _)
Sink(s, j, gap) ==
    IF j < 1 \/ Precedes(s[j], s[j + gap]) THEN s
    ELSE Sink([s EXCEPT ![j] = s[j + gap], ![j + gap] = s[j]], j - gap, gap)

RECURSIVE Gapped(_, _, _)
Gapped(s, i, gap) ==
    IF i > Len(s) THEN s ELSE Gapped(Sink(s, i - gap, gap), i + 1, gap)

RECURSIVE ShellSort(_, _)
ShellSort(s, gap) ==
    IF gap = 0 THEN s ELSE ShellSort(Gapped(s, gap + 1, gap), gap \div 2)

pn_sort(s) == ShellSort(s, Len(s) \div 2)

\* pn_active: read a folder into as many FNODEs as there are.  When they run
\* out the search is left where it is.
Listing(f, slots, free, dir) ==
    LET first == Search(f, slots, Window, dir)
        there == SelectSeq(ReadOrder, LAMBDA n :
                     Append(dir, n) \in DOMAIN f /\ n \notin Hidden)
        room == IF free < FileNodes - 1 THEN free ELSE FileNodes - 1
        kept == IF Len(there) <= room THEN there ELSE SubSeq(there, 1, room)
        list == [i \in 1..Len(kept) |->
                    [name |-> kept[i], dir |-> f[Append(dir, kept[i])] = Folder]]
    IN  IF first.err \notin {"", "nofiles"}
        THEN [slots |-> first.slots, list |-> <<>>, err |-> first.err]
        ELSE IF Len(there) <= room
        THEN [slots |-> [slots EXCEPT ![Window] = NONE],
              list |-> pn_sort(list), err |-> "nofiles"]
        ELSE [slots |-> [slots EXCEPT ![Window] =
                  [dir |-> dir,
                   at |-> CHOOSE i \in 1..Len(ReadOrder) :
                              ReadOrder[i] = there[room + 1]]],
              list |-> pn_sort(list), err |-> "nofnodes"]

----------------------------------------------------------------------------
(* The windows: operations on [dos, desk] for the file system f *)

Open(d) == {w \in Panes : d.panes[w].open}

\* do_diropen: the new list is read while the old one is held, and takes its
\* place when the folder could be read to its end.
Diropen(f, S, w, dir) ==
    LET got == Listing(f, S.dos.slots, S.desk.free, dir)
        old == Len(S.desk.panes[w].list)
    IN  IF got.err = "nofiles"
        THEN [dos |-> [S.dos EXCEPT !.slots = got.slots],
              desk |-> [S.desk EXCEPT
                  !.panes[w] = [open |-> TRUE, path |-> dir, list |-> got.list],
                  !.free = @ + old - Len(got.list)]]
        ELSE [S EXCEPT !.dos.slots = got.slots, !.dos.stopped = TRUE]

\* do_fopen: the window turns to a folder that can be changed to.  A path
\* through a file leads the check of all windows to the root.
Fopen(f, S, w, dir, chkall) ==
    IF IsFolder(f, dir) THEN Diropen(f, S, w, dir)
    ELSE IF (dir \in DOMAIN f \/ Missing(f, dir) = "path") /\ chkall
    THEN Diropen(f, S, w, <<>>)
    ELSE S

\* do_chkall, and fun_rebld for the windows that show the folder of another.
EachPane(S, Step(_, _)) == FoldLeft(Step, S, [w \in 1..Cardinality(Panes) |-> w])

do_chkall(f, S) ==
    EachPane(S, LAMBDA T, w :
        IF T.desk.panes[w].open THEN Fopen(f, T, w, T.desk.panes[w].path, TRUE) ELSE T)

\* The list is freed before the folder is read, and what was read is kept
\* whatever became of the reading.
fun_rebld(f, S, dir) ==
    EachPane(S, LAMBDA T, w :
        IF ~T.desk.panes[w].open \/ T.desk.panes[w].path # dir THEN T
        ELSE LET had == T.desk.free + Len(T.desk.panes[w].list)
                 got == Listing(f, T.dos.slots, had, dir)
             IN  [dos |-> [T.dos EXCEPT !.slots = got.slots],
                  desk |-> [T.desk EXCEPT !.panes[w].list = got.list,
                                          !.free = had - Len(got.list)]])

State == [dos |-> dos, desk |-> desk]
Becomes(S) == dos' = S.dos /\ desk' = S.desk

Idle == job.at = "none"
MayOrder == Idle /\ desk.orders < MaxOrders
\* What the Desktop makes of paths through a folder called "*" is left out.
NoStar == \A p \in DOMAIN fs : Star \notin Range(p)

OpenRoot(w) ==                                              \* do_dopen
    /\ Idle /\ ~desk.panes[w].open
    /\ Becomes(Diropen(fs, State, w, <<>>))
    /\ UNCHANGED <<fs, job>>

OpenFolder(w, e) ==                                         \* do_open
    /\ Idle /\ desk.panes[w].open /\ e.dir /\ e.name # Star
    /\ Becomes(Fopen(fs, State, w, Append(desk.panes[w].path, e.name), FALSE))
    /\ UNCHANGED <<fs, job>>

\* The parent's folder; the root is only read again.
CloseFolder(w) ==                                           \* fun_close
    /\ Idle /\ desk.panes[w].open
    /\ \E p \in {desk.panes[w].path} :
          Becomes(Fopen(fs, State, w, IF p = <<>> THEN p ELSE Front(p), FALSE))
    /\ UNCHANGED <<fs, job>>

CloseWindow(w) ==                                           \* true_closewnd
    /\ Idle /\ desk.panes[w].open
    /\ Becomes(do_chkall(fs,
          [State EXCEPT !.desk.panes[w].open = FALSE, !.desk.panes[w].list = <<>>,
                        !.desk.free = @ + Len(desk.panes[w].list)]))
    /\ UNCHANGED <<fs, job>>

CheckAll == Idle /\ Becomes(do_chkall(fs, State)) /\ UNCHANGED <<fs, job>>

NewFolder(w, name) ==                                       \* fun_mkdir
    /\ Idle /\ desk.panes[w].open /\ desk.made < MaxFolders
    /\ \E p \in {desk.panes[w].path} :
          /\ Len(p) + 1 <= Levels /\ Len(p) < MaxDepth
          /\ \E got \in {Mkdir(fs, Append(p, name))} :
                /\ got.err = ""
                /\ fs' = got.fs
                /\ Becomes(fun_rebld(fs', [State EXCEPT !.desk.made = @ + 1], p))
    /\ UNCHANGED job

----------------------------------------------------------------------------
(* A copy or a deletion: what is selected, then counted, then done *)

Settings == desk.settings
Item == Append(job.base, Head(job.todo).name)
More == job.todo # <<>> /\ job.more

Selections(list) ==
    {s \in {SelectSeq(list, LAMBDA e : e.name \in names) : names \in SUBSET FileNames} :
        s # <<>> /\ \A i \in 1..Len(s) : s[i].name # Star}

\* par_chk: no selected folder is copied into itself.
par_chk(base, sel, dst) ==
    \A i \in 1..Len(sel) : sel[i].dir => ~Below(Append(base, sel[i].name), dst)

\* A walk needs no deeper path than the bound.
Fits(base, sel, dst) ==
    \A p \in DOMAIN fs : Below(base, p) => Len(dst) + Len(p) - Len(base) <= MaxDepth

Order(goal, base, sel, dst, after, own, S) ==
    /\ NoStar /\ Fits(base, sel, dst)
    /\ goal = "copy" => par_chk(base, sel, dst)
    /\ job' = [at |-> "items", op |-> "count", goal |-> goal, base |-> base,
               sel |-> sel, todo |-> sel, dst |-> dst, after |-> after, own |-> own,
               files |-> 0, dirs |-> 0, shown |-> FALSE, more |-> TRUE, ok |-> FALSE,
               before |-> fs, handles |-> dos.handles, asked |-> FALSE,
               level |-> 0, src |-> <<>>, to |-> <<>>, err |-> "",
               area |-> [l \in 0..Levels - 1 |-> NONE]]
    /\ Becomes([S EXCEPT !.desk.orders = @ + 1])
    /\ UNCHANGED fs

\* What is read again when it went well.
After(what) == [what |-> what]
Rebuilt(w) == [what |-> "pane", pane |-> w]

\* Dropped in a window, on its open space or on one of its folders.  If that
\* folder is shown in one of the first two windows, both are rebuilt.
DragToWindow(w, v) ==                             \* fun_drag, fun_wdst
    /\ MayOrder /\ {w, v} \subseteq Open(desk)
    /\ \E sel \in Selections(desk.panes[w].list),
          spot \in {NONE} \cup {e \in Range(desk.panes[v].list) : e.dir /\ e.name # Star} :
        \E dst \in {IF spot = NONE THEN desk.panes[v].path
                    ELSE Append(desk.panes[v].path, spot.name)} :
            Order("copy", desk.panes[w].path, sel, dst,
                  IF spot # NONE /\ \E u \in Panes \cap {1, 2} : desk.panes[u].path = dst
                  THEN After("both") ELSE Rebuilt(v),
                  <<>>, State)

\* Dropped on the disk or the trash of the desktop.
DragToIcon(w, goal) ==                            \* fun_win2desk, fun_file2desk
    /\ MayOrder /\ w \in Open(desk)
    /\ \E sel \in Selections(desk.panes[w].list) :
          Order(goal, desk.panes[w].path, sel, <<>>, Rebuilt(w), <<>>, State)

DeleteSelected(w) ==                              \* fun_del
    /\ MayOrder /\ w \in Open(desk)
    /\ \E sel \in Selections(desk.panes[w].list) :
          Order("delete", desk.panes[w].path, sel, <<>>, After("all"), <<>>, State)

\* The disk dragged into a window or onto another disk: all of the root, by a
\* list of its own.
DragDisk(w) ==                                    \* fun_file2any
    /\ MayOrder /\ (w # NONE => w \in Open(desk))
    /\ \E got \in {Listing(fs, dos.slots, desk.free, <<>>)} :
        \E S \in {[State EXCEPT !.dos.slots = got.slots]} :
          \/ /\ got.err = "nofiles" /\ got.list # <<>>
             /\ Order("copy", <<>>, got.list, IF w = NONE THEN <<>> ELSE desk.panes[w].path,
                      IF w = NONE THEN After("none") ELSE Rebuilt(w), got.list,
                      [S EXCEPT !.desk.free = @ - Len(got.list)])
          \/ /\ got.err # "nofiles"
             /\ Becomes([S EXCEPT !.dos.stopped = TRUE])
             /\ UNCHANGED <<fs, job>>

\* The counters of the progress dialog.
Count(j, files, dirs) ==
    IF j.op = "count" THEN [j EXCEPT !.files = @ + files, !.dirs = @ + dirs]
    ELSE IF j.shown THEN [j EXCEPT !.files = @ - files, !.dirs = @ - dirs] ELSE j

\* What a call left: the file system, whether to go on, handles not closed,
\* whether the user was asked; an alert tells of the call that failed.
Did(f, more, leak, asked, fault) ==
    [fs |-> f, more |-> more, leak |-> leak, asked |-> asked, fault |-> fault]

Note(r) == [dos EXCEPT !.handles = @ + r.leak, !.faults = @ + r.fault,
                       !.stopped = @ \/ ~r.more]

Deleted(result) ==                                \* d_dofdel, and rmdir with d_errmsg
    {Did(r.fs, r.err = "", 0, FALSE, r.fault) : r \in Outcomes(result)}

\* The copying itself: from is open, to is created.  Emptying the source also
\* empties what is read from it.
Fill(from, to, hidden, asked) ==
    LET made == Create(fs, to, hidden)
        done == Put(made.fs, to, made.fs[from])
    IN  IF made.err # "" THEN {Did(fs, FALSE, 1, asked, 0)}
        ELSE IF fs[from] = Folder THEN {Did(made.fs, FALSE, 2, asked, 0)}
        ELSE {Did(done, TRUE, 0, asked, 0)}
             \cup IF dos.faults = MaxFaults THEN {}
                  ELSE {Did(fs, FALSE, 1, asked, 1),            \* no creating
                        Did(made.fs, FALSE, 2, asked, 1),       \* no reading or writing
                        Did(done, FALSE, 0, asked, 1)}          \* no dating
                       \cup IF made.fs[from] = Cut THEN {}
                            ELSE {Did(Drop(made.fs, to), FALSE, 0, asked, 1)}  \* no room

\* A file that is there already may be asked for: Stop, Cancel or no name leave
\* it alone, and the name typed is not looked up again.
d_dofcopy(from, to) ==
    LET hidden == Last(from) \in Hidden
        ask == to \in DOMAIN fs /\ (Settings.overwrite \/ from = to)
        typed == (Typed \ {NONE}) \cup IF from = to THEN {} ELSE {Last(to)}
        unopened == IF dos.faults < MaxFaults THEN {Did(fs, FALSE, 0, FALSE, 1)} ELSE {}
    IN  IF from \notin DOMAIN fs THEN {Did(fs, FALSE, 0, FALSE, 0)}
        ELSE unopened
             \cup IF to \notin DOMAIN fs /\ Missing(fs, to) = "path"
                  THEN {Did(fs, FALSE, 1, FALSE, 0)}
                  ELSE IF ~ask THEN Fill(from, to, hidden, FALSE)
                  ELSE {Did(fs, FALSE, 0, TRUE, 0), Did(fs, TRUE, 0, TRUE, 0)}
                       \cup UNION {Fill(from, Append(Front(to), t), hidden, TRUE) : t \in typed}

\* What begins an item: a file is dealt with, a folder is walked through.
TakeFile ==                                                 \* dir_op, dirop_file
    /\ job.at = "items" /\ More /\ ~Head(job.todo).dir
    /\ \E r \in CASE job.op = "count" -> {Did(fs, TRUE, 0, FALSE, 0)}
                  [] job.op = "delete" -> Deleted(Unlink(fs, Item))
                  [] job.op = "copy" -> d_dofcopy(Item, Append(job.dst, Last(Item))) :
          /\ fs' = r.fs
          /\ dos' = Note(r)
          /\ job' = Count([job EXCEPT !.todo = Tail(@), !.more = r.more,
                                      !.asked = @ \/ r.asked], 1, 0)
    /\ UNCHANGED desk

\* The search that begins a folder, which may not be opened.
Searches(f, D, a, dir) ==
    {[dos |-> [D EXCEPT !.slots = s.slots], err |-> s.err, entry |-> s.entry] :
        s \in {Search(f, D.slots, a, dir)}}
    \cup IF D.faults = MaxFaults THEN {}
         ELSE {[dos |-> [D EXCEPT !.slots[a] = NONE, !.faults = @ + 1],
                err |-> "system", entry |-> NONE]}

\* A folder that could not be made for want of access is taken to be there.
Taken(r, asked) == Did(r.fs, r.err \in {"", "noaccess"}, 0, asked, r.fault)

\* Where a folder goes: beside the others, unless the destination is called
\* like it.  Then a folder "*" is made there, and the walk copies into the
\* destination itself.
like_parent(name) == job.dst # <<>> /\ Last(job.dst) = name

\* The folder is made; one that is there is taken as it is, whatever it is,
\* but for the source itself, for which another name is asked.
Housed(name) ==
    LET walk == IF like_parent(name) THEN job.dst ELSE Append(job.dst, name)
        made == Mkdir(fs, IF like_parent(name) THEN Append(job.dst, Star) ELSE walk)
        Made(r, to, asked) == [did |-> Taken(r, asked), to |-> to]
    IN  IF made.err = "noaccess" /\ ~like_parent(name) /\ walk = Item
        THEN {[did |-> Did(fs, FALSE, 0, TRUE, 0), to |-> walk]}    \* Cancel, or no name
             \cup UNION {{Made(r, Append(job.dst, t), TRUE) :
                             r \in Outcomes(Mkdir(fs, Append(job.dst, t)))} :
                         t \in Typed \ {NONE, name}}
        ELSE {Made(r, walk, FALSE) : r \in Outcomes(made)}

TakeFolder ==                                               \* dir_op, d_doop
    /\ job.at = "items" /\ More /\ Head(job.todo).dir
    /\ \E h \in IF job.op = "copy" THEN Housed(Last(Item))
                ELSE {[did |-> Did(fs, TRUE, 0, FALSE, 0), to |-> <<>>]} :
        /\ fs' = h.did.fs
        /\ IF ~h.did.more
           THEN /\ dos' = Note(h.did)
                /\ job' = [job EXCEPT !.more = FALSE, !.asked = @ \/ h.did.asked]
           ELSE \E first \in Searches(h.did.fs, Note(h.did), 0, Item) :
                /\ dos' = first.dos
                /\ job' = [job EXCEPT !.at = "walk", !.level = 0, !.src = Item, !.to = h.to,
                                      !.asked = @ \/ h.did.asked,
                                      !.err = first.err, !.area[0] = first.entry]
    /\ UNCHANGED desk

----------------------------------------------------------------------------
(* d_doop: a step of the walk is a turn of its loop, and ends in dos_snext *)

\* Go on with the search of a level, in the file system f.
GoOn(f, D, j, l) ==
    \E next \in {Further(f, D.slots, l)} :
        /\ fs' = f
        /\ dos' = [D EXCEPT !.slots = next.slots]
        /\ job' = [j EXCEPT !.at = IF j.more THEN "walk" ELSE "items",
                            !.err = next.err, !.area[l] = next.entry]

Walking == job.at = "walk"
Entry == job.area[job.level]
At(path) == Append(path, Entry.name)
fold_wind(p) == \E w \in Open(desk) : desk.panes[w].path = p

WalkFile ==
    /\ Walking /\ job.err = "" /\ ~Entry.dir
    /\ \E r \in CASE job.op = "count" -> {Did(fs, TRUE, 0, FALSE, 0)}
                  [] job.op = "delete" -> Deleted(Unlink(fs, At(job.src)))
                  [] job.op = "copy" -> d_dofcopy(At(job.src), At(job.to)) :
          GoOn(r.fs, Note(r),
               Count([job EXCEPT !.more = r.more, !.asked = @ \/ r.asked], 1, 0), job.level)
    /\ UNCHANGED desk

\* The first entry of the folder is read, and then the turn ends as all do.
WalkDown ==
    /\ Walking /\ job.err = "" /\ Entry.dir
    /\ Entry.name \notin Hidden /\ job.level < Levels - 1
    /\ \E r \in IF job.op = "copy"
                THEN {Taken(r, FALSE) : r \in Outcomes(Mkdir(fs, At(job.to)))}
                ELSE {Did(fs, TRUE, 0, FALSE, 0)} :
        \E first \in IF r.more THEN Searches(r.fs, Note(r), job.level + 1, At(job.src))
                    ELSE {[dos |-> Note(r)]} :
          GoOn(r.fs, first.dos,
               [job EXCEPT !.level = @ + 1, !.src = At(@), !.more = r.more,
                           !.to = IF job.op = "copy" THEN At(@) ELSE @],
               job.level + 1)
    /\ UNCHANGED desk

WalkPast ==
    /\ Walking /\ job.err = "" /\ Entry.dir
    /\ Entry.name \in Hidden \/ job.level = Levels - 1
    /\ GoOn(fs, dos, job, job.level)
    /\ UNCHANGED desk

\* The end of a folder: in a deletion it goes too, unless a window shows it.
WalkUp ==
    /\ Walking /\ job.err \in {"nofiles", "notfound"}
    /\ \E r \in IF job.op # "delete" THEN {Did(fs, TRUE, 0, FALSE, 0)}
                ELSE IF fold_wind(job.src) THEN {Did(fs, FALSE, 0, FALSE, 0)}
                ELSE Deleted(Rmdir(fs, job.src)) :
          \E j \in {Count([job EXCEPT !.more = r.more], 0, 1)} :
              IF job.level = 0
              THEN /\ fs' = r.fs
                   /\ dos' = Note(r)
                   /\ job' = [j EXCEPT !.at = "items", !.todo = Tail(@)]
              ELSE GoOn(r.fs, Note(r),
                        [j EXCEPT !.level = @ - 1, !.src = Front(@),
                                  !.to = IF job.op = "copy" THEN Front(@) ELSE @],
                        job.level - 1)
    /\ UNCHANGED desk

WalkFails ==
    /\ Walking /\ job.err \notin {"", "nofiles", "notfound"}
    /\ job' = [job EXCEPT !.at = "items", !.more = FALSE]
    /\ dos' = [dos EXCEPT !.stopped = TRUE]
    /\ UNCHANGED <<fs, desk>>

----------------------------------------------------------------------------
(* fun_op: the end of the counting and of the doing *)

\* The list of the disk is given back, and what the operation may have changed
\* is read again, if it went well.  A closed window is rebuilt by whatever its
\* old path node says by now.
Settle(ok) ==
    \E S \in {[State EXCEPT !.desk.free = @ + Len(job.own), !.dos.stopped = @ \/ ~ok]} :
        /\ job' = [job EXCEPT !.at = "over", !.ok = ok, !.own = <<>>]
        /\ CASE ~ok \/ job.after.what = "none" -> Becomes(S)
             [] ok /\ job.after.what = "all" -> Becomes(do_chkall(fs, S))
             [] ok /\ job.after.what = "both" ->
                    \E q \in [Panes \cap {1, 2} -> {desk.panes[w].path : w \in Panes}] :
                        /\ \A w \in DOMAIN q : desk.panes[w].open => q[w] = desk.panes[w].path
                        /\ Becomes(FoldLeft(LAMBDA T, w : fun_rebld(fs, T, q[w]), S,
                                            SetToSeq(DOMAIN q)))
             [] ok /\ job.after.what = "pane" ->
                    Becomes(fun_rebld(fs, S, desk.panes[job.after.pane].path))
        /\ UNCHANGED fs

Counted ==
    /\ job.at = "items" /\ job.todo = <<>> /\ job.more /\ job.op = "count"
    /\ \/ /\ job' = [job EXCEPT !.op = job.goal, !.todo = job.sel,
                              !.shown = Settings.progress]
          /\ UNCHANGED <<fs, dos, desk>>
       \/ Settings.progress /\ Settle(FALSE)            \* Cancel

Finish ==
    /\ job.at = "items"
    /\ ~job.more \/ (job.todo = <<>> /\ job.op # "count")
    /\ Settle(job.more)

Rest ==
    /\ job.at = "over"
    /\ job' = [at |-> "none"]
    /\ UNCHANGED <<fs, dos, desk>>

----------------------------------------------------------------------------

DeskInit ==
    /\ fs \in Trees
    /\ dos = [slots |-> [a \in Areas |-> NONE], handles |-> 0, faults |-> 0,
              stopped |-> FALSE]
    /\ \E s \in Preferences :
          desk = [panes |-> [w \in Panes |-> [open |-> FALSE, path |-> <<>>, list |-> <<>>]],
                  free |-> FileNodes, settings |-> s, orders |-> 0, made |-> 0]
    /\ job = [at |-> "none"]

DeskNext ==
    \/ \E w \in Panes :
          \/ OpenRoot(w) \/ CloseFolder(w) \/ CloseWindow(w) \/ DeleteSelected(w)
          \/ \E e \in Range(desk.panes[w].list) : OpenFolder(w, e)
          \/ \E name \in Typed \ {NONE} : NewFolder(w, name)
          \/ \E v \in Panes : DragToWindow(w, v)
          \/ \E goal \in {"copy", "delete"} : DragToIcon(w, goal)
    \/ \E w \in Panes \cup {NONE} : DragDisk(w)
    \/ CheckAll \/ TakeFile \/ TakeFolder
    \/ WalkFile \/ WalkDown \/ WalkPast \/ WalkUp \/ WalkFails
    \/ Counted \/ Finish \/ Rest

----------------------------------------------------------------------------
(* What must not go wrong *)

\* The walk is where its paths say: every level's search reads the folder the
\* walk came through there, and the copies go to folders of the same names.
WalkInStep ==
    Walking =>
        /\ Below(Item, job.src) /\ Len(job.src) = Len(Item) + job.level
        /\ \A l \in 0..job.level :
              dos.slots[l] # NONE =>
                  dos.slots[l].dir = SubSeq(job.src, 1, Len(Item) + l)
        /\ job.op = "copy" =>
              \A l \in 0..job.level - 1 :
                  job.to[Len(job.to) - l] = job.src[Len(job.src) - l]

\* A deletion takes nothing but what is selected and what is in it, a copy
\* changes nothing but what is below its destination; the counting nothing.
OnlyTheSelection ==
    job.at # "none" =>
        \A p \in DOMAIN fs \cup DOMAIN job.before :
            \/ p \in DOMAIN fs \cap DOMAIN job.before /\ fs[p] = job.before[p]
            \/ /\ job.op # "count"
               /\ IF job.goal = "copy" THEN Below(job.dst, p) /\ p # job.dst
                  ELSE p \notin DOMAIN fs /\ \E i \in 1..Len(job.sel) :
                           Below(Append(job.base, job.sel[i].name), p)

\* A copy to somewhere else leaves what is copied as it was.
SourcesStay ==
    job.at # "none" /\ job.goal = "copy" /\ ~Below(job.dst, job.base) =>
        \A i \in 1..Len(job.sel), p \in DOMAIN job.before :
            Below(Append(job.base, job.sel[i].name), p) =>
                p \in DOMAIN fs /\ fs[p] = job.before[p]

\* A copy to somewhere else for which no name was asked; one of several items
\* is not a folder called like the destination, which the others would meet.
Plain ==
    /\ ~job.asked /\ ~Below(job.dst, job.base)
    /\ Len(job.sel) > 1 =>
          \A i \in 1..Len(job.sel) : ~(job.sel[i].dir /\ like_parent(job.sel[i].name))

\* An operation that went well has done what it was for: a deletion has left
\* nothing of the selection; a plain copy has copied each selected file and
\* each file in a selected folder; the dialog is at zero, unless a folder could
\* not be read and was counted as empty; every file is closed.
DoneWhenItSaysSo ==
    job.at = "over" /\ job.ok =>
        /\ dos.handles = job.handles
        /\ job.goal = "delete" =>
              \A i \in 1..Len(job.sel), p \in DOMAIN fs :
                  ~Below(Append(job.base, job.sel[i].name), p)
        /\ job.shown /\ dos.faults = 0 /\ (job.goal = "copy" => Plain) =>
              job.files = 0 /\ job.dirs = 0
        /\ job.goal = "copy" /\ Plain =>
              \A i \in 1..Len(job.sel) :
                  LET item == Append(job.base, job.sel[i].name)
                      copy == IF like_parent(Last(item)) /\ job.sel[i].dir THEN job.dst
                              ELSE Append(job.dst, Last(item))
                  IN  IF ~job.sel[i].dir
                      THEN copy \in DOMAIN fs /\ fs[copy] = job.before[item]
                      ELSE \A p \in DOMAIN job.before :
                               p # item /\ Front(p) = item /\ job.before[p] # Folder =>
                                   /\ Append(copy, Last(p)) \in DOMAIN fs
                                   /\ fs[Append(copy, Last(p))] = job.before[p]

\* A window shows a folder there is, its list in order; every FNODE is free or
\* in one list; and until something fails, a search is given up and a file
\* closed by the end of what used it.
WindowsAreSound ==
    /\ \A w \in Open(desk) :
          /\ IsFolder(fs, desk.panes[w].path)
          /\ \A i \in 2..Len(desk.panes[w].list) :
                Precedes(desk.panes[w].list[i - 1], desk.panes[w].list[i])
    /\ desk.free >= 0
    /\ desk.free + FoldLeft(LAMBDA n, w : n + Len(desk.panes[w].list), 0, SetToSeq(Panes))
         + (IF job.at = "none" THEN 0 ELSE Len(job.own)) = FileNodes
    /\ Idle /\ ~dos.stopped =>
          dos.handles = 0 /\ InUse(dos.slots) \subseteq {Window}

\* dir_op, d_doop, fun_op, do_diropen, fun_rebld: copying and deleting keep to
\* the selection and do what they report, and the windows follow.
DeskSafety ==
    /\ WalkInStep
    /\ OnlyTheSelection
    /\ SourcesStay
    /\ DoneWhenItSaysSo
    /\ WindowsAreSound

\* deskdir.c: "Directory routine to DO an operation on an entire
\* sub-directory."  A copy that went well has copied every file in the selected
\* folders that its levels reach.
WholeFolderIsDone ==
    job.at = "over" /\ job.ok /\ job.goal = "copy" /\ Plain =>
        \A i \in 1..Len(job.sel), p \in DOMAIN job.before :
            LET item == Append(job.base, job.sel[i].name)
            IN  /\ Below(item, p) /\ job.before[p] # Folder
                /\ Len(p) - Len(item) <= Levels
                /\ Range(p) \cap Hidden = {}
                /\ ~like_parent(Last(item))
                => job.dst \o SubSeq(p, Len(item), Len(p)) \in DOMAIN fs
=============================================================================
