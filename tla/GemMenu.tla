------------------------------- MODULE GemMenu -------------------------------
(***************************************************************************)
(* The pull-down menus of the resident AES (gem_menu_pull_resident.c) and  *)
(* the drawing of what they leave to draw (gem_menu_core.c).               *)
(*                                                                         *)
(* There is one menu bar, of one client, shown from the client's own       *)
(* object tree.  Samples of the mouse and the keyboard step the manager;   *)
(* it writes the highlight into the object states of that tree, and leaves *)
(* an ordered list of drawing effects and at most one message, which are   *)
(* applied after it.  The first title is the Desk: its pull-down is a tree *)
(* of the manager's own, with a row for each registered accessory.         *)
(*                                                                         *)
(* Left out: coordinates (a sample is in a title, in a row of a pull-down, *)
(* in its box or away), texts, MENU_TEXT and MENU_CLICK, and trees whose   *)
(* titles and pull-downs differ in number.  An app that attaches again is  *)
(* a new generation: nothing of the old one is left, see OwnersLive.       *)
(***************************************************************************)
EXTENDS Integers, Sequences, FiniteSets, SequencesExt

CONSTANTS
    Apps,          \* the clients, each with a tree of the same shape
    NoApp,         \* GEM_MENU_PULL_NO_OWNER
    Rows,          \* the number of rows under each title; title 1 is the Desk
    TitleLetter,   \* the underlined letter of each title
    RowLetter,     \* of each row, by title
    AccLetter,     \* of the accessory name each client registers
    Marked,        \* the objects <<title, row>> that clients mark
    Exposed,       \* the clients with a window under the pull-downs
    MaxAccessories,\* GEM_MENU_PULL_ACCESSORIES, 17 in the code
    QueueMax,      \* the messages a queue takes, 48 in the code
    MaxCalls       \* bound: the calls the clients make after the first bar

ASSUME MenuAssumption ==
    /\ NoApp \notin Apps /\ Exposed \subseteq Apps
    /\ Rows \in Seq(Nat \ {0}) /\ Len(Rows) >= 1 /\ Rows[1] >= 2
    /\ Marked \subseteq UNION {{t} \X (0 .. Rows[t]) : t \in 1 .. Len(Rows)}
    /\ MaxAccessories \in Nat /\ QueueMax \in Nat \ {0} /\ MaxCalls \in Nat

VARIABLES
    live,      \* the attached clients
    loaded,    \* those whose resource, with the menu tree, is in memory
    marks,     \* ob_state of every object, by client; a title is row 0
    shown,     \* gem_resident_menu: whose bar is on the screen
    menu,      \* gem_menu_pull, the record below
    desk,      \* ob_state of the rows of the fixed Desk tree
    accessory, \* gem_menu_accessories, up to its count
    screen,    \* what is painted of titles, pull-downs and rows
    queue,     \* the message queue of each client
    owed,      \* titles a client was told of and has not set back yet
    calls      \* the number of calls made

menuVars == <<live, loaded, marks, shown, menu, desk, accessory, screen,
              queue, owed, calls>>

Titles == 1 .. Len(Rows)
DeskTitle == 1
DeskFixed == 3   \* GEM_MENU_PULL_DESK_FIXED: the row of the first accessory
Objects == UNION {{t} \X (0 .. Rows[t]) : t \in Titles}
DrawEffects == 8
None == [to |-> NoApp]

Inactive == [active |-> FALSE, owner |-> NoApp, button |-> FALSE,
             tracking |-> FALSE, title |-> 0, item |-> 0, armed |-> 0,
             drag |-> FALSE, latched |-> FALSE, outside |-> FALSE,
             titleBase |-> {}, itemBase |-> {}]

\* gem_menu_clear_tracking_words
Idle(m) == [Inactive EXCEPT !.active = m.active, !.owner = m.owner, !.button = m.button]

\* What is painted; not followed any more once effects were refused.
Blank == [pulled |-> {}, rows |-> {}, titles |-> {}, names |-> <<>>,
          refused |-> FALSE]

MenuInit ==
    /\ live = Apps /\ loaded = Apps
    /\ marks = [a \in Apps |-> [o \in Objects |-> {}]]
    /\ shown = NoApp
    /\ menu = Inactive
    /\ desk = <<>> /\ accessory = <<>>
    /\ screen = Blank
    /\ queue = [a \in Apps |-> <<>>]
    /\ owed = [a \in Apps |-> {}]
    /\ calls = 0

----------------------------------------------------------------------------
(* A handler turns a state S of the manager into the next.  Its fx and all *)
(* are the drawing effects, msg the message, bar the client whose bar is   *)
(* on the screen when the effects are applied.                             *)

\* The handlers clear the effects first.
Start == [m |-> menu, marks |-> marks, desk |-> desk, acc |-> accessory,
          bar |-> shown, fx |-> <<>>, all |-> FALSE, msg |-> None]

\* A full list is dropped for one repaint of the bar.
Effect(S, do, t, k) ==
    IF Len(S.fx) >= DrawEffects THEN [S EXCEPT !.fx = <<>>, !.all = TRUE]
    ELSE [S EXCEPT !.fx = Append(@, [do |-> do, t |-> t, k |-> k])]

Message(S, to, type, t, k) ==
    [S EXCEPT !.msg = [to |-> to, type |-> type, t |-> t, k |-> k]]

InDesk(S) == S.m.title = DeskTitle
RowCount(S) == IF InDesk(S) THEN Len(S.desk) ELSE Rows[S.m.title]
RowState(S, k) ==
    IF InDesk(S) THEN S.desk[k] ELSE S.marks[S.m.owner][<<S.m.title, k>>]
TitleState(S, t) == S.marks[S.m.owner][<<t, 0>>]

WriteRow(S, k, state) ==
    IF InDesk(S) THEN [S EXCEPT !.desk[k] = state]
    ELSE [S EXCEPT !.marks[S.m.owner][<<S.m.title, k>>] = state]
WriteTitle(S, t, state) == [S EXCEPT !.marks[S.m.owner][<<t, 0>>] = state]

EnabledRows(S) == {k \in 1 .. RowCount(S) : "dis" \notin RowState(S, k)}
EnabledTitles(S) == {t \in Titles : "dis" \notin TitleState(S, t)}

\* The least and the greatest; 0 for none.
Least(E) == IF E = {} THEN 0 ELSE CHOOSE k \in E : \A j \in E : k <= j
Greatest(E) == IF E = {} THEN 0 ELSE CHOOSE k \in E : \A j \in E : j <= k

\* The Desk tree: the client's information row and separator, and a row for
\* each accessory.
BuildDesk(S) ==
    IF ~S.m.active THEN [S EXCEPT !.desk = <<>>]
    ELSE [S EXCEPT !.desk =
            <<S.marks[S.m.owner][<<DeskTitle, 1>>],
              S.marks[S.m.owner][<<DeskTitle, 2>>] \cup {"dis"}>>
            \o [i \in 1 .. Len(S.acc) |-> {}]]

\* The highlight moves from one row to another, or to none.
SetItem(S, k) ==
    LET off == IF S.m.item = 0 THEN S
               ELSE Effect(WriteRow(S, S.m.item, S.m.itemBase),
                           "row", S.m.title, S.m.item)
        base == RowState(off, k)
        on == [off EXCEPT !.m.item = k, !.m.itemBase = base]
    IN  IF k = S.m.item THEN S
        ELSE IF k = 0 THEN [off EXCEPT !.m.item = 0, !.m.itemBase = {}]
        ELSE Effect(WriteRow(on, k, base \cup {"sel"}), "row", S.m.title, k)

OpenTitle(S, t, drag) ==
    LET built == IF t = DeskTitle THEN BuildDesk(S) ELSE S
        lit == WriteTitle(
                 [built EXCEPT !.m = [Idle(S.m) EXCEPT
                    !.tracking = TRUE, !.title = t, !.drag = drag,
                    !.titleBase = TitleState(S, t)]],
                 t, TitleState(S, t) \cup {"sel"})
    IN  Effect(Effect(Effect(lit, "title", t, 0), "save", t, 0), "pull", t, 0)

\* The highlighted row as it was before, and the area to be repainted.
Unpull(S) ==
    Effect(IF S.m.item = 0 THEN S ELSE WriteRow(S, S.m.item, S.m.itemBase),
           "restore", S.m.title, 0)

\* The pull-down closes on a row, or on none.  The title of a row of the
\* client stays selected, that of an accessory does not.
Close(S, k) ==
    LET t == S.m.title
        bare == Unpull(S)
        unlit(state) == Effect(WriteTitle(bare, t, state), "title", t, 0)
        opened == unlit(S.m.titleBase \ {"sel"})
        done ==
          IF k = 0 THEN unlit(S.m.titleBase)
          ELSE IF InDesk(S) /\ k >= DeskFixed
          THEN IF k - DeskFixed < Len(S.acc)
               THEN Message(opened, S.acc[k - DeskFixed + 1], "open", t, k)
               ELSE opened
          ELSE Message(WriteTitle(bare, t, S.m.titleBase \cup {"sel"}),
                       S.m.owner, "selected", t, IF InDesk(S) THEN 1 ELSE k)
    IN  IF S.m.tracking THEN [done EXCEPT !.m = Idle(@)] ELSE S

SwitchTitleKeepsRow(S, t, keyboard) ==
    LET old == S.m.title
        dark == Effect(WriteTitle(S, old, S.m.titleBase), "title", old, 0)
        gone == [Effect(dark, "restore", old, 0) EXCEPT !.m = Idle(@)]
        open == OpenTitle(gone, t, FALSE)
    IN  IF t = 0 \/ t = old THEN S
        ELSE IF keyboard THEN SetItem(open, Least(EnabledRows(open)))
        ELSE open

SwitchTitle(S, t, keyboard) ==
    LET old == S.m.title
        off == IF S.m.item = 0 THEN S ELSE WriteRow(S, S.m.item, S.m.itemBase)
        dark == Effect(WriteTitle(off, old, S.m.titleBase), "title", old, 0)
        gone == [Effect(dark, "restore", old, 0) EXCEPT !.m = Idle(@)]
        open == OpenTitle(gone, t, FALSE)
    IN  IF t = 0 \/ t = old THEN S
        ELSE IF keyboard THEN SetItem(open, Least(EnabledRows(open)))
        ELSE open

----------------------------------------------------------------------------
(* Where a sample is *)

Places ==
    [at : {"title"}, t : Titles, k : {0}]
    \cup {[at |-> "row", t |-> o[1], k |-> o[2]] : o \in {p \in Objects : p[2] # 0}}
    \cup {[at |-> "row", t |-> DeskTitle, k |-> k] : k \in 1 .. MaxAccessories + 2}
    \cup [at : {"gap"}, t : Titles, k : {0}]
    \cup [at : {"away"}, t : {0}, k : {0}]

TitleAt(S, p) == IF p.at = "title" /\ p.t \in EnabledTitles(S) THEN p.t ELSE 0

InPull(S, p) ==
    /\ S.m.tracking /\ p.t = S.m.title
    /\ p.at = "gap" \/ (p.at = "row" /\ p.k <= RowCount(S))

RowAt(S, p) ==
    IF InPull(S, p) /\ p.at = "row" /\ p.k \in EnabledRows(S) THEN p.k ELSE 0

\* gem_menu_list_find: the neighbour among the enabled ones, round the end;
\* a current one that is not enabled counts as none.
NextOf(E, k) ==
    LET after == {j \in E : j > k}
    IN  IF k \in E /\ after # {} THEN Least(after) ELSE Least(E)
PreviousOf(E, k) ==
    LET before == {j \in E : j < k}
    IN  IF k \in E /\ before # {} THEN Greatest(before) ELSE Greatest(E)

----------------------------------------------------------------------------
(* One sample *)

MouseTracking(S, p, down, pressed, released, justOpened) ==
    LET title == TitleAt(S, p)
        moved == IF title = 0 THEN S ELSE SwitchTitle(S, title, FALSE)
        item == RowAt(moved, p)
        lit == SetItem(moved, item)
        within == InPull(lit, p)
        armed == IF pressed /\ ~justOpened
                 THEN [lit EXCEPT !.m.armed = item,
                          !.m.outside = item = 0 /\ title = 0 /\ ~within]
                 ELSE lit
        picked == item # 0 /\ (armed.m.drag \/ armed.m.armed = item)
        stays == title # 0 \/ within
        left == armed.m.outside \/ armed.m.armed # 0
        let_go == [armed EXCEPT !.m.drag = FALSE, !.m.armed = 0,
                      !.m.outside = FALSE, !.m.latched = @ \/ stays]
        last == IF released THEN let_go ELSE armed
    IN  IF released /\ picked THEN Close(armed, item)
        ELSE IF released /\ ~stays /\ left THEN Close(armed, 0)
        ELSE IF ~down /\ ~last.m.latched /\ ~last.m.drag /\ title = 0
                /\ item = 0 /\ ~within
        THEN Close(last, 0)
        ELSE last

\* The row of the open pull-down with this letter.  The information row is
\* taken without a look at its state.
Shortcut(S, letter) ==
    Least(IF InDesk(S)
          THEN {k \in 1 .. RowCount(S) :
                  \/ k = 1 /\ RowLetter[DeskTitle][1] = letter
                  \/ k >= DeskFixed
                     /\ AccLetter[S.acc[k - DeskFixed + 1]] = letter}
          ELSE {k \in EnabledRows(S) : RowLetter[S.m.title][k] = letter})

TitleForKey(S, key) ==
    CASE key = "f10" -> Least(EnabledTitles(S))
      [] key = "f1" -> Greatest(EnabledTitles(S))
      [] OTHER -> Least({t \in EnabledTitles(S) : TitleLetter[t] = key})

OpenByKey(S, t) ==
    LET open == OpenTitle(S, t, FALSE)
    IN  SetItem(open, Least(EnabledRows(open)))

Keyboard(S, key) ==
    LET E == EnabledTitles(S)
    IN  CASE key = "escape" -> Close(S, 0)
          [] key = "right" -> SwitchTitle(S, NextOf(E, S.m.title), TRUE)
          [] key = "left" -> SwitchTitle(S, PreviousOf(E, S.m.title), TRUE)
          [] key = "down" -> SetItem(S, NextOf(EnabledRows(S), S.m.item))
          [] key = "up" -> SetItem(S, PreviousOf(EnabledRows(S), S.m.item))
          [] key = "enter" -> IF S.m.item = 0 THEN S ELSE Close(S, S.m.item)
          [] OTHER -> Close(S, Shortcut(S, key))

Keys == {"escape", "right", "left", "down", "up", "enter", "f10", "f1"}
        \cup {TitleLetter[t] : t \in Titles}
        \cup UNION {{RowLetter[t][k] : k \in 1 .. Rows[t]} : t \in Titles}
        \cup {AccLetter[a] : a \in Apps}
NoKey == "none"

\* gem_menu_pull_resident_input: the manager after a sample, and whether it
\* used the sample up.
Sampled(S, p, down, key) ==
    LET pressed == down /\ ~menu.button
        released == ~down /\ menu.button
        title == TitleAt(S, p)
        opens == ~menu.tracking /\ pressed /\ title # 0
        opened == IF opens THEN OpenTitle(S, title, TRUE) ELSE S
        called == TitleForKey(S, key)
    IN  IF ~menu.active THEN [S |-> Start, consumed |-> FALSE]
        ELSE IF key # NoKey
        THEN IF menu.tracking THEN [S |-> Keyboard(S, key), consumed |-> TRUE]
             ELSE IF called = 0 THEN [S |-> S, consumed |-> FALSE]
             ELSE [S |-> OpenByKey(S, called), consumed |-> TRUE]
        ELSE IF opened.m.tracking
        THEN [S |-> MouseTracking(opened, p, down, pressed, released, opens),
              consumed |-> TRUE]
        ELSE [S |-> S, consumed |-> FALSE]

----------------------------------------------------------------------------
(* The effects, applied to the screen and the queues *)

Room(q, a) == Len(q[a]) < QueueMax

\* The titles as they are painted with the bar.
PaintBar(S, scr) ==
    [scr EXCEPT !.titles = {t \in Titles : "sel" \in S.marks[S.bar][<<t, 0>>]}]

PaintRow(S, scr, t, k) ==
    LET state == IF t = DeskTitle THEN S.desk[k] ELSE S.marks[S.bar][<<t, k>>]
    IN  [scr EXCEPT !.rows = IF "sel" \in state THEN @ \cup {<<t, k>>}
                             ELSE @ \ {<<t, k>>}]

PaintPull(S, scr, t) ==
    LET n == IF t = DeskTitle THEN Len(S.desk) ELSE Rows[t]
        state(k) == IF t = DeskTitle THEN S.desk[k]
                    ELSE S.marks[S.bar][<<t, k>>]
    IN  [scr EXCEPT
           !.pulled = @ \cup {t},
           !.rows = {r \in @ : r[1] # t}
                    \cup {<<t, k>> : k \in {j \in 1 .. n : "sel" \in state(j)}},
           !.names = IF t = DeskTitle THEN S.acc ELSE @]

\* The box of the pull-down is filled.
Uncovered(scr, t) ==
    [scr EXCEPT !.pulled = @ \ {t}, !.rows = {r \in @ : r[1] # t},
                !.names = IF t = DeskTitle THEN <<>> ELSE @]

RestoreUnreserved(S, D, t) ==
    LET told == Exposed \cap live
        need(a) == Len(D.q[a]) + 1
    IN  IF \E a \in told : need(a) > QueueMax THEN [D EXCEPT !.ok = FALSE]
        ELSE [D EXCEPT
                !.q = [a \in Apps |-> IF a \in told
                                      THEN Append(@[a], [type |-> "redraw"])
                                      ELSE @[a]],
                !.scr = PaintBar(S, Uncovered(@, t))]

\* gem_resident_menu_restore: the windows under the pull-down are told to
\* redraw, all of them or none; one place more is kept for the message.
Restore(S, D, t) ==
    LET told == Exposed \cap live
        need(a) == Len(D.q[a]) + 1 + (IF S.msg.to = a THEN 1 ELSE 0)
    IN  IF \E a \in told : need(a) > QueueMax THEN [D EXCEPT !.ok = FALSE]
        ELSE [D EXCEPT
                !.q = [a \in Apps |-> IF a \in told
                                      THEN Append(@[a], [type |-> "redraw"])
                                      ELSE @[a]],
                !.scr = PaintBar(S, Uncovered(@, t))]

\* One drawing effect; a bar without a live owner draws nothing.
Draw(S, D, e) ==
    IF ~D.ok \/ e.do = "save" THEN D
    ELSE IF S.bar \notin live THEN [D EXCEPT !.ok = FALSE]
    ELSE CASE e.do = "title" -> [D EXCEPT !.scr.titles =
                IF "sel" \in S.marks[S.bar][<<e.t, 0>>] THEN @ \cup {e.t}
                ELSE @ \ {e.t}]
           [] e.do = "row" -> [D EXCEPT !.scr = PaintRow(S, @, e.t, e.k)]
           [] e.do = "pull" -> [D EXCEPT !.scr = PaintPull(S, @, e.t)]
           [] e.do = "restore" -> Restore(S, D, e.t)

\* All drawing effects, one after the other.
Drawn(S, D) ==
    LET after[n \in 0 .. Len(S.fx)] ==
            IF n = 0 THEN D ELSE Draw(S, after[n - 1], S.fx[n])
    IN  after[Len(S.fx)]

\* gem_resident_menu_apply_effects: refused as a whole when the message has
\* no room, and from the first effect on that fails.
Applied(S, scr, q) ==
    LET D0 == [ok |-> TRUE, scr |-> scr, q |-> q]
        drawn == Drawn(S, D0)
        barred == IF drawn.ok /\ S.all
                  THEN [drawn EXCEPT !.scr = PaintBar(S, @)] ELSE drawn
        refused(D) == [D EXCEPT !.ok = FALSE,
                                !.scr = [Blank EXCEPT !.refused = TRUE]]
        done == IF scr.refused THEN [barred EXCEPT !.scr = scr] ELSE barred
    IN  IF S.msg # None /\ ~(S.msg.to \in live /\ Room(q, S.msg.to))
        THEN refused(D0)
        ELSE IF ~done.ok THEN refused(done)
        ELSE IF S.msg = None \/ ~Room(done.q, S.msg.to) THEN done
        ELSE [done EXCEPT !.q[S.msg.to] =
                Append(@, [type |-> S.msg.type, t |-> S.msg.t, k |-> S.msg.k])]

\* The state a handler leaves, its effects applied.
Leave(S) ==
    \E T \in {S} : \E D \in {Applied(T, screen, queue)} :
        /\ menu' = T.m /\ marks' = T.marks /\ desk' = T.desk
        /\ accessory' = T.acc
        /\ screen' = D.scr /\ queue' = D.q

----------------------------------------------------------------------------
(* The user *)

MenuInput(p, down, key) ==
    /\ menu.active
    /\ \E S \in {[Start EXCEPT !.m.button = down]} :
           Leave(Sampled(S, p, down, key).S)
    /\ UNCHANGED <<live, loaded, shown, owed, calls>>

----------------------------------------------------------------------------
(* The clients *)

Call(a) == a \in live /\ calls < MaxCalls /\ calls' = calls + 1

\* gem_menu_pull_resident_deactivate, for the owner of the menu
Deactivated ==
    LET S == Close(Start, 0)
    IN  [S EXCEPT !.m.active = FALSE, !.m.owner = NoApp]

\* gem_menu_pull_resident_activate
Activated(S, a) ==
    LET mine == [Close(S, 0) EXCEPT
                   !.m = [Inactive EXCEPT !.active = TRUE, !.owner = a]]
    IN  [BuildDesk(mine) EXCEPT !.all = TRUE]

\* MENU_BAR to show a bar.  The one before is closed first; it stays closed
\* when the new tree turns out to be none, though its bar is still shown.
MenuBarShow(a) ==
    LET old == shown # NoApp /\ menu.active /\ menu.owner = shown
    IN  /\ a \in live /\ (calls < MaxCalls \/ (calls = 0 /\ shown = NoApp))
        /\ calls' = IF shown = NoApp /\ calls = 0 THEN 0 ELSE calls + 1
        /\ \E S \in {IF old THEN Deactivated ELSE Start} :
           \E D \in {Applied(S, screen, queue)} :
           \E new \in {Activated([S EXCEPT !.fx = <<>>, !.bar = a], a)} :
             IF (old /\ ~D.ok) \/ a \notin loaded
             THEN shown' = shown /\ Leave(S)
             ELSE /\ shown' = a
                  /\ menu' = new.m /\ marks' = new.marks /\ desk' = new.desk
                  /\ accessory' = new.acc
                  /\ queue' = D.q
                  /\ screen' = IF D.scr.refused THEN D.scr ELSE PaintBar(new, D.scr)
        /\ UNCHANGED <<live, loaded, owed>>

\* MENU_BAR to hide it
MenuBarHide(a) ==
    LET mine == menu.active /\ menu.owner = a
        S == IF mine THEN Deactivated ELSE Start
        stuck == mine /\ ~Applied(S, screen, queue).ok
    IN  /\ Call(a)
        /\ shown' = IF shown = a /\ ~stuck THEN NoApp ELSE shown
        /\ Leave(S)
        /\ UNCHANGED <<live, loaded, owed>>

SetFlag(states, flag, on) == IF on THEN states \cup {flag} ELSE states \ {flag}

Mark(a, o, flag, on) ==
    [Start EXCEPT !.marks[a][o] = SetFlag(@, flag, on)]

MenuIcheck(a, o, on) ==
    /\ Call(a) /\ a \in loaded
    /\ Leave(Mark(a, o, "chk", on))
    /\ UNCHANGED <<live, loaded, shown, owed>>

\* With GEM_MENU_PULL_HIGH_ITEM, which clients use for titles, it is drawn.
MenuIenable(a, o, on) ==
    LET S == Mark(a, o, "dis", ~on)
    IN  /\ Call(a) /\ a \in loaded
        /\ Leave(IF o[2] = 0 /\ menu.active /\ menu.owner = a
                 THEN Effect(S, "title", o[1], 0) ELSE S)
        /\ UNCHANGED <<live, loaded, shown, owed>>

\* Only in the tree of the active menu; otherwise nothing, and success.
\* Clients set back a title they were told of, or highlight one themselves.
MenuTnormal(a, t, normal) ==
    /\ a \in loaded
    /\ IF normal THEN t \in owed[a] /\ calls' = calls
       ELSE Call(a) /\ t \in {o[1] : o \in Marked}
    /\ owed' = [owed EXCEPT ![a] = IF normal THEN @ \ {t} ELSE @ \cup {t}]
    /\ Leave(IF menu.active /\ menu.owner = a
             THEN Effect(Mark(a, <<t, 0>>, "sel", ~normal), "title", t, 0)
             ELSE Start)
    /\ UNCHANGED <<live, loaded, shown>>

\* The rows of an open Desk pull-down must not move.
DeskClosed(S) == IF S.m.tracking /\ InDesk(S) THEN Close(S, 0) ELSE S

MenuRegister(a) ==
    LET S == DeskClosed(Start)
    IN  /\ Call(a)
        /\ Leave(IF Len(S.acc) >= MaxAccessories THEN S
                 ELSE BuildDesk([S EXCEPT !.acc = Append(@, a)]))
        /\ UNCHANGED <<live, loaded, shown, owed>>

\* By its identifier, or the client's first.
MenuUnregister(a, i) ==
    LET S == DeskClosed(Start)
    IN  /\ Call(a)
        /\ Leave(IF i \in 1 .. Len(S.acc) /\ S.acc[i] = a
                 THEN BuildDesk([S EXCEPT !.acc = RemoveAt(@, i)]) ELSE S)
        /\ UNCHANGED <<live, loaded, shown, owed>>

\* RSRC_FREE: a shown menu is given up before its tree goes; the resource
\* stays when that fails.
MenuRsrcFree(a) ==
    LET mine == menu.active /\ menu.owner = a
        S == IF shown = a /\ mine THEN Deactivated ELSE Start
        freed == shown = a => mine /\ Applied(S, screen, queue).ok
    IN  /\ Call(a) /\ a \in loaded
        /\ Leave(S)
        /\ shown' = IF freed /\ shown = a THEN NoApp ELSE shown
        /\ loaded' = IF freed THEN loaded \ {a} ELSE loaded
        /\ UNCHANGED <<live, owed>>

\* The accessory rows but those of one client.
Others(rows, a) ==
    LET kept[n \in 0 .. Len(rows)] ==
            IF n = 0 THEN <<>>
            ELSE IF rows[n] = a THEN kept[n - 1] ELSE Append(kept[n - 1], rows[n])
    IN  kept[Len(rows)]

\* APPL_EXIT or a hang-up: gem_menu_pull_resident_detach, its effects, then
\* the bar.
MenuDetach(a) ==
    LET mine == menu.active /\ menu.owner = a
        S == IF mine THEN Deactivated ELSE Start
        rows == Others(S.acc, a)
        had == a \in Range(S.acc)
        closed == IF had THEN DeskClosed(S) ELSE S
        less == [closed EXCEPT !.acc = rows]
    IN  /\ Call(a)
        /\ \E left \in {IF had /\ less.m.active THEN BuildDesk(less) ELSE less} :
           \E D \in {Applied(left, screen, queue)} :
             /\ menu' = left.m /\ desk' = left.desk /\ accessory' = left.acc
             /\ screen' = D.scr
             /\ marks' = [left.marks EXCEPT ![a] = [o \in Objects |-> {}]]
             /\ queue' = [D.q EXCEPT ![a] = <<>>]
        /\ shown' = IF shown = a THEN NoApp ELSE shown
        /\ live' = live \ {a} /\ loaded' = loaded \ {a}
        /\ owed' = [owed EXCEPT ![a] = {}]

\* A new generation attaches and loads its resource.
MenuAttach(a) ==
    /\ a \notin live /\ calls < MaxCalls /\ calls' = calls + 1
    /\ live' = live \cup {a} /\ loaded' = loaded \cup {a}
    /\ UNCHANGED <<marks, shown, menu, desk, accessory, screen, queue, owed>>

\* A client answers one message before it reads the next.
MenuTake(a) ==
    /\ queue[a] # <<>> /\ owed[a] = {}
    /\ queue' = [queue EXCEPT ![a] = Tail(@)]
    /\ owed' = [owed EXCEPT ![a] = IF Head(queue[a]).type = "selected"
                                   THEN @ \cup {Head(queue[a]).t} ELSE @]
    /\ UNCHANGED <<live, loaded, marks, shown, menu, desk, accessory, screen, calls>>

MenuNext ==
    \/ \E p \in Places, down \in BOOLEAN : MenuInput(p, down, NoKey)
    \/ \E key \in Keys : MenuInput([at |-> "away", t |-> 0, k |-> 0], menu.button, key)
    \/ \E a \in Apps :
        \/ MenuBarShow(a) \/ MenuBarHide(a) \/ MenuRegister(a)
        \/ \E o \in Marked, on \in BOOLEAN : MenuIcheck(a, o, on) \/ MenuIenable(a, o, on)
        \/ \E t \in Titles, normal \in BOOLEAN : MenuTnormal(a, t, normal)
        \/ \E i \in 1 .. MaxAccessories : MenuUnregister(a, i)
        \/ MenuRsrcFree(a) \/ MenuDetach(a) \/ MenuAttach(a)
        \/ MenuTake(a)

MenuSpec == MenuInit /\ [][MenuNext]_menuVars

----------------------------------------------------------------------------
(* Properties *)

\* The bar, the active tree and the accessory rows are those of clients that
\* are still attached and still hold the tree in memory: no path of teardown
\* leaves a reference to memory that is gone.
OwnersLive ==
    /\ menu.active => menu.owner \in live \cap loaded
    /\ menu.active /\ shown # NoApp => menu.owner = shown
    /\ menu.tracking => menu.active
    /\ Range(accessory) \subseteq live
    /\ shown \in live \cup {NoApp}

\* What is painted is what the object states say, pull-down by pull-down, row
\* by row and title by title, however the list of effects was cut short.
ScreenIsCurrent ==
    \/ screen.refused
    \/ /\ screen.pulled = (IF menu.tracking THEN {menu.title} ELSE {})
       /\ screen.rows = (IF menu.tracking /\ menu.item # 0
                         THEN {<<menu.title, menu.item>>} ELSE {})
       /\ menu.tracking /\ InDesk(Start) => screen.names = accessory
       /\ shown # NoApp =>
            screen.titles = {t \in Titles : "sel" \in marks[shown][<<t, 0>>]}

\* At most one row is highlighted, the tracked one: no closing, switching,
\* hiding or teardown leaves another highlighted in a client's tree.
OneRow ==
    \A a \in Apps, o \in Objects :
        o[2] # 0 /\ "sel" \in marks[a][o] =>
            /\ menu.tracking /\ menu.owner = a
            /\ menu.title = o[1] /\ menu.item = o[2]

\* Redraws and messages share the queue without overrunning it.
QueuesFit == \A a \in Apps : Len(queue[a]) <= QueueMax

MenuSafety == OwnersLive /\ ScreenIsCurrent /\ OneRow /\ QueuesFit

\* A pull-down that closes and leaves its title highlighted has told the owner
\* of the tree, who alone can set the title back; or the screen is known to
\* be out of date.
ChoicesAreTold ==
    [][ LET a == menu.owner
            t == menu.title
        IN  /\ menu.tracking /\ ~menu'.tracking /\ a \in live'
            /\ loaded' = loaded
            /\ "sel" \in marks'[a][<<t, 0>>] /\ "sel" \notin menu.titleBase
            => \/ screen'.refused
               \/ queue'[a] # <<>> /\ Last(queue'[a]).type = "selected"
                  /\ Last(queue'[a]).t = t ]_menuVars
=============================================================================
