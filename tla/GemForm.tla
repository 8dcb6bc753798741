------------------------------- MODULE GemForm -------------------------------
(***************************************************************************)
(* Modal forms of the resident AES: FORM_DO and the calls FORM_BUTTON,     *)
(* FORM_KEYBD and OBJC_EDIT (gem_form_resident.c), FORM_ALERT and          *)
(* FORM_ERROR (gem_alert_resident.c).                                      *)
(*                                                                         *)
(* A FORM_DO or an alert takes a level of the screen lock and holds the    *)
(* client's call; samples of the mouse and the keyboard step it until an   *)
(* object ends it and the call is answered.  FORM_DO works in the client's *)
(* own tree, alerts in one tree of the AES that has one owner at a time.   *)
(*                                                                         *)
(* Left out: coordinates (a sample is on an object or on none), the        *)
(* characters of a text (its length and whether the mask takes a key are   *)
(* kept), and the parsing and placing of an alert's text.                  *)
(***************************************************************************)
EXTENDS GemModal

CONSTANTS
    Flags,        \* ob_flags of each object of each client's tree
    Parent,       \* the parent of each object
    Initial,      \* the objects with DEFAULT set at first, by client
    Limit,        \* te_txtlen of every field
    Alerts        \* the alerts: kind, number of buttons, default, escape

ASSUME FormAssumption ==
    /\ Limit \in Nat \ {0}
    /\ \A a \in Apps :
         /\ 0 \in DOMAIN Flags[a] /\ IsFiniteSet(DOMAIN Flags[a])
         /\ DOMAIN Flags[a] = 0 .. Cardinality(DOMAIN Flags[a]) - 1
         /\ DOMAIN Parent[a] = DOMAIN Flags[a]
         /\ Initial[a] \subseteq DOMAIN Flags[a]
    /\ Initial = [a \in Apps |-> Initial[a]]
    /\ Alerts \subseteq [kind : {"alert", "error"}, n : Nat, def : Int, esc : Int]

\* Dialogs in which no radio button can become the default object: FORM_KEYBD
\* selects that one without a look at the radio buttons beside it.
ASSUME RadioAssumption ==
    \A a \in Apps : \A o \in DOMAIN Flags[a] : "radio" \in Flags[a][o] =>
        "exit" \notin Flags[a][o] /\ o \notin Initial[a]

VARIABLES
    form,     \* gem_form_pds
    look,     \* ob_state of each object of each client's tree
    defaults, \* the objects with DEFAULT set
    text,     \* the length of the text in each object
    alert     \* the tree of the alerts: owner, buttons and selected ones

treeVars == <<look, defaults, text>>
formVars == <<form, look, defaults, text, alert>>

Root == 0
Nil == -1
ObjectsOf(a) == DOMAIN Flags[a]

Free == [kind |-> "free", edit |-> Root, index |-> 0, pressed |-> Nil,
         before |-> {}, down |-> FALSE, saved |-> Root, ended |-> FALSE,
         result |-> Root]

NoAlert == [owner |-> NoApp, n |-> 0, def |-> 0, esc |-> 0, sel |-> {}]
FormInit ==
    /\ form = [a \in Apps |-> Free]
    /\ look = [a \in Apps |-> [o \in ObjectsOf(a) |-> {}]]
    /\ defaults = Initial
    /\ text = [a \in Apps |-> [o \in ObjectsOf(a) |-> 0]]
    /\ alert = NoAlert

----------------------------------------------------------------------------
(* A handler turns S, the form and the tree of one client, into the next.  *)

State(a) == [a |-> a, f |-> form[a], look |-> look[a], def |-> defaults[a],
             text |-> text[a]]

Objects(S) == DOMAIN S.look
Is(S, o, flag) == IF flag = "def" THEN o \in S.def ELSE flag \in Flags[S.a][o]
Usable(S, o) == "hide" \notin Flags[S.a][o] /\ "dis" \notin S.look[o]

Lowest(E, none) == IF E = {} THEN none ELSE CHOOSE j \in E : \A k \in E : j <= k
Highest(E, none) == IF E = {} THEN none ELSE CHOOSE j \in E : \A k \in E : k <= j

\* gem_form_find_object
FindForward(S, o, flag) ==
    Lowest({j \in Objects(S) : j > o /\ Usable(S, j) /\ Is(S, j, flag)}, o)
FindBackward(S, o, flag) ==
    Highest({j \in Objects(S) : j < o /\ Usable(S, j) /\ Is(S, j, flag)}, o)
FindDefault(S, o) ==
    Lowest({j \in Objects(S) : Usable(S, j) /\ j \in S.def}, o)

\* The focus goes round the objects that take it.
Focusable(S, o) ==
    {j \in Objects(S) \ {o} : Usable(S, j) /\ (Is(S, j, "edit") \/ Is(S, j, "sel"))}
FocusForward(S, o) ==
    LET E == Focusable(S, o) IN Lowest({j \in E : j > o}, Lowest(E, o))
FocusBackward(S, o) ==
    LET E == Focusable(S, o) IN Highest({j \in E : j < o}, Highest(E, o))

\* The highlight of the active field; an exit button that has it is the
\* default one.
Cursor(S, o, on) ==
    LET lit == "hi" \in S.look[o]
        exit == Is(S, o, "exit")
    IN  IF o <= Root \/ ~(Is(S, o, "sel") \/ Is(S, o, "edit")) \/ lit = on
        THEN S
        ELSE IF on
        THEN [S EXCEPT !.look[o] = @ \cup {"hi"},
                       !.def = IF exit THEN @ \cup {o} ELSE @]
        ELSE [S EXCEPT !.look[o] = @ \ {"hi"},
                       !.def = IF exit THEN @ \ {o} ELSE @]

\* OBJC_EDIT's EDCHAR and EDINIT on a text of length n at position i: the new
\* pair.
Edited(n, i, key) ==
    LET at == IF i > n THEN n ELSE i
    IN  CASE key = "init" -> <<n, n>>
          [] key = "backspace" /\ at > 0 -> <<n - 1, at - 1>>
          [] key = "delete" /\ at < n -> <<n - 1, at>>
          [] key = "left" /\ at > 0 -> <<n, at - 1>>
          [] key = "right" /\ at < n -> <<n, at + 1>>
          [] key = "char" /\ n + 1 < Limit -> <<n + 1, at + 1>>
          [] OTHER -> <<n, at>>

Edit(S, key) ==
    LET new == Edited(S.text[S.f.edit], S.f.index, key)
    IN  [S EXCEPT !.text[S.f.edit] = new[1], !.f.index = new[2]]

\* gem_form_switch_field
SwitchField(S, o) ==
    LET off == IF S.f.edit > Root THEN Cursor(S, S.f.edit, FALSE) ELSE S
        moved == [off EXCEPT !.f.edit = o,
                    !.f.index = IF Is(S, o, "edit") THEN S.text[o] ELSE 0]
    IN  IF o <= Root \/ o \notin Objects(S) \/ o = S.f.edit THEN S
        ELSE Cursor(moved, o, TRUE)

\* Mutant of Finish: the default goes back before the highlight goes off.
FinishDefaultFirst(S, out) ==
    LET back == [S EXCEPT
                   !.def = IF S.f.saved > Root THEN @ \cup {S.f.saved} ELSE @]
        off == IF S.f.edit > Root THEN Cursor(back, S.f.edit, FALSE) ELSE back
    IN  [off EXCEPT !.f.ended = TRUE, !.f.result = out, !.f.pressed = Nil]

\* gem_form_finish, for a form in a client's tree
Finish(S, out) ==
    LET off == IF S.f.edit > Root THEN Cursor(S, S.f.edit, FALSE) ELSE S
    IN  [off EXCEPT
           !.def = IF S.f.saved > Root THEN @ \cup {S.f.saved} ELSE @,
           !.f.ended = TRUE, !.f.result = out, !.f.pressed = Nil]

\* The radio buttons beside an object: the one chosen, all others not.
Radio(S, o) ==
    [S EXCEPT !.look = [j \in Objects(S) |->
        IF Parent[S.a][j] # Parent[S.a][o] \/ ~Is(S, j, "radio") THEN S.look[j]
        ELSE IF j = o THEN S.look[j] \cup {"sel"} ELSE S.look[j] \ {"sel"}]]

Toggled(states) == IF "sel" \in states THEN states \ {"sel"} ELSE states \cup {"sel"}

\* gem_form_button: the tree after it, whether the form goes on and what it
\* answers.  A press has already toggled what it previews.  That a TOUCHEXIT
\* was clicked twice is told by a bit of the answer, left out.
Button(S, o, previewed) ==
    LET chosen == IF ~Is(S, o, "sel") \/ "dis" \in S.look[o] THEN S
                  ELSE IF Is(S, o, "radio") THEN Radio(S, o)
                  ELSE IF previewed THEN S
                  ELSE [S EXCEPT !.look[o] = Toggled(@)]
        ends == \/ Is(S, o, "touch")
                \/ "sel" \in chosen.look[o] /\ Is(S, o, "exit")
        field == Usable(chosen, o) /\ Is(S, o, "edit")
    IN  [S |-> chosen, on |-> ~ends,
         out |-> IF ~ends /\ ~field THEN Root ELSE o]

\* What a button does in FORM_DO: it ends it, or the focus goes there.
Pushed(S, o, previewed) ==
    LET r == Button(S, o, previewed)
    IN  IF r.on THEN SwitchField(r.S, r.out) ELSE Finish(r.S, r.out)

----------------------------------------------------------------------------
(* One sample of a FORM_DO *)

EditKeys == {"left", "right", "char", "refused", "backspace", "delete"}
FormKeys == EditKeys \cup {"up", "down", "return", "escape", "space"}
NoKey == "none"

NormalKey(S, key) ==
    LET o == S.f.edit
        field == Is(S, o, "edit")
        esc == FindForward(S, Root, "esc")
    IN  CASE key = "up" \/ (key = "left" /\ ~field) -> SwitchField(S, FocusBackward(S, o))
          [] key = "down" \/ (key = "right" /\ ~field) -> SwitchField(S, FocusForward(S, o))
          [] key = "return" ->
               Pushed(S, IF Is(S, o, "exit") THEN o ELSE FindDefault(S, o), FALSE)
          [] key = "escape" ->
               LET r == Button(S, esc, FALSE)
               IN  IF esc = Root \/ ~Is(S, esc, "esc") THEN S
                   ELSE IF r.on THEN r.S ELSE Finish(r.S, r.out)
          [] key = "space" -> Pushed(S, o, FALSE)
          [] OTHER -> IF field THEN Edit(S, key) ELSE S

\* A press shows at once what a release in the same place will do.
Previews(S, o) == Is(S, o, "sel") /\ ~Is(S, o, "radio")

NormalMouse(S, o, down) ==
    LET p == S.f.pressed
        press == [S EXCEPT !.f.pressed = o,
                    !.f.before = IF o = Nil THEN @ ELSE S.look[o]]
        shown == IF o # Nil /\ Previews(S, o) /\ "dis" \notin S.look[o]
                 THEN [press EXCEPT !.look[o] = Toggled(@)] ELSE press
        undone == IF Previews(S, p) THEN [S EXCEPT !.look[p] = S.f.before] ELSE S
        released == IF o = p THEN Pushed(S, p, Previews(S, p)) ELSE undone
        next == IF down /\ ~S.f.down THEN shown
                ELSE IF ~down /\ S.f.down /\ p # Nil
                THEN [released EXCEPT !.f.pressed = Nil] ELSE S
    IN  [next EXCEPT !.f.down = down]

\* The key first, then the button, unless the key has ended the form.
Sampled(S, o, down, key) ==
    LET keyed == IF key = NoKey THEN S ELSE NormalKey(S, key)
    IN  IF keyed.f.ended THEN keyed ELSE NormalMouse(keyed, o, down)

----------------------------------------------------------------------------
(* One sample of an alert *)

\* gem_form_alert_build: which of the buttons RETURN and ESCAPE mean.
AlertTree(a, al) ==
    [owner |-> a, n |-> al.n, def |-> al.def, esc |-> al.esc, sel |-> {}]

\* A flag on a button that is not shown does not count.
AlertKey(alarm, key) ==
    LET b == IF key = "return" THEN alarm.def
             ELSE IF key = "escape" THEN alarm.esc ELSE 0
    IN  IF b \in 1 .. alarm.n THEN b ELSE Nil

\* FORM_ERROR tells whether it was another button than the first.
AlertEnded(F, b) ==
    [F EXCEPT !.f.ended = TRUE, !.f.pressed = Nil,
              !.f.result = IF F.f.kind = "alert" THEN b
                           ELSE IF b = 1 THEN 0 ELSE 1]

AlertSampled(f, alarm, b, down, key) ==
    LET F == [f |-> f, sel |-> alarm.sel]
        keyed == AlertKey(alarm, key)
        p == f.pressed
        press == [F EXCEPT !.f.pressed = b,
                    !.f.before = IF b = Nil THEN @ ELSE F.sel \cap {b},
                    !.sel = IF b = Nil THEN @ ELSE (@ \ {b}) \cup ({b} \ @)]
        release == IF b = p THEN AlertEnded(F, p)
                   ELSE [F EXCEPT !.sel = (@ \ {p}) \cup f.before]
        next == IF down /\ ~f.down THEN press
                ELSE IF ~down /\ f.down /\ p # Nil
                THEN [release EXCEPT !.f.pressed = Nil] ELSE F
    IN  IF keyed # Nil THEN AlertEnded([F EXCEPT !.sel = @ \cup {keyed}], keyed)
        ELSE [next EXCEPT !.f.down = down]

----------------------------------------------------------------------------
(* The actions *)

Leave(S) ==
    /\ look' = [look EXCEPT ![S.a] = S.look]
    /\ defaults' = [defaults EXCEPT ![S.a] = S.def]
    /\ text' = [text EXCEPT ![S.a] = S.text]

\* FORM_DO: the form is set up in the tree before the lock is asked for, and
\* given up without another look at the tree when it is refused.
FormDo(a, start) ==
    LET S0 == [State(a) EXCEPT !.f = [Free EXCEPT !.kind = "do"]]
        first == FindForward(S0, Root, "def")
        S1 == [S0 EXCEPT !.f.saved = first]
        S == SwitchField(S1, IF start = Root THEN first ELSE start)
    IN  /\ Call(a)
        /\ Leave(S)
        /\ IF MayTake(a)
           THEN /\ form' = [form EXCEPT ![a] = S.f]
                /\ lock' = Taken(lock, a)
                /\ Answered(a, Held)
           ELSE Answered(a, Failed) /\ UNCHANGED <<form, lock>>
        /\ UNCHANGED <<live, alert>>

\* FORM_ALERT and FORM_ERROR: one alert at a time, and not without the lock.
FormAlert(a, al) ==
    /\ Call(a)
    /\ IF alert.owner = NoApp /\ MayTake(a)
       THEN /\ form' = [form EXCEPT ![a] = [Free EXCEPT !.kind = al.kind]]
            /\ alert' = AlertTree(a, al)
            /\ lock' = Taken(lock, a)
            /\ Answered(a, Held)
       ELSE Answered(a, Failed) /\ UNCHANGED <<form, alert, lock>>
    /\ UNCHANGED <<live, look, defaults, text>>

\* A form that has ended is answered in the same poll: the level of the lock
\* goes back, an alert's background is repainted, without which its answer is
\* lost, and the tree of the alerts is free again.
Serviced(a, f, repainted) ==
    /\ form' = [form EXCEPT ![a] = IF f.ended THEN Free ELSE f]
    /\ lock' = IF f.ended THEN Given(lock, a) ELSE lock
    /\ IF f.ended THEN Answered(a, IF repainted THEN Answer(f.result) ELSE Failed)
       ELSE UNCHANGED reply
    /\ UNCHANGED <<live, calls>>

FormSample(a, o, down, key) ==
    LET S == Sampled(State(a), o, down, key)
    IN  /\ form[a].kind = "do"
        /\ Leave(S)
        /\ Serviced(a, S.f, TRUE)
        /\ UNCHANGED alert

AlertSample(a, b, down, key, repainted) ==
    LET F == AlertSampled(form[a], alert, b, down, key)
    IN  /\ form[a].kind \in {"alert", "error"}
        /\ F.f.ended \/ repainted
        /\ alert' = IF F.f.ended THEN NoAlert ELSE [alert EXCEPT !.sel = F.sel]
        /\ Serviced(a, F.f, repainted)
        /\ UNCHANGED treeVars

\* The calls of clients that run a form of their own.
FormButton(a, o) ==
    LET r == Button(State(a), o, FALSE)
    IN  /\ Told(a, Answer(r.out))
        /\ Leave(r.S)
        /\ UNCHANGED <<form, alert>>

\* RETURN selects the default object, the rest only finds the next field.
FormKeybd(a, o, key) ==
    LET S == State(a)
        d == FindDefault(S, Root)
        chosen == [S EXCEPT !.look[d] = @ \cup {"sel"}]
        found == CASE key = "return" -> d
                   [] key = "up" -> FindBackward(S, o, "edit")
                   [] key = "down" -> FindForward(S, o, "edit")
                   [] OTHER -> o
    IN  /\ Told(a, Answer(found))
        /\ Leave(IF key = "return" /\ d # Root THEN chosen ELSE S)
        /\ UNCHANGED <<form, alert>>

\* OBJC_EDIT at a position the client gives.
ObjcEdit(a, o, i, key) ==
    LET new == Edited(text[a][o], i, key)
    IN  /\ "edit" \in Flags[a][o]
        /\ Told(a, Answer(new[2]))
        /\ text' = [text EXCEPT ![a][o] = new[1]]
        /\ UNCHANGED <<form, look, defaults, alert>>

\* A client clears the selected exits of its form for the next time, as
\* clients must.
FormReset(a) ==
    /\ reply[a].st = "done"
    /\ look' = [look EXCEPT ![a] = [o \in ObjectsOf(a) |->
                  IF "exit" \in Flags[a][o] THEN @[o] \ {"sel"} ELSE @[o]]]
    /\ UNCHANGED <<form, defaults, text, alert>>

\* A client goes away, with its form and the alert.
FormDetach(a) ==
    /\ form' = [form EXCEPT ![a] = Free]
    /\ alert' = IF alert.owner = a THEN NoAlert ELSE alert
    /\ UNCHANGED treeVars

\* Another program comes with a fresh tree.
FormAttach(a) ==
    /\ look' = [look EXCEPT ![a] = [o \in ObjectsOf(a) |-> {}]]
    /\ defaults' = [defaults EXCEPT ![a] = Initial[a]]
    /\ text' = [text EXCEPT ![a] = [o \in ObjectsOf(a) |-> 0]]
    /\ UNCHANGED <<form, alert>>

FormCalls(a) ==
    \/ \E o \in ObjectsOf(a) : FormDo(a, o)
    \/ \E al \in Alerts : FormAlert(a, al)
    \/ \E o \in ObjectsOf(a) :
        \/ FormButton(a, o)
        \/ \E key \in {"return", "up", "down", "char"} : FormKeybd(a, o, key)
        \/ \E i \in 0 .. Limit, key \in EditKeys \cup {"init"} : ObjcEdit(a, o, i, key)
=============================================================================
