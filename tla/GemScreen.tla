------------------------------ MODULE GemScreen ------------------------------
(***************************************************************************)
(* Forms and trackers together, and how a poll routes a sample of the      *)
(* mouse and the keyboard (gem_aes_resident_poll): it belongs to the owner *)
(* of the top window, whose form takes it, or else the menu, or else its   *)
(* tracker, and what none of them holds goes to the windows or the events. *)
(*                                                                         *)
(* A sample the menu takes changes nothing here and is left out; whether   *)
(* it reaches a gadget of a window or the events is left open.             *)
(***************************************************************************)
EXTENDS GemForm, GemGraf

CONSTANTS
    Desk,     \* the Desktop, which gets what belongs to nobody
    ObjectAt, \* the object of each client's tree at each position
    ButtonAt, \* the button of an alert at each position
    Samples   \* the samples the user makes: x, down, key

ASSUME ScreenAssumption ==
    /\ Desk \in Apps
    /\ \A s \in Samples :
         /\ s.x \in Int /\ s.down \in BOOLEAN
         /\ \A a \in Apps : ObjectAt[a][s.x] \in DOMAIN Flags[a] \cup {-1}

VARIABLES
    top,  \* the owner of the top window
    evnt  \* the last sample the event manager has seen, and its owner

screenVars == <<modalVars, formVars, grafVars, top, evnt>>

ScreenInit ==
    /\ ModalInit /\ FormInit /\ GrafInit
    /\ top = Desk
    /\ evnt = [owner |-> NoApp, down |-> FALSE]

\* The client a sample is given to.
Receiver == IF top \in live THEN top ELSE Desk

PollForm(s) ==
    LET a == Receiver
    IN  /\ \/ FormSample(a, ObjectAt[a][s.x], s.down, s.key)
           \/ \E repainted \in BOOLEAN :
                AlertSample(a, IF ButtonAt[s.x] \in 1 .. alert.n THEN ButtonAt[s.x]
                               ELSE Nil, s.down, s.key, repainted)
        /\ UNCHANGED <<grafVars, top, evnt>>

\* While a tracker is held, the windows and the events see nothing.
PollRest(s, gadget) ==
    LET a == Receiver
    IN  /\ a \in live /\ form[a].kind = "free"
        /\ Tracking(a) => ~gadget
        /\ GrafSample(a, s.x, s.down)
        /\ evnt' = IF Tracking(a) \/ gadget THEN evnt
                   ELSE [owner |-> a, down |-> s.down]
        /\ UNCHANGED <<formVars, top>>

Poll == \E s \in Samples : PollForm(s) \/ \E gadget \in BOOLEAN : PollRest(s, gadget)

\* A client opens, tops or closes its window.
WindowTop(a, new) ==
    /\ a \in {top, new} /\ Call(a) /\ top' = new
    /\ UNCHANGED <<live, lock, reply, formVars, grafVars, evnt>>

\* A client reads its answer, and clears its exits after a form.
Read(a) ==
    /\ TakeReply(a)
    /\ \/ FormReset(a)
       \/ reply[a].st = "failed" /\ UNCHANGED formVars
    /\ UNCHANGED <<grafVars, top, evnt>>

\* gem_aes_resident_exit: forms, then trackers, then the lock.
Detach(a) ==
    /\ ModalDetach(a) /\ FormDetach(a) /\ GrafDetach(a)
    /\ top' \in IF top = a THEN (live \ {a}) \cup {NoApp} ELSE {top}
    /\ UNCHANGED evnt

Attach(a) == ModalAttach(a) /\ FormAttach(a) /\ UNCHANGED <<grafVars, top, evnt>>

ScreenNext ==
    \/ Poll
    \/ \E a \in Apps :
        \/ FormCalls(a) /\ UNCHANGED <<grafVars, top, evnt>>
        \/ GrafCalls(a) /\ UNCHANGED <<formVars, top, evnt>>
        \/ (LockTake(a) \/ LockGive(a)) /\ UNCHANGED <<formVars, grafVars, top, evnt>>
        \/ Read(a) \/ Detach(a) \/ Attach(a)
        \/ \E new \in live : WindowTop(a, new)

ScreenSpec == ScreenInit /\ [][ScreenNext]_screenVars

----------------------------------------------------------------------------
(* Properties *)

InForm(a) == form[a].kind # "free"
Drawing(a) == Tracking(a) /\ track[a].op # "watch"

\* A client's call is held exactly while it has a form or a tracker, never
\* both, and all but a watched box own the screen meanwhile.
HeldForModal ==
    \A a \in Apps :
        /\ reply[a] = Held <=> InForm(a) \/ Tracking(a)
        /\ ~(InForm(a) /\ Tracking(a))
        /\ InForm(a) \/ Drawing(a) => lock.owner = a
        /\ InForm(a) /\ form[a].kind # "do" <=> alert.owner = a

\* What is on the screen in XOR mode is the outline of the trackers: none is
\* left behind by a move, an animation, an answer, a refusal or a death.
OutlinesMatch == lines = {track[a].rect : a \in {b \in Apps : track[b].shown}}

\* A dragged box stays in its constraint and on the screen, a rubber box
\* on the screen.
BoxesStayInside ==
    \A a \in Apps :
        LET t == track[a]
        IN  /\ Drawing(a) => t.rect.x \in 0 .. Width - 1
            /\ t.op \in {"drag", "slide"} =>
                 t.rect.x >= t.cons.x /\ t.rect.x + t.rect.w <= t.cons.x + t.cons.w
            /\ t.op = "rub" => t.rect.x + t.rect.w <= Width

\* The edited text ends before its buffer does, and the place of the next
\* key is in it.
TextsFit ==
    \A a \in Apps :
        /\ \A o \in ObjectsOf(a) : text[a][o] \in 0 .. Limit - 1
        /\ form[a].kind = "do" => form[a].index \in 0 .. text[a][form[a].edit]

\* Of the radio buttons of a box at most one is selected.
OneRadio ==
    \A a \in Apps : \A o, p \in ObjectsOf(a) :
        /\ "radio" \in Flags[a][o] \cap Flags[a][p] /\ o # p
        /\ Parent[a][o] = Parent[a][p]
        => ~("sel" \in look[a][o] /\ "sel" \in look[a][p])

ScreenSafety ==
    HeldForModal /\ OutlinesMatch /\ BoxesStayInside /\ TextsFit /\ OneRadio

\* FORM_DO answers an object that ends a form: a TOUCHEXIT, or an EXIT that
\* is selected; and then the default the form had at first is marked again.
AnswerIsExit ==
    [][\A a \in live' : form[a].kind = "do" /\ form'[a].kind = "free" =>
         LET o == reply'[a].out
         IN  /\ \/ "touch" \in Flags[a][o]
                \/ "exit" \in Flags[a][o] /\ "sel" \in look'[a][o]
             /\ form[a].saved # Root => form[a].saved \in defaults'[a]]_screenVars
=============================================================================
