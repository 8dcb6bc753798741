------------------------------ MODULE GemInput ------------------------------
(***************************************************************************)
(* Keyboard and mouse (gem_input.c, gem_kbd_raw.c, gem_mouse_ms.c,         *)
(* gem_mouse_amstrad.c).  Scan codes and the three bytes of a mouse packet *)
(* come one at a time; each poll takes some and reports at most one        *)
(* movement and one key.  The keypad may stand in for the mouse: Ctrl and  *)
(* the right Shift switch it on and off, Home clicks, End holds.           *)
(*                                                                         *)
(* One axis and the left button stand for both.  A byte of a packet is its *)
(* place in the packet, its packet's turn (odd or even) and what it says;  *)
(* letters are one key.                                                    *)
(***************************************************************************)
EXTENDS Integers, FiniteSets, SequencesExt

CONSTANTS
    Keys,      \* the keys that are used with each mouse
    Moves,     \* movements of the mouse
    Xres,      \* gem_input_screen->xres
    Fast,      \* GEM_KBD_MOUSE_FAST_X
    KeyBytes,  \* GEM_INPUT_BUFFER_SIZE: scan codes looked at in one poll
    MouseBytes,\* GEM_MOUSE_BUFFER_SIZE: mouse bytes looked at in one poll
    MaxKeys,   \* bound of the model on the scan codes under way
    MaxLine,   \* bound of the model on the mouse bytes under way
    MaxHeld,   \* bound of the model on the keys held at once
    MaxLost    \* mouse bytes lost at most

KeyNames ==
    {"lshift", "rshift", "lctrl", "rctrl", "alt", "left", "right", "home", "end",
     "grey left", "letter", "button"}

\* No more than one byte is lost: from two packets in a row that each lose one,
\* 0 1 and then 1 2, the code does put a movement together.
ASSUME InputAssumption ==
    /\ Keys \in [{"ms", "amstrad", "none"} -> SUBSET KeyNames]
    /\ Moves \subseteq Int /\ Xres \in Nat \ {0} /\ Fast \in Int
    /\ KeyBytes \in Nat /\ MouseBytes \in Nat
    /\ MaxLost \in {0, 1}

VARIABLES
    protocol,  \* gem_mouse_protocol, or "none" if no mouse is active
    held,      \* keys and mouse button that are down
    keys,      \* scan codes not read yet: the line's and gem_keyboard_buffer
    raw,       \* the decoder: gem_kbd_e0 and the modifiers
    pad,       \* the keypad as a mouse: gem_kbd_mouse_...
    amstrad,   \* gem_amstrad_buttons
    line,      \* mouse bytes not read yet: the line's and gem_mouse_buffer
    packet,    \* gem_ms_packet
    pointer,   \* gem_mouse_x and gem_mouse_buttons
    \* what the properties look at
    owed,      \* keys pressed and not taken yet
    real,      \* the button as the last packet or scan code said
    mixed,     \* whether a movement was put together from two packets
    turn,      \* of the next packet
    lost       \* bytes lost

inputVars == <<protocol, held, keys, raw, pad, amstrad, line, packet, pointer, owed, real, mixed,
               turn, lost>>

Modifiers == {"lshift", "rshift", "ctrl", "alt"}
MouseKeys == {"left", "right", "home", "end"}
Ordinary == MouseKeys \cup {"letter"}

Atmost(a, b) == IF a < b THEN a ELSE b

----------------------------------------------------------------------------
(* The keyboard's side: what a key sends.  A grey key sends a prefix and   *)
(* the code of its twin, with a Shift nobody pressed around it.            *)

Sends(key, way) ==
    CASE key = "lctrl" -> <<<<"ctrl", way>>>>
      [] key = "rctrl" -> <<<<"e0", "down">>, <<"ctrl", way>>>>
      [] key = "grey left" ->
            IF way = "down"
            THEN <<<<"e0", way>>, <<"lshift", way>>, <<"e0", way>>, <<"left", way>>>>
            ELSE <<<<"e0", "down">>, <<"left", way>>, <<"e0", "down">>, <<"lshift", way>>>>
      [] OTHER -> <<<<key, way>>>>

KeyDown(key) ==
    /\ key \notin held /\ Cardinality(held) < MaxHeld
    /\ Len(keys \o Sends(key, "down")) <= MaxKeys
    /\ held' = held \cup {key}
    /\ keys' = keys \o Sends(key, "down")
    /\ owed' = IF key \in Ordinary \cup {"grey left"} THEN owed + 1 ELSE owed
    /\ UNCHANGED <<protocol, raw, pad, amstrad, line, packet, pointer, real, mixed, turn, lost>>

KeyUp(key) ==
    /\ key \in held
    /\ Len(keys \o Sends(key, "up")) <= MaxKeys
    /\ held' = held \ {key}
    /\ keys' = keys \o Sends(key, "up")
    /\ UNCHANGED <<protocol, raw, pad, amstrad, line, packet, pointer, owed, real, mixed, turn, lost>>

\* The mouse sends a packet, of which one byte may be lost.
MouseSends(move, left, drop) ==
    /\ protocol = "ms"
    /\ Len(line) + 3 <= MaxLine
    /\ drop > 0 => lost < MaxLost
    /\ line' = line \o RemoveAt(<<[place |-> 0, turn |-> turn, left |-> left, move |-> 0],
                                  [place |-> 1, turn |-> turn, left |-> FALSE, move |-> move],
                                  [place |-> 2, turn |-> turn, left |-> FALSE, move |-> 0]>>,
                                drop)
    /\ lost' = IF drop > 0 THEN lost + 1 ELSE lost
    /\ turn' = 1 - turn
    /\ UNCHANGED <<protocol, held, keys, raw, pad, amstrad, packet, pointer, owed, real, mixed>>

----------------------------------------------------------------------------
(* The decoder *)

\* gem_kbd_raw_scancode: modifiers and the prefix.
RawScancode(r, code) ==
    CASE code[1] = "e0" -> [r EXCEPT !.e0 = TRUE]
      [] code[1] \in Modifiers /\ ~(r.e0 /\ code[1] \in {"lshift", "rshift"}) ->
            [e0 |-> FALSE,
             mods |-> IF code[2] = "down" THEN r.mods \cup {code[1]} ELSE r.mods \ {code[1]}]
      [] OTHER -> [r EXCEPT !.e0 = FALSE]

Pressed(code) == code[1] \in Ordinary /\ code[2] = "down"

\* gem_kbd_mouse_combo: the last of Ctrl and Shift switches on the way up.
KbdMouseCombo(k, mods) ==
    LET combo == {"ctrl", "rshift"} \subseteq mods
        off == k.on /\ k.button
    IN  CASE combo = k.combo -> k
          [] combo /\ ~k.combo -> [k EXCEPT !.combo = TRUE, !.armed = TRUE]
          [] ~combo /\ k.combo /\ ~k.armed -> [k EXCEPT !.combo = FALSE]
          [] OTHER -> [k EXCEPT !.combo = FALSE,
                                !.armed = FALSE,
                                !.on = ~@,
                                !.button = @ /\ ~off,
                                !.release = @ /\ ~off,
                                !.event = @ \/ off]

\* gem_kbd_mouse_key: a key that stands in for the mouse.
KbdMouseKey(k, key, mods) ==
    LET step == IF mods \cap {"lshift", "rshift"} # {} THEN 1 ELSE Fast
    IN  [k EXCEPT !.dx = CASE key = "left" -> @ - step
                           [] key = "right" -> @ + step
                           [] OTHER -> @,
                  !.button = @ \/ key \in {"home", "end"},
                  !.release = IF key \in {"home", "end"} THEN key = "home" ELSE @,
                  !.event = TRUE]

\* A key is taken by the keypad, or goes to the AES.
MovesMouse(k, code) == Pressed(code) /\ k.on /\ code[1] \in MouseKeys
Reported(k, code) == Pressed(code) /\ ~MovesMouse(k, code)

\* One code: the Amstrad's button rides among the keys.
Decoded(s, code) ==
    IF protocol = "amstrad" /\ code[1] = "button"
    THEN [s EXCEPT !.amstrad = (code[2] = "down")]
    ELSE LET r == RawScancode(s.raw, code)
             k == KbdMouseCombo(s.pad, r.mods)
         IN  [s EXCEPT !.raw = r,
                       !.pad = IF MovesMouse(k, code) THEN KbdMouseKey(k, code[1], r.mods) ELSE k]

\* gem_keyboard_get_byte: what was read and not looked at stays for the next.
Rest(codes, n) == SubSeq(codes, n + 1, Len(codes))

\* How many of the first elements of a stream are taken in one poll: up to the
\* first at which something is to be reported.
Taken(all, Ends(_)) ==
    IF \E i \in 1 .. all : Ends(i)
    THEN CHOOSE i \in 1 .. all : Ends(i) /\ \A j \in 1 .. i - 1 : ~Ends(j)
    ELSE all

\* The decoder behind each of the codes, after the mouse has left the keypad
\* as k.
Decoding(k) ==
    LET After[n \in 0 .. Len(keys)] ==
            IF n = 0 THEN [raw |-> raw, pad |-> k, amstrad |-> amstrad]
            ELSE Decoded(After[n - 1], keys[n])
    IN  After

\* gem_vdi_read_keyboard
ReadKeyboard(k) ==
    LET After == Decoding(k)
        Ends(n) == Reported(After[n - 1].pad, keys[n])
        n == Taken(Atmost(Len(keys), KeyBytes), Ends)
        moves == {i \in 1 .. n : MovesMouse(After[i - 1].pad, keys[i])}
        reports == {i \in 1 .. n : i = n /\ Ends(i)}
    IN  /\ raw' = After[n].raw
        /\ pad' = After[n].pad
        /\ amstrad' = After[n].amstrad
        /\ keys' = Rest(keys, n)
        /\ owed' = owed - Cardinality(moves \cup reports)

----------------------------------------------------------------------------
(* The mouse *)

\* gem_mouse_ms_parse: a first byte always starts a packet.
MsParse(p, byte) ==
    CASE byte.place = 0 -> <<byte>>
      [] byte.place # 0 /\ p = <<>> -> <<>>
      [] OTHER -> Append(p, byte)

Accelerate(delta) == IF delta > 5 \/ delta < -5 THEN 2 * delta ELSE delta

\* gem_mouse_publish
Publish(at, delta, left) ==
    LET x == at.x + delta
    IN  [x |-> IF x < 0 THEN 0 ELSE IF x >= Xres THEN Xres - 1 ELSE x, left |-> left]

\* gem_mouse_apply: the first real movement switches the keypad off.
Apply(s, delta, left) ==
    LET first == delta # 0 /\ ~s.pad.seen
    IN  [s EXCEPT !.pad.seen = @ \/ first,
                  !.pad.on = @ /\ ~first,
                  !.pointer = Publish(s.pointer, Accelerate(delta), left \/ s.pad.button),
                  !.real = left]

\* One byte of the line.
Heard(s, byte) ==
    LET p == MsParse(s.packet, byte)
    IN  IF Len(p) < 3 THEN [s EXCEPT !.packet = p]
        ELSE [Apply(s, p[2].move, p[1].left) EXCEPT
                !.packet = <<>>,
                !.mixed = @ \/ \E i \in 1 .. 3 : p[i].place # i - 1 \/ p[i].turn # p[1].turn]

\* The keypad's part of gem_vdi_read_mouse: a click is let go one poll later.
PadReport(s) ==
    LET click == s.pad.button /\ s.pad.release
    IN  [s EXCEPT !.pad.dx = 0,
                  !.pad.button = @ /\ ~click,
                  !.pad.release = @ /\ ~click,
                  !.pad.event = click,
                  !.pointer = Publish(s.pointer, s.pad.dx, s.pad.button)]

\* The mouse behind each of the bytes.
Hearing(begin) ==
    LET After[n \in 0 .. Len(line)] ==
            IF n = 0 THEN begin ELSE Heard(After[n - 1], line[n])
    IN  After

\* gem_vdi_read_mouse: the keypad, else what the Amstrad's counters hold, else
\* packets up to the first that changes something.
ReadMouse(counted) ==
    LET mouse == [pad |-> pad, packet |-> packet, pointer |-> pointer, real |-> real,
                  mixed |-> mixed, line |-> line]
        begin == IF pad.event THEN PadReport(mouse) ELSE mouse
        After == Hearing(begin)
        Ends(n) == After[n].pointer # After[n - 1].pointer
        n == Taken(Atmost(Len(line), MouseBytes), Ends)
    IN  CASE begin.pointer # pointer \/ protocol = "none" -> begin
          [] begin.pointer = pointer /\ protocol = "amstrad" -> Apply(begin, counted, amstrad)
          [] OTHER -> [After[n] EXCEPT !.line = Rest(line, n)]

----------------------------------------------------------------------------

InputInit ==
    /\ protocol \in {"ms", "amstrad", "none"}
    /\ held = {}
    /\ keys = <<>>
    /\ raw = [e0 |-> FALSE, mods |-> {}]
    /\ pad = [on |-> TRUE, armed |-> FALSE, seen |-> FALSE, combo |-> FALSE, dx |-> 0,
              button |-> FALSE, release |-> FALSE, event |-> FALSE]
    /\ amstrad = FALSE
    /\ line = <<>>
    /\ packet = <<>>
    /\ pointer = [x |-> Xres \div 2, left |-> FALSE]
    /\ owed = 0
    /\ real = FALSE
    /\ mixed = FALSE
    /\ turn = 0
    /\ lost = 0

\* gem_vdi_resident_poll_input: the mouse and then the keyboard.  "counted" is
\* what the Amstrad's counters hold.
PollInput(counted) ==
    /\ LET mouse == ReadMouse(counted)
       IN  /\ packet' = mouse.packet
           /\ pointer' = mouse.pointer
           /\ real' = mouse.real
           /\ mixed' = mouse.mixed
           /\ line' = mouse.line
           /\ ReadKeyboard(mouse.pad)
    /\ UNCHANGED <<protocol, held, turn, lost>>

InputNext ==
    \/ \E key \in Keys[protocol] : KeyDown(key) \/ KeyUp(key)
    \/ \E move \in Moves, left \in BOOLEAN, drop \in 0 .. 3 : MouseSends(move, left, drop)
    \/ \E counted \in (IF protocol = "amstrad" THEN Moves ELSE {0}) : PollInput(counted)

InputSpec == InputInit /\ [][InputNext]_inputVars

----------------------------------------------------------------------------
(* Properties *)

\* gem_mouse_ms.c: "the stream resyncs after a lost byte": no movement is put
\* together from the bytes of two packets.
PacketsAreWhole == ~mixed

\* gem_kbd_raw_scancode: with every code read, the modifiers are those of the
\* keys that are down, whatever Shifts the grey keys brought along.  (The two
\* Ctrl keys share a flag, which goes with the first of them.)
ModifiersFollowKeys ==
    keys = <<>> =>
        /\ ~raw.e0
        /\ raw.mods \cap {"lshift", "rshift"} = held \cap {"lshift", "rshift"}
        /\ "ctrl" \in raw.mods => held \cap {"lctrl", "rctrl"} # {}

\* gem_kbd_mouse_key, gem_kbd_mouse_combo, gem_mouse_apply: a button that the
\* mouse does not hold is held by the keypad, or is about to be let go.
NoButtonIsLeftDown == pointer.left => real \/ pad.button \/ pad.event

\* gem_mouse_publish
PointerIsOnScreen == pointer.x \in 0 .. Xres - 1

\* gem_vdi_read_keyboard: "buffers persist so no key is lost": the keys not
\* taken by the keypad nor reported are all still to be read.
NoKeyIsLost == owed = Cardinality({i \in DOMAIN keys : Pressed(keys[i])})

InputSafety ==
    /\ PacketsAreWhole
    /\ ModifiersFollowKeys
    /\ NoButtonIsLeftDown
    /\ PointerIsOnScreen
    /\ NoKeyIsLost
=============================================================================
