# Gem-elks in TLA+

Gem-elks runs the GEM Desktop and several GEM applications on ELKS.  One
process, the *server* (`src/src/server/gem_main.c`), contains the resident AES
(windows, events, menus, forms, messages) and the VDI (drawing and input).
Client processes reach it over a UNIX socket, one blocking request at a time.
This directory holds TLA+ modules of it, TLC configurations that check them on
small instances, and TLAPS proofs for all instances.

Source paths below are those of the repository (`src/src/...` here is
`src/...` there).  `PROJECT.json` says for every definition which lines it
translates.

## 1. The system

| Part | Source | State | What is hard | Correct when |
|---|---|---|---|---|
| Server loop | `server/gem_main.c` | client table (descriptor, frame bytes, pid, generation, *waiting*), signal flags, timer | signals between any two steps; partial frames; exit, end of file and SIGCHLD in any order; reuse of channels | no request lost or answered twice, none answered to a later client, the clock never stops, dead children are reaped, well-behaved clients are kept |
| Pending slots and lists | `aes/gem_pending.c` | one slot per channel, intrusive FIFOs: READY, lock waiters, readers and writers per queue | one `next` byte for all lists; removal anywhere; serving in order | links are well formed and mean sequences; every held call is on the list that will finish it |
| Update lock | `aes/gem_startup_resident.c`, `gem_aes_tick.c` | owner, depth per channel, generation per record, FIFO of waiters | nesting, hand-off on release, exit and crash, channel reuse | one attached owner, hand-off in order, never idle with waiters |
| Attachment, messages | `aes/gem_aes_resident.c` | PD per channel with its generation, 128 bytes of messages each | teardown in several steps, some of which can fail; full and empty queues | a dead client leaves nothing behind; nothing that could be finished stays parked |
| Tick | `aes/gem_aes_tick.c` | none of its own | who gets a sample: menu, form, tracker, window, event | each wait whose condition holds is answered |
| Forms, alerts, trackers | `gem_form_`, `gem_alert_`, `gem_graf_resident.c` | one record per client | they hold the lock over many ticks and draw into what others own | level taken = level given back, no outline left, answers are exits |
| Windows | `aes/gem_window_resident.c` | table, z-order, visible pieces from one pool of 120 rectangles, one gesture | pool exhaustion, undo, walks and gestures that span calls of others | the pieces are what nothing above hides, what comes into sight is redrawn |
| Events | `aes/gem_event_resident.c` | wait per client, click and timer state | click counting, timers in two words | a wait is answered once, for a reason it asked for |
| Menus | `aes/gem_menu_*.c` | bar, pull-down, registrations | highlights written into the client's own tree; death of the owner | nothing of a dead client is referred to, every choice is told |
| Objects, resources, selector | `gem_object_`, `gem_resource_`, `gem_fsel_resident.c`, `gem_far_resource_elks.c` | trees in client memory, far segments | linked trees, relocation in place, shared single selector | a tree is a forest, nothing is relocated twice, no segment is lost |
| VDI | `vdi/`, `drivers/` | workstations, cursor, fonts, one adapter | cursor over the picture, clips of several clients, rounding | the picture is what was drawn, clipped to the drawer's own clip |
| Input | `vdi/gem_input.c`, `gem_kbd_raw.c`, `gem_mouse_*.c` | packet phase, buttons, keypad mouse | bytes lost, several sources | no button or shift invented, packets resynchronise |
| IRC client | `apps/gem_irc*.c` | socket, session, tabs, roster, scrollback, input line, window | short writes, cut lines, commands crossing the server's events | bytes in order, roster of the open channel, view in range |
| Desktop | `aes/opengem/desk*.c`, `desktop/gemdos_posix.c` | folder windows, searches, copies | calls that fail in the middle, nested walks | windows list what is there, a refused copy does no harm |
| Bindings | `bindings/` | one socket per process | reconnection | one request at a time |

How they interact.  `main` of the server loops: timer tick -> `gem_aes_resident_poll`,
READY calls -> replies, dead children -> drops, `select` -> accept and read.  A
whole frame is dispatched to the AES, which answers at once or parks the call
in the channel's slot; whatever runs later (another call, the tick, the death
of a client) completes the slot and puts it on READY.  A connection has a
*generation*; PDs, slots and startup records carry it, and it is what tells a
client from its successor on the same channel.  Forms, trackers and menus take
a level of the update lock and draw through the VDI; the window manager's
effects become messages in the queues of the owners.  Programs see all of it
only through their bindings.

## 2. The modules

| Module | Models | Run |
|---|---|---|
| `GemFifo` | what a FIFO of channels is, and removal from one | used by many |
| `ScreenLock` | *abstract*: a lock with a line, first come first served | refined by `GemUpdateLock` and `GemCalls` |
| `GemUpdateLock` | the update lock: nesting depths, record generations, modal levels, teardown | UpdateLock |
| `GemPendingLists` | *abstract*: sequences of channels | refined by the next |
| `GemPendingLinks` | the intrusive lists, by `next`, `head`, `tail` | Structures |
| `GemCalls` | slots, queues, pump, lock, forms, event waits, attachment, exit, tick | Calls, LostWakeup |
| `GemServer` | the server loop, signals, connections, client processes | Server |
| `GemEvent` | the EVNT_* waits: keys, clicks, rectangles, messages, timers | Windows, UpdateLock |
| `GemRect`, `GemWindow` | rectangles; the window manager: tree, pieces, redraws, calls, gestures | Windows |
| `GemFrame` | the frame of one window by the pixel: gadgets, sliders, elevators | Windows |
| `GemMenu` | menu bar, pull-downs, accessories, highlights | Menus |
| `GemModal` | what forms and trackers share: calls, lock levels, the sample | Screen |
| `GemForm`, `GemGraf` | dialogs and alerts; trackers and box animations | Screen |
| `GemScreen` | *composes* the two with the routing of samples | Screen |
| `GemForest` | *abstract*: a tree with ordered children | refined by the next |
| `GemObject` | object trees by `ob_next`, `ob_head`, `ob_tail`: OBJC_* | Structures |
| `GemSelector` | resources and far segments, and the file selector that uses them | Structures |
| `GemVdi` | cursor, save-under, workstations, attributes, clips | Devices |
| `GemInput` | keyboard, keypad mouse, three kinds of mouse | Devices |
| `GemFont` | the font table and the selection of a size | Devices |
| `GemRaster` | lines, rectangles, polygons, forms and copies as bytes, masks and loops | Devices |
| `GemText` | text measured, justified, scaled, styled and turned | Devices |
| `GemIrcLink` | the IRC client's socket, lines, registration, session | Programs |
| `GemIrcTabs` | tabs, roster, nickname | Programs |
| `GemIrcText`, `GemIrcInput`, `GemIrcScreen` | transcript and ring; input line and history; what must be drawn | Programs; ScrolledView |
| `GemDesk` | Desktop windows, lists, copies, deletions, new folders over GEMDOS | Programs, WholeFolder |
| `MC*` | instances for TLC; most hold several *scenes*, independent parts of which one at a time is at work (`scene`) | |
| `*Proofs` | TLAPS proofs about the module of that name | section 4 |

### State and code

**GemUpdateLock.** `conn` is the generation of a channel's open connection,
`attached` that of its PD, `bound` and `depth` the startup record
(`GEM_STARTUP_PD`), `owner` is `gem_startup_update_owner`, `waiters` the FIFO,
`parked` the generation of a WAITING BEG_UPDATE slot, `modal` the channels
that hold a form or tracker.  `BeginTake`, `BeginRefused`, `BeginPark` are the
outcomes of BEG_UPDATE; `ApplExit`, `Hangup`, `HangupAbandoned` the teardowns,
the last one the early return of `gem_aes_resident_exit`.

**GemCalls.** The resident's state is one record `aes`, so that the helpers of
the code, which call each other in the middle of a handler, are operators from
record to record with the names of the code (`Park`, `Complete`,
`QueueProgress`, `UpdateProgress`, `Drop`, `Detach`).  A request is one action
followed by `Poll`, as in `gem_server_dispatch`.  Bytes are counted and not
stored; which windows a redraw concerns is any set of attached PDs.  `Used`
selects the kinds of call the clients make; `REINIT`, a second APPL_INIT with a
bad XBUF, is in no run (see the disagreements).

**GemEvent.** `ev.pd` are the clients' records (`GEM_EVENT_PD`), `mouse` the last
sample with its owner and the saved transition, `batch` the clicks being
counted, `done` the last batch, `rate` the double click rate.  The code numbers
transitions and batches and compares the numbers; the model keeps for each wait
whether they changed since it was armed, so a wrap of a 16-bit number during one
wait is not seen.  One mouse button; a rectangle is the set of places at which
its wait is met.  A request sets `due`, and only its poll can follow.

**GemServer.** One step of `main` per action, `pc` is the place in the loop.
`Alarm`, `ExitDone` (SIGCHLD) and `Terminate` are the signal handlers and may run
between any two steps.  `proc`, `link`, `wrote`, `up`, `down` are the client
processes, their ends of the connections, and the pieces of frames on the way.
The AES behind holds calls and finishes any of them whenever it runs.

**GemWindow, GemFrame.** `win` the slots, `order` and `top` the tree, `pieces` the
lists `first_rect`, `next` the cursors `next_rect`, `free` the length of the
free list, `short` is `rect_overflow`, `control` the live gesture; `effects` is
`GEM_WINDOW_EFFECTS` of the last call with its result.  Geometry is exact, down
to the order in which pieces are cut.  In `GemWindow` a sample in a frame may
hit any gadget; `GemFrame` says which, by the pixel, and follows an elevator
from the press to the client's WIND_SET.

**GemMenu.** The trees are the clients'; `menu` is the manager's record, the
screen is what was painted of each title and row.  Effects are delivered only
if every queue has room; a refusal makes the code lose track of the picture,
which is why the run follows the screen up to the first refusal only
(`MCFollowed`).

**GemForm, GemGraf, GemScreen.** `held` are the calls, `lock` the owner with its
levels, `tree` the states of each dialog's objects, `form` and `tracker` the
clients' records, `shown` the outlines on the screen as a bag (XOR: drawn twice
is erased).  `Sample` is one poll with the routing of `gem_aes_resident_poll`.

**GemObject, GemSelector.** Object links as numbers with the cell that
loops back to the parent (`Met` is where a walk along `ob_next` gets); a file is a row of cells whose relocation is counted
per cell; the selector's list, box and path with names as character sequences,
because the code takes them apart.

**GemVdi.** `scr` holds video memory, picture, saved cells and cursor; `ws` the
workstations; the adapter's color, mode and clip are loaded from the station
before each drawing.  **GemInput** has one key-byte queue and one packet queue with
losses.  **GemFont**, **GemRaster**, **GemText** compute; each action is one call, and
the property compares its result with a definition of its own.

**GemIrc\*.** `net` is socket, peer and line assembler; `srv` the IRC server, which
acts later than the client's commands; `tabs` the buffers with their pointer
array; `view`, `pane` the ring of rows and what of it is shown; `ui` the masks of
`gem_irc_app.c`, `win` what is stale.  **GemDesk**: `fs` the files, `dos` the search
slots and fault budget, `desk` the windows with their lists, `job` the copy or
deletion with its stack of levels (`d_doop`), one step per entry.

## 3. What is checked

| Run | Instance | Properties |
|---|---|---|
| UpdateLock | lock: 3 channels, depth 2, 4 generations; events: a client and its successor, ring of 3, 2 keys | `TypeOK`, `LockSafety`, `ImplementsScreenLock`, `EveryWaiterLeaves`; `KeysInOrder`, `TimersEnd` |
| Structures | links: 4 slots, 2 lists; tree: 4 objects; selector: 2 clients, 3 segments | `WellLinked`, `ImplementsSequences`; `ObjectSafety`, `ImplementsForest`; `SelectorSafety` |
| Calls | 2 clients, queue of 3 bytes, messages of 2, calls of 1 and 3, depth 2, 3 generations | `CallSafety`, `PumpedDry`, `OldestFirst`, `PollServesMessages`, `ImplementsScreenLock` |
| Server | Desktop and 2 applications, one application channel, 2 generations, fair loop | `RequestSafety`, `TickIsNeverLost`, `ProtocolIsRespected`, `ChildrenAreReaped`, `RequestsAreTakenUp` |
| Windows | tree: 2 clients, 3 windows, 4 places, 8 by 6 cells, pool of 5; frame: one window, boxes of 3 pixels; clicks: 2 clients, 2 generations, 2 places, ticks of 2, words of base 3, rates 4 and 2 | `TreeSafety`, `WalksAreNotStale`, `FailureLeavesNoTrace`, `ExposedIsRedrawn`, `DragsAreReported`; `FrameSafety`; `EventSafety`, `BatchIsReported`, `TimersAreExact` |
| Menus | 2 applications, 2 titles, 1 accessory row, queue of 1, 2 calls | `MenuSafety`, `ChoicesAreTold` |
| Screen | 2 clients, dialogs, alerts, 4 trackers, 3 animations, width 3 | `ScreenSafety`, `AnswerIsExit` |
| Devices | 7 scenes: cursor, stations, attributes, input, fonts, raster, text | `VdiSafety`, `DeviceSafety`, `OwnClipsHold` |
| Programs | 7 scenes: link, tabs, scroll, wrap, line, window, desk | `TabSafety`, `ProgramSafety`, `ReaderKeepsPlace` |
| LostWakeup (violation) | 3 clients on queues of 2 bytes | `NothingFinishableIsParked` |
| WholeFolder (violation) | as Programs | `WholeFolderIsDone` |
| ScrolledView (violation) | the scroll scene with the ring of 12 rows, 15 rows arrive | `ScrolledViewIsStill` |

What the properties say, beyond a type invariant in each:

* `LockSafety`: the owner is attached under the generation of its record, whoever
  is in a form owns the lock, the line is the parked calls once each, and the lock
  is never free while somebody waits.  `CallSafety` says it of `GemCalls` too, and
  that every held call is on exactly the list that will finish it and belongs to
  the present connections of its client and its target.
* `PumpedDry`, `OldestFirst`, `PollServesMessages`: step by step, the pump leaves
  no oldest waiter that fits, waiters of a queue are served in order of arrival,
  and a message that is there answers the wait for it.
* `RequestSafety`: each request is at one place (client, wire, frame buffer, AES,
  reply), and what is held is held for the present connection.
* `EventSafety`, `BatchIsReported`, `TimersAreExact`: input state belongs to a
  client attached now; clicks that run out while the client keeps the input are
  reported with their count; two words count down as one number.
* `TreeSafety`: order and table agree, pieces are disjoint and exactly what nothing
  above hides (unless the pool is short), the pool loses no rectangle, gestures have
  windows.  `FailureLeavesNoTrace`: a failed call changes nothing but walks and the
  BROKEN flag of a covered window.
* `MenuSafety`: what is painted is what the trees say; `ChoicesAreTold`.
* `ScreenSafety`: holders hold the lock, outlines drawn are those of the one live
  tracker, boxes stay in their constraint, texts fit, radio buttons exclude each
  other.
* `VdiSafety`: video memory = picture + cursor, the cursor is up just while nothing
  hides it, workstations are owned, counted and clipped; `OwnClipsHold`: drawing uses
  the drawer's own clip and color.  `DeviceSafety`: packets whole, modifiers follow
  keys, no button left down; the font table in order and sizes found; lines,
  patterns, forms, polygons and copies are what direct definitions say; turned text
  is the text turned, and the inquired places are the drawn ones.
* `ObjectSafety`, `SelectorSafety`, `FrameSafety`: objects are drawn in order and found
  on top; the box shows the directory, one client has it, resources are relocated
  once; a frame's gadgets can all be met and its three computations agree.
* `TabSafety`: every tab of the IRC client has a buffer and a place of its own, and
  the roster follows the server's list of members.  `ReaderKeepsPlace`: while a
  reader has scrolled back, rows that arrive leave the scroll offset at the same rows
  of the text as long as the ring holds them, and closing a chat leaves another one on
  the screen.  It speaks of the place only: what is drawn for it goes through a second
  index, which is wrong (`ScrolledView`).
* `ProgramSafety`, IRC: lines go out whole, once and in order, and come in whole; a
  session is that of its connection; the rows hold the text and the ring its last
  rows; the line fits its buffer and the history holds the last lines; no change of
  the window is forgotten but the four known ones.
* `ProgramSafety`, Desktop: source path, destination path and searches of a walk stay in step;
  only what was selected, or what lies in the destination, changes; a copy leaves its
  sources as they were; what is reported done is done (but for inner folders, see
  `WholeFolder`) and its counters end at zero; windows show folders that exist, in
  order, with no list node lost, and nothing is left open when the Desktop is idle.

**Bounds.**  Three channels are the least with a holder and two waiters; four slots
allow a removal at the head, inside and at the tail with one more on the other
list.  Depth 2 has a nested level and the refusal at the maximum.  Three
generations let a channel be reused once while the other client lives.  A queue
of 3 with messages of 2 and calls of 1 and 3 bytes has full, empty,
too-full-for-a-message, and calls larger and smaller than a message.  One
application channel for two applications makes the table full.  A tick of 2
against timers of 4 and 5 ends timers on and between ticks, base 3 makes every
timer borrow.  In `Windows` two windows lie side by side, and the third covers the
screen or lies inside it across the other two: then it leaves four pieces of the
desktop, the most one cut can, and the two side by side cut pieces of pieces; a
pool of 5 holds not every arrangement, so calls, topping among them, fail and are
undone.  In `Menus` a queue of 1 refuses a menu's message; it refuses every choice
the second application would be told of, so its own choices are covered by the
theorems only, which are for queues of any size.  The cursor of two
cells in bytes of two lies on one byte, across two, or half off the screen.  The
Desktop has two trees, levels 2 with folders nested deeper, a search slot less
than it could use, 6 list nodes, one fault and one copy or deletion; its part was
also run once with two orders and no fault.  A write of the IRC client takes one byte
or fails; a write that takes none at all is a value of `Takes` that `Programs`
leaves out for time (it holds with {-1, 0, 1} too, in nearly twice the time).
`ScrolledView` has the ring of the code, since whether the AND is right depends on
its length.

No run checks deadlock: the bounds on generations, calls, orders and lines let every
scene come to a stop the program itself does not have.  A client that waits for
ever is what the liveness properties and `LostWakeup` are about.  Views
(`MCView`, listed in each MC module) leave out what no later step and no property
of the run reads; symmetry is used only in runs without liveness.

**Fairness.**  `EveryWaiterLeaves`: every holder in turn goes away (`HolderGoes`,
weakly fair); nothing in the code enforces that, so the property reads: *if*
holders let go, waiters get on, unless the holder is one the server itself
abandoned.  `TimersEnd`: the poll after a request always comes (`DuePoll`, weakly
fair); the timer fires for ever (`TickIsNeverLost` is the reason) and the loop
looks at it in every round, so `Poll(TickMs)` is strongly fair.
`ChildrenAreReaped`, `RequestsAreTakenUp`: the server process runs, and the kernel
finishes an exit it began.  Nowhere else is anything assumed of clients.

### Disagreements between code and comments

Three runs end in a counterexample.

* `LostWakeup`: two clients are parked on the queue of a third, the older for
  more bytes than there are, the younger for fewer.  The older hangs up;
  `gem_resident_drop_channel` unlinks it and does not pump, so the younger stays
  parked.  (`gem_pending.c:234`: "the pump below finishes it once the queue has
  drained or filled enough".)
* `WholeFolder`: a folder that has a folder in it is copied.  `d_doop` ends every
  turn in `dos_snext`, also right after `dos_sfirst` of the inner folder, so its
  first entry is passed over and the copy is reported done
  (`deskdir.c:644`; `deskdir.c:512`: "Directory routine to DO an operation on an
  entire sub-directory").  Deleting such a folder fails for the same reason.
* `ScrolledView`: twelve rows fill the ring, the user scrolls back, one more row
  arrives.  `gem_irc_app_append` moves the scroll offset along
  (`gem_irc_app.c:313`: "keep a scrolled view still"), but
  `gem_irc_app_visible_line` finds slots with `& 11` (`gem_irc_app.c:1712`: "32
  slots wrap with one AND"), right for powers of two only: slots 4 to 7 are read
  as 0 to 3, the new row overwrites one of those, and it is drawn among the old.
  Rows are also drawn twice and others not at all before the ring is full.

Others were met while modelling and have no run.  Resident AES:

* A client hangs up with an alert open while a queue concerned by the redraw is
  full: `gem_aes_resident_exit` returns at line 1955, before the PD is detached
  (`gem_aes_resident.c:693`: "a dying owner gets detached even if another PD
  queue is full").
* The Desktop's connection is dropped before its exit is reaped: channel 0 is given
  to new applications, which are refused (`README.md:4`: "up to four GEM
  applications at the same time").
* A window that is wholly covered has at most one piece and is not BROKEN;
  `gem_window_set_top` then sends no redraw (`gem_aes_resident.c:651`).
* APPL_INIT repeated with a bad XBUF (`gem_aes_resident.c:967`) detaches the PD
  without the sweep of line 1092, and its parked calls outlive it: with `REINIT` in
  `Used`, TLC finds `CallSafety` violated.
* Closing a window clears its gesture while the button is held
  (`gem_window_resident.c:1119`); the next sample counts as a new press (against
  `:2517`).
* `gem_aes_tick.c:314`: samples are not given to a modal form whose client does not
  own the top window.  GRAF_MKSTATE is stale after a form consumed the release.
  FORM_DO refused by the lock leaves the highlight and the DEFAULT mark changed; a
  restored `pressed_state` may be stale.  FORM_KEYBD RETURN selects a default radio
  button without clearing its neighbours.  GRAF_MOUSE 255 never copies the client's form.
  A slider box that begins outside its constraint is not moved inside at setup.
* The selector leaks its list segment and stays taken after a client's death in
  one of its steps; a double click is told as 0x4000 in one place and 0x8000 in
  another; its slider mixes absolute and relative y; long names are cut.
  `gem_object_every` has no bound on malformed trees; OBJC_CHANGE inverts hidden
  objects; an elevator that is set where it was dropped may creep by a pixel.

VDI and input: a cursor drawn while hidden by another path leaves a trail;
justified text can fall short of its length; a request for exactly 8 points
misses the system font; lines beyond some 10922 pixels never end; monochrome
copies invert; underlines of text turned by 180 or 270 degrees are misplaced;
measures leave out skew offsets and decide boldness of monospaced fonts
differently; VS_CLIP with nothing left turns clipping off; VQ_MOUSE and VQ_KEY
consume what they report; VSC_FORM does not move the hot spot; V_SHOW_C of a
fresh workstation undoes another's hide, and a client that hides and dies leaves
the cursor hidden; a request with a bad output pointer is carried out and then
refused; text attributes are global; a read error of the mouse drops the key;
End on the keypad mouse sticks; a keypad move drops held buttons; two Ctrl keys
share one flag.

IRC client: four pictures stay stale
(heading of a renamed chat, prompt after a change of nick by the server, "Online"
of a session registered anew, roster after a click on the active tab); `/nick` is
taken over at sending; a write that fails before the poll sees it skips the
roster's clearing; a rename can give two tabs one name; `/join` whose JOIN is
refused sends PART again; MODE never changes the roster; QUIT or PONG is lost when
both line buffers are busy; `/close` with a refused PART closes the program; Down
with no history wipes the draft; the scroll offset grows past its maximum; a nick
of 64 characters opens a nameless tab.

Desktop: a nested search that fails (also for want of a search slot: 9 DTAs share
8) counts as an empty folder; `deskdir.c:423` "get new name and go around to check
it" does not go around, so an existing file is overwritten and the same name
truncates the original; `like_parent` makes a folder called "*"; `d_dofcopy`
leaks handles on errors; names are cut to 12 characters; folders beyond the
deepest level and hidden ones are skipped silently; a refused `mkdir` is taken for
an existing folder; `fun_rebld` ignores the failure of `pn_active`; failed
operations do not rebuild windows, and `do_both` looks at two of four; closing a
window at the root reopens it; WM_CLOSED closes the top window whichever was
asked; a rename may replace a file.

## 4. What is proved

The proofs are for every value of the constants under the named assumptions of
the modules: a null value is no client, bounds are natural numbers, boxes lie on
the screen, a window is dragged to no less than the three boxes its borders, title and
information line take (the code's least is seven).  Three of them say something about the data the code is given.
`HotSpotAssumption`: the cursor forms of the resource have their hot spots inside.
`RadioAssumption`: no radio button of a dialog can become its default object, since
FORM_KEYBD selects that one without clearing the buttons beside it.
`SliderAssumption`: a slider begins in its box, since GRAF_SLIDEBOX moves it there only
with the mouse.  The instances satisfy them, and where they are needed section 3
lists what happens without.
`BuiltAssumption`: a client builds its object tree as a tree, no object twice among the
children, nor among its own; with anything else the walks of the code give up and draw
nothing.  What the calls make of that tree is no assumption, and may have cycles.
`InputAssumption`: of what the mouse sends at most one byte is lost, which is what
gem_mouse_ms.c is written for ("the stream resyncs after a lost byte").  From two
packets in a row that lose a byte each, the last of one and the first of the next, the
code does put one movement together.
The theorems of `GemCallsProofs` about calls have a hypothesis of their own, `"REINIT" \notin Used`: no
client repeats APPL_INIT with a bad XBUF, which really breaks them (section 3).

| Module | States | Inductive invariant |
|---|---|---|
| `GemFifoProofs` | lemmas on removal from a FIFO (`WithoutKeepsOthers`), least and greatest members | |
| `GemCallsProofs`, links | `WellLinked`, `ImplementsSequences` | the links from each head go along *some* sequence of different channels and stop behind it; such a sequence is unique, so each operation only has to name the new ones |
| `GemServerProofs` | `RequestSafety`, `TickIsNeverLost`, `ProtocolIsRespected` | a process has at most one place in the server and keeps it until the server gives it up; a channel about to be read has something to read; the books of the tick |
| `GemEventProofs` | `EventSafety`, `TimersAreExact`, `BatchIsReported`, and that the key ring is a FIFO | whoever holds the input has a record of its own generation, only such records hold waits, a timer still waited for has time left |
| `GemCallsProofs`, calls | `CallSafety`, `PumpedDry`, `OldestFirst`, `PollServesMessages`, `ImplementsScreenLock` | a channel is on just the lists that its slot says, once; calls and targets are of the present PDs; owner, depth and line agree. Helpers are related by `Runs`, which is transitive, so the proof of a handler follows its calls |
| `GemVdiProofs`, VDI | `VdiSafety`, `OwnClipsHold`'s core (`DrawingIsClipped`) | saved cells are exactly those around the drawn cursor, some of the cursor is always on the screen |
| `GemVdiProofs`, object trees | `ImplementsForest`, and of `ObjectSafety` the parts `RefusedOnlyInVain` and `FacesShowStates` (`TreesCanBeChanged`) | from the head of each object the links go along its list of children and back to it, and an object in no list has no link.  From that follows what each walk of the code finds (`ChildrenAre`, `PreviousIs`, `ParentIs`), and each call only has to show that its new links go along the list the forest would have (`HookedAlong`, `PassedAlong`) |
| `GemVdiProofs`, input | `InputSafety`, the scene of `DeviceSafety` about input (`InputIsSafe`) | the packet begun and the bytes under way miss at most one byte between them (`Heals`), so three bytes that begin with a first one are whole; the codes under way lead the decoder to the modifiers of the keys that are down (`Leads`, `Settled`), and as many of them are keys pressed as are owed |
| `GemScreenProofs`, forms and trackers | `ScreenSafety`, `AnswerIsExit`, `PathLeavesNothing` | an outline is shown only for a tracker that draws, which owns the lock, so there is one at most; handlers of a form are operators on one client's record that keep it good and end at exits |
| `GemScreenProofs`, update lock | `TypeOK`, `LockSafety`, `ImplementsScreenLock` | FIFO, slots and records agree; `Quiet` describes the moment between a release and its hand-off; from it the hand-off takes the first waiter or does nothing (`ProgressLive`, `ProgressQuiet`) |
| `GemMenuProofs` | `MenuSafety`, `ChoicesAreTold` | of all rows only the tracked one is selected, and it was not before its pull-down came to it; the worked menu is that of the bar; the screen shows the trees unless effects were refused. In the middle of a handler `Painting` says that the effects listed so far would show the pull-down and row that are tracked; every effect appended, and every object written under one, keeps that |
| `GemMenuProofs`, IRC tabs | `TabSafety`, `ShownTabStays` | no buffer has two places, a roster names nobody twice, and while the client hears the server the roster is its list (`Matches`); `Becomes` relates the rosters before and after a message. Assumed of the constants: two tabs, a place in the roster, `NONE` is no channel |
| `GemWindowProofs` | `TreeSafety`, `WalksAreNotStale`, `FailureLeavesNoTrace`, `ExposedIsRedrawn`, `DragsAreReported` | unless the last rebuild ran out of rectangles, another rebuild would change nothing (`Settled`); order, frames and the count of the pool are what a rebuild expects (`Good`). What a rebuild makes depends on order and frames alone (`RebuildTwins`), which is why an undone call restores everything; each step keeps, rearranges or reverts |

Loops of the code over channels are recursive functions in the modules.  The library's
induction theorems cannot be used with the provers there are, since they take an
operator; `Turns` in `GemFifoProofs` states the same for a *set* of numbers of turns
and follows from there being a least one outside it.  With the equation of the
recursive function (`PumpTurns`, `RebuildTurns` and others: such a function exists, by
the same argument) it proves what a loop keeps.


Most of the properties are not inductive by themselves, which is what the middle
column is about: the invariants add the facts about intermediate owners, records
and places that the properties rest on.  Each proof module begins with a paragraph
that says so, has one lemma per operation or per helper of the code, and ends with
the theorems.

**Model-checked only.**  All liveness (`EveryWaiterLeaves`, `TimersEnd`,
`ChildrenAreReaped`, `RequestsAreTakenUp`), which TLAPS 1.4.5 does not reach.
`GemIrcText` and `GemDesk` use RECURSIVE operators or `Bitwise`, with which no
theorem can be stated.  What folds and recursive
functions over data compute for every input (`GemRaster`'s loops, `GemFont`, `GemText`, relocation in `GemSelector`) is
checked over bounded inputs only.  So is what `Every` and `Find` of `GemObject` visit.
`GemFrame`, `GemIrcLink`, `GemIrcInput` and `GemIrcScreen` have no proofs.

## 5. Not modelled

Client memory and configuration (copies checked by range; a line parser run once);
the calculator, clock and viewer; the scrap directory; video ports, planes and
palettes, arcs and sound; marshalling of arguments.  System calls that fail for
want of kernel resources, except those of the Desktop; processes the server did not
start; reuse of pids.  Of menus MENU_TEXT and MENU_CLICK, of resources RSRC_SADDR.
Of the Desktop: other programs changing files meanwhile, cut names and paths,
renaming, launching programs, paths through a folder called "*", disk icons, info
dialogs, window layout and the saved desktop.  Of the IRC client `--smoke-once`.

## 6. What is left

The model is complete but for the parts of section 5.  What could still be proved:

1. Of `ObjectSafety` the parts `DrawnInOrder` and `FoundOnTop`: that the loop of
   `gem_object_every` visits a tree in preorder.  It is a statement about a recursive
   definition for every depth, and the argument would have to be made over the stack
   of `at` for trees that the calls have made circular as well.
2. The scene of `ProgramSafety` about `GemIrcLink` (lines whole and in order).

`FrameSafety` is a statement about one frame's pixels for given bounds; its arithmetic
with divisions by variables stays with TLC, and so do the sorting of `SelectorSafety` and
the file names of `ProgramSafety`'s Desktop.
