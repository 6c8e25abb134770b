# A TLA+ model of the Rio terminal

Rio is a terminal emulator: a Rust workspace in which a program's output
travels from a pseudo terminal through an escape sequence parser into a grid of
rows and from there to the screen, while keys travel the other way. This
directory models the parts in which that can go wrong in ways a unit test hardly
reaches: a ring buffer that is rotated, shrunk and grown in any order, lines that
are wrapped and unwrapped around wide characters and a cursor, output held back
and cut at any byte, a lock-free queue, two threads and a window system that skip
work they believe to be pending, an index into a list that other events shorten.

## The system

| Component | State | Operations | Interacts with |
|---|---|---|---|
| Row storage `rio-backend/src/crosswords/grid/storage.rs` | allocated rows, `zero`, `visible_lines`, `len` | grow, shrink, rotate, swap, take all, index | owned by the grid |
| Grid `crosswords/grid/{mod,resize,row}.rs` | storage, `display_offset`, history limit, cursors, dirty bits | scroll a region up or down, scroll the view, clear, reset, resize | called by Crosswords under the terminal lock |
| Crosswords `crosswords/mod.rs` | two grids, modes, scroll region, damage, keyboard mode stacks | one handler per escape sequence, resize, snapshot | called by the parser and the UI |
| Processor `performer/handler.rs`, `batched_parser.rs`, `copa` | parser state, held-back buffer, timeout | advance, stop an update | fed by the PTY thread |
| PTY thread `performer/mod.rs`, `event/sync.rs` | write queue, peeked message, registrations, the two locks | poll, read, parse, write, exit | channel from the UI, PTY, terminal lock, events to the UI |
| Render scheduling `application.rs`, `router/mod.rs`, `scheduler.rs`, `renderer/mod.rs` | per-window flags, queued events, timers, per-panel dirty marks | event handlers, redraw | PTY threads, window system |
| Tabs and splits `context/mod.rs` | list of tabs, current index, current route | open, split, select, move, close, resize | user, exit events of PTY threads |
| Layout tree `layout/mod.rs` | per tab: tree of containers and panels, current panel, zoom snapshot | split, remove, zoom, order, resize | tabs; geometry by taffy |
| corcovado `poll.rs`, `channel.rs`, `awakener.rs` | queue of ready nodes, sleep marker, pending count, pipe | set readiness, enqueue, poll, sleep, wake up | senders (UI) and the PTY thread |
| teletypewriter | PTY handles | readiness | PTY thread |
| rio-window, sugarloaf, config, fonts, notifier | platform windows, GPU | draw, deliver events | event loop |

What is hard in it, with the line where it bites, is the list "hazards" of
PROJECT.json. In short: index arithmetic after a long mix of calls (storage,
grid); cursors, flags and wide characters across a reflow, and rows that changed
without being marked (terminal); escapes cut by reads and buffers at their limit
(synchronized updates); one-shot registrations, partial writes and a mutex with an
extra queue (PTY thread); compare-and-swap races and a sleep that is announced
through the queue itself (readiness); lost wakeups (rendering); stale indices
after a late event (tabs); a tree that is rebuilt while part of it is hidden
(layout).

What makes each component correct:

* storage: a list of rows, nothing else; bounded spare memory;
* grid: a screen above a bounded history; a scrolled-back view stays put;
* terminal: every cursor on the screen, the text kept by a resize, the renderer's
  copy up to date after a render, the keyboard modes two stacks;
* synchronized updates: nothing lost, whole frames, always released;
* PTY thread: input in order and complete, output kept, no sleeping on work, no
  starvation of the UI, exits noticed;
* readiness queue: a node is queued once, no sleep on an announced event, every
  announced message received;
* rendering: damage of what is shown gets drawn;
* tabs: index, route and tree agree, an exit takes no panel of another tab, a zoom
  hides the other panels and nothing else.

## Modules

| Module | Stands for | Kind |
|---|---|---|
| `Storage` | the methods of `Storage<T>` as operators on records | pure |
| `StorageSpec` | any sequence of calls its owner can make | state machine |
| `RowBuffer` | what the storage promises: a plain list of rows | abstract specification |
| `StorageProofs` | theorems about `StorageSpec` | proofs |
| `Grid` | the methods of `Grid<T>` on top of `Storage` | pure |
| `GridSpec` | any sequence of grid operations | state machine |
| `TextBuffer` | what the grid promises: screen, history, cursor | abstract specification |
| `GridProofs` | theorems about `GridSpec` | proofs |
| `Terminal` | cursors, region, modes and tab stops of `Crosswords`: where a handler writes | operators, and the specification `TermSpec` of the control state alone |
| `TerminalProofs` | theorems about `TermSpec`, and about keyboard modes, rows, reflow and frame of `Crosswords` | proofs |
| `Screen` | the grid as plain rows of cells, which `TextBuffer` justifies | pure |
| `Reflow` | `Grid::resize` with its two loops over wrapped rows | pure |
| `Crosswords`, `MCCrosswords` | the handlers on control state and rows, damage, snapshot, keyboard modes | state machine |
| `KeyStack` | what the keyboard mode rings promise: two stacks | abstract specification |
| `SyncUpdate` | `Processor` and `SyncState` | pure |
| `SyncSpec`, `MCSync` | the processor driven by `pty_read` and the poll timeout | state machine |
| `SyncProofs` | theorems about `SyncSpec` | proofs |
| `RenderPipeline`, `MCRender` | from damage to redraw in one window | state machine, four actors |
| `RenderProofs` | theorems about `RenderPipeline` | proofs |
| `Layout` | the tree of panels of one tab, its visual order and zoom | pure |
| `ContextManager` | tabs, splits and exits in one window, on `Layout` | state machine |
| `ContextProofs` | theorems about `ContextManager` and lemmas about `Layout` | proofs |
| `PtyMachine` | program, kernel, PTY thread and UI thread | state machine, four actors |
| `PtyProofs` | theorems about `PtyMachine` | proofs |
| `Readiness`, `MCReadiness` | the readiness queue, channel and awakener under `PtyMachine` | state machine, poller and senders |
| `ReadinessProofs` | theorems about `Readiness` | proofs |

Definitions have the names of the functions they translate; PROJECT.json maps
each to its lines. Operators marked "a plausible mistake", and in the pure modules
and `Crosswords` those nothing else uses, are wrong variants of a definition that
follows them. Each property of a passing run is violated when
one of these takes the place of the right one, so none of them holds by the
shape of the model.

### Storage and grid

A storage is a record with the four fields of the struct; offsets count from 0
as in the code. Rows are opaque in `Storage` and a text with a dirty bit in
`Grid`: a column resize appears only as `ReplaceInner`, any new list of at least a
screenful. What it computes is in `Reflow`. Loops over
lines are folds in the loop's order, because the order of the swaps matters.
`call` in the two specifications is a history variable that names the operation,
so that the abstract specifications can demand the right result of each call.

### Terminal

Run `grid` shows that the ring buffer behaves like a list of rows, so `Screen` and
`Reflow` work on lists. A cell is one of nine letters, listed in `Screen`: what
wrapping, widths and emptiness tell apart, no styles. A handler is a pair of
operators, one on the control state (`Terminal`) and one on the rows
(`Crosswords`), and an action applies both with the parameters that `print`,
`execute`, `csi_dispatch` and `esc_dispatch` pass. The loops of `grow_columns` and
`shrink_columns` are folds over the rows, oldest first, as in the code.

`TermSpec` is the control state alone, with the positions a resize finds for the
cursors left open; the proofs use it, no run does. `grow_lines` subtracts from
`display_offset` without a clamp, as the code does.

The keyboard modes are kept twice: in the two rings (`keys`) and as bits of
`self.mode` (`key_mode`), which the input encoder reads. `push_keyboard_mode`,
`pop_keyboard_modes` and `set_keyboard_mode` copy the top of the ring there,
`swap_alt` does not. `KeyModeOfAScreen` says what still holds: the bits are those on
top of the stack of one of the two screens, never modes that have been popped.

Of the damaged lines only "none", "some" or "all" is kept, because `damage_event`
reads no more; the rows themselves carry the dirty bits that decide what a partial
snapshot copies. `frame` is the renderer's copy. A render takes the terminal's
damage, merges it with what the UI asked for, and copies under the lock, one step.

The window's vi mode cursor, selection, images, attributes and hyperlinks are left
out; `newline` has no caller.

### Synchronized updates

The parser is reduced to the bytes it has consumed and to setting the timeout
when it has consumed a BSU, wherever the reads cut it. That it consumes all
bytes, even past a BSU, is how the code is: `Performer` does not override
`Perform::terminated`. Printable bytes collected by `BatchedParser` are flushed
before control returns and are not modelled apart. Time is abstracted: a set
timeout may pass whenever the thread polls.

### PTY thread

`pc` says where the thread is; every read, parse and write is a step, so the
program, the kernel and the UI thread interleave with each. A poll reports what
is ready under the current registrations and uses one-shot registrations up
(corcovado with `edge | oneshot`). Output bytes are counted, input bytes carry
the number of their message. A resize message only calls the PTY and is left out.
A read fails when the program is gone: Linux then answers EIO, once its output has
been read. The other errors at which the code ends the thread come from a broken
descriptor or buffer, which no run of the program and the user leads to; they are left
out, as otherwise `ExitNoticed` could count a thread that stopped for no reason.

### Readiness queue

`PtyMachine` takes the channel's readiness as given; `Readiness` is what provides
it. A step is one atomic operation, or one compare-and-swap that succeeded (a
failed one is retried with the value it found). The queue is the linked list of
the code: `head` is swapped first and the link stored afterwards, so a chain can
be cut for a while. The two markers are nodes like the others. `thread` says for
each thread where it is and what it carries. Memory is sequentially consistent:
the operations on one word are AcqRel in the code and a link is published with
Release; reorderings that Relaxed loads would allow beyond that are not modelled.
A poll with a zero timeout does not prepare to sleep (`ZeroTimeout`); the PTY thread
makes one when the timeout of an update has just passed. Registered nodes are edge-triggered and one-shot, as the PTY thread registers
them; tokens and their three slots are left out.

### Rendering

`events` holds the kinds of user events of which at least one copy is queued;
handling one may leave another copy, and events are taken in any order, which
includes the order of the real queue. `os_redraw` is the window system's part of
a redraw request; it is assumed to survive while the window is hidden. A redraw
is a single step, for the reason given in the module. A zoom hides the other
panels of its tab (`hidden`): their events still mark them, no redraw looks at them,
and the key that ends the zoom draws everything at once, outside the platform's
redraws. The game render strategy, the welcome and quit screens are left out.
The next or previous split is selected by marking the old panel and the new one and
asking for a redraw (`SelectSplit`); a split to the left, right, above or below is
drawn at once (`SelectSplitSide`). `last_active` is compared across tabs, as in the code, and node ids repeat in every
tab.

### Tabs

A tab is the tree of its panels (`Layout`): containers are rows or columns of
panels and containers, the current panel, the root panel, and during a zoom the
hidden nodes and the saved styles. Of a style only whether it fits the window of
now is kept. Visual order compares the top edges of panels, which the tree decides
only for some pairs; `get_ordered_keys` is the set of the orders it allows. A
closed panel's shell is killed and may still send `CloseTerminal`; `closing` holds
the routes of these events. Titles, rich text ids and geometry are left out.

## Runs

| Run | Bounds | Shows |
|---|---|---|
| `storage` | 4 active rows, cache of 2, two row contents | bounds, no aliasing, bounded cache, refinement of `RowBuffer` |
| `grid` | 3 lines, history limit 0 or 2, cache of 1, two texts | counters agree, view stationary, refinement of `TextBuffer` |
| `grid_offset` | the same, limit 2 | a violation, see below |
| `sync` | outputs of up to 5 tokens, escapes of 3 bytes, reads of up to 6 bytes, buffer of 9, locked read of 7 | nothing lost or torn, bounded, released, renderer told exactly when needed |
| `sync_esu` | up to 3 tokens | a violation, see below |
| `render` | 2 tabs, one with 2 panels that can be zoomed, one panel with output | no lost wakeup, damage is drawn |
| `render_unfocused` | the same, `disable_unfocused_render` on | a violation, see below |
| `tabs` | 3 tabs, 3 panels each, 4 routes, exits of any panel at any time | indices, routes and trees agree, zooms end as they began, exits stay in their tab |
| `background_exit` | 3 tabs, 2 panels each, 5 routes | a violation, see below |
| `pty` | 3 output bytes, 2 messages of 2 bytes, buffers of 2 | order, completeness, registration, no starvation |
| `terminal` | 14 groups of operations, screens of 1 or 2 lines and 2 to 4 columns, history of at most 2, stacks of 4 | cursors on the screen, text kept by reflow, frame up to date, refinement of `KeyStack`, mode bits of one screen |
| `readiness` | 2 channels, 3 senders (one only disconnects), the poller | queue sound, no sleep on an event, announced messages received |

Why the bounds are enough. In `storage` and `grid` the allocation can be larger
than, equal to and smaller than what a call needs, the origin takes every place,
and regions exist with fixed lines above, below and on both sides. Five tokens
allow an update, its end, a second update and text, cut at every byte, and the
buffer is small enough to overflow. In `pty` a message is as long as the kernel's
buffer, so writes are partial and blocked, and the read buffer fills up while the
UI holds the lock. In `render` one panel has output and a second one, in its tab,
and a third one in another do not, so that every combination of shown, current
and damaged occurs; insert mode, which keeps redrawing, is switched on only in
`render_unfocused` (`Inserting`), to keep the liveness check small. The theorems
cover all panels and insert mode as well. In `tabs` three tabs are the fewest with
neighbours on both sides, and three panels the fewest with a container inside a
container. In `terminal` all operations at once would not be feasible; a group
(`Programs`) holds the ones that touch the same state, on the smallest screens on
which they can interfere: two columns hold one wide character, three hold one that
does not fit behind a letter, and two history lines let a view follow once and not
twice. Resizes go between screens that are both wider and lower or narrower and
higher. In `readiness` two senders meet on one channel, while the disconnection of
the third has a second node in the queue.

Deadlock is not checked where the system may stop: the output ends (`sync`), the
window closes or routes run out (`tabs`), the thread ends (`pty`).

Each passing run checks what its row says; types are part of `GridSound`,
`RegisteredForWork`, `InBounds` and `PanelsConsistent`, and an invariant of their own
in `storage` and `render`; those of `sync` are proved.

### What the code does that its comments do not say

* `grid_offset`: `scroll_up` moves `display_offset` for regions that add no
  history, and the renderer asks for lines that do not exist, against the
  assertion in `compute_index`.
* `sync_esu`: an ESU read together with its BSU does not terminate the update;
  later output waits for the timeout.
* `render_unfocused`: a notification dropped while the window has no focus leaves
  `damage_event_in_flight` set with nothing under way that would clear it.
  `disable_occluded_render` has the same early return.
* `background_exit`: an exit in a tab left of the shown one leaves
  `current_index` out of range.

Met while modelling, and kept out of the way of the properties by a history
variable, so that they say what else holds:

* `scroll_up_relative` (crosswords/mod.rs:1097) reports partial damage. When a
  scrolled-back view cannot follow the output, because history is full or the
  region has a fixed top line, all rows of the view change and only the region's
  are dirty: the next partial snapshot leaves old rows in the frame. `slipped` is
  set from there to the next full render, and `FrameCurrent` holds otherwise.
* `register` of a channel (channel.rs:287) reads `pending` before it fills the
  cells through which senders announce. A message sent in between is announced by
  nobody; it is received when the thread drains the channel for another reason.
  `unannounced` marks it. In Rio the UI holds the sender before the PTY thread
  starts and registers (context/mod.rs:324).
* `switch_to_next_split_or_tab` (context/mod.rs:646) selects the root panel of the
  next tab although a zoom may hide it. After the root has been closed, `root` is
  any key of the map although the comment says "Make sure first split is selected".
* The end of a zoom (layout/mod.rs:733) restores the root style with the size the
  window had before it; a resize in between is undone until the next one.
  `misplaced` marks tabs with either of the last two.

* an exit that takes a tab left of the one shown (`background_exit`) leaves
  `current_index` meaning the next tab, or none. `shifted` is set from there until
  something is selected or opened again, and `ShownTabExists` and `CurrentRouteTracks`
  hold otherwise; `PanelsConsistent`, `ZoomConsistent` and `ExitStaysInItsTab` hold
  all the time.

Modelled as the code has it, and not what its comments say or what a terminal
usually does:

* `swap_alt` swaps the keyboard mode stacks and leaves the mode bits of the other
  screen (mod.rs:1610, against the comment at 1860).
* A shell that exits in a hidden tab takes the whole tab if it was the tab's current
  panel and the tab shown has no splits; otherwise its panel stays with a dead shell
  (context/mod.rs:498).
* `goto_col`, `move_up` and `move_down` pass an absolute row to `goto`, which adds the
  top of the region again in origin mode (mod.rs:2388-2418).
* `ED 1` with the cursor on the second line leaves the first line alone
  (mod.rs:2998), and `delete_chars` blanks the last `count` cells even in front of
  the cursor (mod.rs:2491).
* The comment at grid/resize.rs:170, "this will always be either `0` or `1`", does not
  hold below a row that keeps only a leading spacer; `ReflowKeepsText` compares
  characters but not line ends there (`Odd`).
* In insert mode `damage_event` marks the terminal fully damaged while the renderer
  takes the damage, so every redraw asks for another one (mod.rs:600).

### Fairness

* `SyncSpec`: `pty_read` returns, since it stops after `MAX_LOCKED_READ` bytes,
  and a poll with a passed timeout returns.
* `PtyMachine`: the threads run; the program reads its input; the UI thread gives
  the lock back, as it only draws under it. Strong fairness is assumed for taking
  a lock: parking_lot's mutexes are eventually fair, so that a lock that is free
  again and again is not always lost. Nothing is assumed of the program printing
  or exiting, or of the UI thread asking.
* `Readiness`: weak fairness of the poller and of each sender that is inside a call:
  the operating system runs the threads. Nothing makes a sender send.
* `RenderPipeline`: every queued event and due timer is handled, the PTY thread
  releases the lock, and the platform delivers a requested redraw to a window that
  stays or repeatedly becomes visible. The last is strong, because a redraw has
  to wait for locks that PTY threads take in turns.

## Proofs

`StorageProofs`, for every cache size, row type and bound on lines. The invariant
`TypeOK /\ RingInBounds /\ CacheBounded` is inductive as it stands. The lemmas say
what each method does to the list of active rows (`View`): rotating the buffer
back and truncating it keep the list, growing appends blank rows, a rotation moves
it by the given count. From these follow `LinesDoNotAlias`, `TakeAllIsView` and
that every call is a step of `RowBuffer`.

`GridProofs`, for every screen height, history limit and cache size; assumed is that the
cache and the tallest screen are at least one row and that `Blank` is not one of the
texts. The inductive invariant (`GridOK`) is `GridSound` with the shape of the record.
Three kinds of argument carry it and the refinement of `TextBuffer`:

* the loops over lines are folds. The recursive function inside `FoldLeft` is shown to
  exist turn by turn (`FoldingExists`, by the least turn at which it had not), so that
  what each turn keeps the loop keeps (`SwapEachLike`, `ResetEachLike`,
  `DirtyEachLike`) and what each turn does can be traced;
* a storage is read as a function from lines to texts (`Content`). A swap exchanges two
  of its values, and a run of swaps, upwards or downwards, over overlapping spans
  carries one block past the other (`Up`, `Down`): this is where the loops' order
  matters;
* growing, shrinking and rotating move the origin of the ring. `RowPos` counts from the
  origin, `ShrinkPos`, `InitializePos` and `RotatePos` say where a position goes, and so
  which line shows its text afterwards (`FromPos`).

From these each method has a lemma on lines (`ScrollUpContent`, `ScrollDownContent`,
`GrowLinesContent`, `ShrinkLinesContent`, ...), and the last part turns lines into the two
sequences of `TextBuffer` (`GridImplementsText`). `ViewStaysPut` needs besides only that
a view offset within the history limit moves by exactly the lines that scrolled out.

`SyncProofs`, for every output, escape length, buffer limit and way of cutting.
Assumed of the escapes is that they have the same length, differ, and that the
first byte of a BSU is nowhere inside an ESU. The invariant adds to the
properties that between two calls of `pty_read` nothing new has been parsed, which
`NotifiedIffApplied` alone does not say. A frame is not torn because a BSU
found behind an ESU cannot overlap it. `HeldFrameIsOpen` needs that the
search which `advance_sync` makes over the last bytes reaches back far enough for
an escape that two reads have cut.

`RenderProofs`, for any panels and tabs, with both renderer options at their
default. `NotificationNotLost` and `DamageNotForgotten` are not inductive, since
they excuse a panel when the active panel has changed, and it may change back.
The invariant says that the excuse is needed only before the renderer's first
look at the window; afterwards an event or a mark exists, also through zooms. It needs that the
platform knows of a standing redraw request (`RequestStands`).

`TerminalProofs`, for every set of window sizes and of parameters. `InBounds` holds
step by step once the shape of the record and of the tab stops is added to it
(`Sound`): each handler maps sound states to sound states, and handlers that are
made of others follow from their parts. The one fact from outside is that a nonempty
set of tab stops has a least and a greatest member.

The same module shows that `Crosswords` implements `KeyStack`. The slot of the i-th
mode from the top is `(idx - i + 1) % DEPTH`, and different modes have different slots
(`SlotFacts`); from this follows what a write to the top and a push, which overwrites
the oldest mode, do to the list read off the ring. A pop of several modes is a fold.
The recursive function inside it is shown to exist and to have the closed form
`Popped`: the slots of the first `n` modes are empty and the top is `n` lower.
`KeyModeCorrect` needs of the rings only that a swap exchanges them and that what
writes to the ring in use writes its top to the mode bits, too.

The third part is about the rows and the frame, and for every history limit, too.
`FrameCurrent` says what the next render will draw; what keeps it true is `Current`:
the control state is sound, both grids have its size (`Shape`: every row of the screen
and of the history has the width), and unless `slipped` or full damage is noted, each
line of the view equals the frame's, or is dirty with some damage noted (`Matches`). Each handler is shown to be an edit of the rows that
dirties what it changes in the view (`Edits`: `Keeps` compares the view before and after,
line by line) and notes damage if it changes anything (`Paints`). Edits compose, so a wide
character that wraps and scrolls follows from its parts. The hard case is `scroll_up`
under a view that is scrolled back: `FollowKeeps` is the arithmetic of `display_offset` by
which the lines of the view are the same as before, or dirty, when `ViewFollows`;
everything else sets `slipped`. Cells are not typed in any of this, so nothing rests on
what a cell may hold: a list is a function on `1 .. n`, and its length is all that counts.

A resize damages everything, so of a reflow only its shape has to be known, and
that the cursors land on the screen (`ResizeLands`). The loops of `grow_columns` and
`shrink_columns` are folds over the rows; each is shown to have a value after every
turn and the value an invariant: the rows made are no wider than asked (`Grown`), or
exactly as wide and the cells left over a list (`Shrunk`), and the cursor is in a line of
the screen, when shrinking however far to the right; `LandCursor` brings it back. Splitting makes no fewer rows than it takes
(`Pushes`), so the screen can be filled from what is left. This gives the lemma
`ControlRefined`, that every step of `Crosswords` is a step of `TermSpec` on the control
state, and with `BoundsCorrect` that all
handlers of `Crosswords` keep their cursors on the screen (`HandlersInBounds`).

`PtyProofs`, for any buffer sizes, numbers and lengths of messages and every
interleaving. `RegisteredForWork` speaks of the thread waiting in poll; the
invariant `IInv` follows the registrations through the round (`Registered`): what
is not registered is reported in `events` or will be registered before the poll.
`OutputKept` holds only while the program runs, since a failed read drops what it
holds; `Accounted` adds that nothing is ever counted twice. `InputInOrder` is
inductive on top of the types: each step moves bytes or messages between
neighbours in the line from the channel to the program. It needs that flattening
distributes over concatenation, which is shown first: the recursion inside
`FlattenSeq` has a solution, and only one, by looking at the shortest sequence
for which it had not.

`ContextProofs`, for any numbers of tabs, panels and routes. What has to be shown
of `LayoutSound` is that the trees which `split_panel`, `remove_current` and
`collapse_single_child_containers` put together by hand are trees: everything hangs
below the root, once. "Below" is recursive, so the inductive invariant (`TreeInv`)
asks instead for a certificate: a function `up` from the nodes to their parents and a
`rank` that falls on the way down (`Linked`). Every operation shows the certificate of
its result: a split puts the new container half way, a removal keeps both functions,
the folding of a container hands its child to its parent. A single lemma
(`TreeReachesAll`), by a least rank, turns the certificate into the sets that the code
collects. Only one container can be thin after a removal, so the fold over a set in
unknown order has at most one step (`CollapseOne`). With `ZoomInv`, and tabs that
share no panel (`TabsInv`), this is inductive for all seventeen actions, so
`PanelsConsistent` and `ZoomConsistent` hold. On top of it two conjuncts are inductive:
unless `shifted`, the shown tab exists (`ShownTabStays`) and `current_route` is its current
panel's (`CurrentRouteStays`). That exits stay in their tab (`ExitTakesItsPanel`) follows
from tabs that share no panel, in every state. All five hold for exits of any panel,
shown or hidden, without a condition on the constants.

`ReadinessProofs`, for any channels, senders and numbers of messages. Assumed of
`WordSize` is that it is more than twice the messages there can be, so that the
counter, which briefly falls below 0 and wraps, is still told apart from a large one.
`QueueSound` speaks of `Chain`, which follows links; the inductive invariant has
the queue as a window `lo .. hi` of the list of all items ever pushed
(`QueueInv`): the swap of the head lengthens it, a pop shortens it, and each item
in it is linked to the next or some producer holds that link in its hands. A node's
flag is set if it is in the window or with one thread. A last step shows that
`Chain` runs through the window. `SleepSafe` needs four things more
(`SleepInv`): who pushes behind the marker will write to the pipe (`Marked`); all nodes
are armed when the poller prepares to sleep (`Armed`); what is ready and armed has its
flag set (`Announcing`), so a poller that is alone with its marker has nothing ready;
and a message that is there has been noticed (`Counts`). For the last one every raising
of a counter gets a token of its own, the sender and what it had left to send: the
counter is the number of tokens less the number of times it was lowered, and no
less than the messages nobody is about to count. If that is positive the readiness is
set, somebody is about to set it, the poller is about to see that it has to set it
again, or the message is the excepted one.

Only model-checked: liveness (`HeldBytesShown`, `OutputShown`, `UiGetsLock`,
`InputDelivered`, `ExitNoticed`, `Delivered`), which the proof system does not
treat, and `ReflowKeepsText` of what `terminal` checks. Recursive operators are avoided
throughout, as the provers do not support them. Loops are folds. A fold with a closed
form or with an invariant of its turns can be proved about, as in the grid and in the
reflow; that joining and splitting rows keeps the text, however it was wrapped, would
be an induction over the data.

## Not modelled

Of the repository's 180,000 lines most are not of the kind this project is for,
or out of a model checker's reach:

* rio-window (a fork of winit) and sugarloaf (GPU text rendering, fonts) are more
  than half of them: platform calls, drawing and tables;
* the VT parser `copa` and the OSC, DCS, APC and SGR arms of the dispatcher are
  tables from bytes to calls, best tested sequence by sequence;
* kitty and sixel graphics decode and place images; of them only their being
  untouched by the modelled handlers would be left;
* selection, search, hints and vi mode are computations on the cells of one state;
* PTY creation, configuration, the notifier and clipboard are calls of the system;
* the timer wheel of corcovado has no user in Rio; its selectors are system calls.

Inside the modelled components PROJECT.json says what is left out. Tabs and panels
are opened and closed in `ContextManager` and fixed in `RenderPipeline`.

## Plan

Done: storage, grid heights, synchronized updates, PTY thread, rendering, tabs,
terminal state, reflow, keyboard modes, readiness queue, layout tree.
Next:

* selection under scrolling, on top of `Screen`.
