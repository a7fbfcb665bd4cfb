# A formal model of Epimone

Epimone is a terminal emulator whose shells outlive its windows.  A small
daemon in plain C owns the PTYs; a GTK program attaches to them over a UNIX
socket; a command line client speaks the same protocol.  This directory holds
TLA+ modules translated from the source, TLC configurations that check them on
small instances, and TLAPS proofs of the properties that matter most.

Paths below are relative to the repository (`src/daemon/server.c` and so on).

## 1. Inventory

| part | state | operations | talks to |
|---|---|---|---|
| daemon event loop (`src/daemon/server.c`) | epoll set, batch of events, `running` | accept, signals, PTY and connection events, deferred free, kill deadlines, shutdown | kernel, every other part |
| session and group registry (`server.c`, `session.c`, `group.c`) | `epi_session` list, dead list, `epi_group` list, id counters | CREATE, LIST, ATTACH, DETACH, KILL, RESIZE, PEEK, GROUP_* | clients by request, children by PTY and signal |
| scrollback ring (`ring.c`) | buffer, capacity, head, size | write, grow, snapshot, tail | fed by PTY output, read by ATTACH and PEEK |
| data channel (`server.c`) | per connection `wbuf`, `want_close`, EPOLLOUT interest | queue, flush, evict, EOF, close | ring, PTY, client |
| control connection and input (`server.c`, `session.c`) | `rbuf`, `is_data`, `pin` | reassemble, dispatch, reply, forward input | client, PTY |
| daemon start-up (`daemon/main.c`), autostart (`epimone-client.c`) | the socket file | probe, unlink, bind, listen, shutdown; check, spawn, poll | other daemons through the file system |
| protocol codecs (`epimone-protocol.h`) | growable buffer, read cursor | put and get integers, strings, blobs | all |
| client library (`epimone-client.c`) | none but sockets | one blocking transaction per request, attach | daemon |
| terminal page, tree (`epimone-page.c`) | split tree, focus, zoom, scrims, title | split, close, take out, adopt, focus, zoom | window, layout |
| terminal page, bridge (`epimone-page.c`) | pending bytes both ways, sources, bell and resize timers, `dead` | pump, mute the bell, push sizes, decide what EOF means | VTE, client library |
| layout (`epimone-layout.c`) | `layout.json`, `groups.json`, a group id and enrolments per page, session and recorded instance, pending save, frozen flag | synchronise groups, save, restore, check the instance | pages, daemon |
| window and tabs (`epimone-window.c`, `main.c`) | tab view, captured menu page, dialogs | add, close, pin, reorder, move tabs; start-up | pages, layout |
| overview, cards and kills (`epimone-overview.c`) | none between two reloads | reload; kill a card, a window, what is detached, all | client library, window, layout |
| overview, thumbnails (`epimone-overview.c`) | texture cache and signatures, render queue, four timers | build the grid, queue, render, settle, commit, abort | client library, VTE |
| settings, shortcuts, chrome, palette | GSettings values | build widgets, apply | GTK |
| `epimonectl` (`ctl/main.c`) | none | one command per process | daemon |
| logging, paths, shell integration | none | I/O | |

What is hard in each, and what makes it correct:

* **Event loop and registry.**  Single-threaded, but the events of one batch
  arrive in any order, a handler can destroy what a later event points at, and
  the kernel moves in between: children exit, SIGCHLDs coalesce, pids are
  reused, peers come and go, deadlines pass.  `s->client` and `c->session` are
  set and cleared in seven places.  Correct means: attachments are mutual, no
  event outlives its object, signals hit only a killed session's own child,
  no exit is missed, a killed session goes, a group exists exactly as long as
  it has a listed member; and what LIST and GROUP_LIST show is explained by a
  small abstract store.
* **Ring.**  Wrap-around, growth of a wrapped ring, a ceiling that is not a
  power of two times the start, writes longer than the ring, failed
  allocation.  Correct means: it holds the last bytes written, in order, drops
  none early, and the snapshots return exactly those.
* **Data channel.**  Replay and live output meet; a write is cut short; a
  client lags, is evicted, disappears; the shell exits with output buffered;
  memory fails for a frame, the snapshot of the ring or the buffer.
  Correct means: one continuous stream, EOF only after the last byte, output
  and EOF arrive.
* **Control connection.**  Frames come in pieces or several at a time; a bad
  one has to be answered on a connection about to close; raw input may follow
  the ATTACH frame in the same read; the PTY takes input only in part.
  Correct means: each frame once and in order, one reply each, input conserved.
* **Start-up.**  Daemons share nothing but a file.  Correct means: one daemon,
  reachable; a stale file never blocks a start; no file is left behind.
* **Split trees and tabs.**  A pane leaves a nested tree at any depth while
  it, or another, is zoomed or focused; it moves to another tab with its bridge,
  and its shell may exit before, during or after; menus, dialogs and idle
  callbacks remember pages that may be gone or elsewhere by the time they act.
  Correct means: full trees, focus and bridges that stay in their own tab,
  zoom, scrims and titles that follow, and no tab that vanishes or doubles.
* **Bridge.**  EOF on a data channel means exit *or* theft; the daemon is asked
  later, may not answer, or may be another daemon by then.  Bytes that did not
  fit, a size held back by a drag, and a muted bell all wait for something that
  has to come.  Correct means: nothing waits unwatched, and a session that is
  alive is not killed.
* **Layout.**  Synchronising a tab takes several requests that fail one by
  one, also in the last save, of a window that closes; the two files are not
  written at once, and either write may fail; ids start again at 1 in every
  daemon.  Correct means: after a save the daemon's groups, the files and the
  screen agree, and a restart brings the tabs back, from this daemon only.
* **Overview.**  Blobs, memberships, tabs and cards are four views of the same
  sessions, written at different times.  Correct means: each live session on
  one card, and kills that hit what the card showed.
* **Thumbnails.**  A chain of timeouts, each arming the next, is interrupted at
  any point by a rebuild, a close or a recolouring; a card that gave nothing is
  tried again at once or from the end of the queue; and a signature has to say
  what a texture was drawn from.  Correct means: one step scheduled, no card
  stranded, a card skipped as unchanged is unchanged, each card served.

## 2. Modules

| module | models | composes / implements |
|---|---|---|
| `SessionStore` | the promise of the registry, as LIST and GROUP_LIST show it | abstract specification |
| `Daemon` | event loop, registry, processes, signals | implements `SessionStore` |
| `Ring` | `ring.c` | used by `DataChannel` in the form of theorem `RingCorrect` |
| `DataChannel` | one session's output on its way to clients | |
| `ControlConn` | one connection's requests, replies and input | |
| `DaemonStart` | several daemon processes and GUIs around one socket path | |
| `Bridge` | one pane's bridge, with the daemon, other clients and VTE around it | what `Daemon` does to one session, seen from a client |
| `Tabs` | windows, tabs and split trees of one GUI process | `Bridge`'s death, in the form of `SockEof` and `DeathIdle` |
| `Layout` | groups, files, restore, over processes and daemons | `Daemon`'s sessions and groups, `Tabs` with a tab as the set of its panes |
| `Overview` | cards and kills | extends `Layout`: its actions interleave with all of that module's |
| `Thumbs` | the thumbnail pipeline | |
| `DaemonProofs`, `RingProofs`, `DataChannelProofs`, `ControlConnProofs`, `BridgeProofs`, `TabsProofs`, `OverviewProofs`, `ThumbsProofs` | theorems and proofs | extend the module they are about; `DaemonProofs` also extends `DaemonStart` |
| `MC...` | instances for TLC | extend the module they check |

A definition named *Mutant of ...* is a plausible bug in the definition it
names.  No specification uses it; putting it in the place of the original
makes the property it is meant for fail, which shows that the property depends
on the code.

### Daemon

One variable per field: `alive`, `killing`, `removed`, `ptyOpen`
(`pty_master >= 0`), `client`, `pid`, `groupId` of a session, `isData`,
`session`, `wantClose` of a connection; `sessions` and `dead` are the two
lists; `evPty`, `evConn`, `evSig`, `evListen` are the events of the current
batch that have not been handled.  `defunct` is membership in `dead`; memory
that has been freed is what is in neither list.  `due` says that
`kill_deadline` has passed.  The kernel is `procState`, `procOf`, `sig`,
`slaveOpen`, `sigchld`, `sigterm`, `backlog`.

`pc` tells where the loop is: `wait` (in `epoll_wait`), `batch` (between two
events), `signal` and `reap` (inside `handle_signalfd` and its `waitpid` loop),
`read` and `served` (inside `conn_read`; `served` when `want_close` has ended
the parse loop).  Handlers are atomic, as in the code; the two loops are
sequences of steps so that exits can fall between two `waitpid` calls and
several frames can be served in one event.  Each `handle_*` is one action with
everything it calls (`detach_client`, `remove_session`, `gc_group_if_empty`,
the reply); KILL is two, for a session that is dead and one that is alive.
Requests that change nothing but the write buffer are one action,
`HandleQuery`.  Whether a write buffer overflows, or drains so that a
connection may close, is a nondeterministic choice here: `DataChannel` and
`ControlConn` model what decides it.

### Ring

`buf`, `cap`, `head`, `size` as in `epi_ring`; the byte written `i`-th has the
value `i`, so that contents can be compared with history.  `Write(len)` is
`epi_ring_write` with the `ring_grow` it starts with; `memcpy` is an operator
on functions, and the two-piece copies are the code's.

### DataChannel

Connections used for one attachment each; `wbuf` is `wbuf[wpos..wlen)`, `sock`
what the kernel holds, `got` what the client has read.  `Attach`, `Detach`,
`PtyRead`, `PtyEof` and `ConnEvent` are `handle_attach`, `detach_client` on
anyone's behalf, one `read()` of `pty_readable` with `conn_queue`, `conn_flush`
and `conn_update`, `client_eof`, and the connection's branch of
`epi_server_run`.

Memory may fail at each place where `handle_attach` and `pty_readable` ask for
it, for a client of `Frail`.  `FrameEnds` are the ends of `conn_queue_frame` (queued; lost without a mark
when the frame's own buffer is `oom`; dropped and marked when `conn_queue` has
no memory), `ReplayEnds` those of `conn_queue`, `Snapshots` what
`epi_ring_snapshot` returns: the ring, or NULL, of which `handle_attach` takes
no notice.  `RingStarts` says what the ring holds, which is less after it could
not grow.  The history variables tell these apart: `base` is the output that
had left the ring at ATTACH, `skipped` what a failed snapshot left out, and
`dropped` that a frame or bytes for this client were dropped.  The stream of a
client starts at `Before(c)`, the sum of the first two.

### ControlConn

A client writes a `script` of messages (requests, ATTACH, short or oversize
frames, input after ATTACH), one by one (`ClientSends`).  A byte is its position
in everything the client sends, so that a queue of bytes is an interval, order
and loss are visible, and a frame is the interval that its record in the script
occupies.  The daemon reads the bytes in pieces of any length.
`conn_read`'s parse loop is `ParseBad`, `ParseIncomplete`, `ParseRequest`,
`ParseAttach` under `pc = "parse"`; `ConnDone` is the end of the event
(`conn_update` or `conn_close`).  A `Reply` is queued, and marks the connection
if more than `MAX_WBUF` waits then (history: `overrun`), or is dropped for want
of memory, with a mark or without one (history: `unanswered`).  `pin` and `tty` are the session's input queue
and what the terminal accepted.

### DaemonStart

`path` names the daemon whose socket is bound; a stale file is a `path` whose
daemon has no listener.  Every system call on the way up and down is a step,
and a process may be killed before any of them.  `calm` is a history variable:
so far daemons have started and stopped one at a time and no call has failed
for want of resources.

### Bridge

Bytes are counted (queues append at the end and remove at the front, so order
cannot be lost); `watch` is the set of GLib sources, `toSock` and `toSlave` the
two pending buffers, `sockIn` .. `slaveOut` what the kernel holds.  Each source
callback is one action with `flush_buf`, `forward_to_*` and the source it
registers or drops.  `step` is the death: `schedule_death` sets `idle`,
`DeathList` and `DeathKill` are `death_idle` up to and after the answer to
LIST, because the daemon and other clients move in between.  `sess` is
the session that has the pane's id *now*: another daemon may have given it to
somebody else (`Created`, allowed while a bridge is open only after its daemon
was replaced).  Timers count down in ticks, and no tick passes a timer that is
due.  `seen`, `replaced`, `told`, `killed` are history.

### Tabs

A split tree is the set of its leaves with their paths, so `new_paned`,
`take_focused_leaf` and `remove_terminal` become substitutions of a path
prefix (`Healed`).  The handlers of `epimone-page.c` and `epimone-window.c` are
operators from a state of the screen to the next, composed in the order of
the calls; an action is the outermost handler.  AdwTabView is not in the
repository: what it selects next is a choice, and that it neither closes a
pinned page nor inserts before one is taken from how the code uses it.  A
pane's shell may exit at any time (`SockEof`) and the idle callback runs later
(`DeathIdle`), on the page that the bridge points to.  What a handler does to
every pane or page of a set (`Dimmed`, `DestroyAll`) is one comprehension, since
the order of these calls makes no difference to what is left.

### Layout and Overview

A tab is the set of sessions its panes show, plus which of them are attached
(`live`), its group id, its enrolled panes and whether it is zoomed.  Requests
are transactions on `daemon`; `fails` names the one that fails.  `SyncGroups`
is `sync_page_group` for every tab in some order, one turn after the other,
because GROUP_ADD may take a session out of the group of a tab whose turn comes
later.  `SaveBoth` is the groups, then `groups.json` (`SaveGroupsState`) and, if
the layout is dirty, `layout.json` (`SaveLayout`); the answer with the daemon's
instance and either write may fail like a request, and nothing repeats it.
`Save` adds the history of it; `save_timeout_cb` and the sync of
`epimone_layout_begin_shutdown` both use it.  `CrashInSave` is a crash within
either of the two, before `groups.json` or between it and `layout.json`.
`files.of` is history: the daemon whose ids `layout.json` holds.  `Start` is `activate_cb`: the instance check and the restore, group by
group, each turn on what the one before it left.  `past` is history: what
was on screen when the last save was made, whether that save left a tab without
its group or its panes (`missed`) and both files up to date (`saved`), and
whether a restore took sessions that belong to another tab (`foreign`).  `Overview` keeps no variables: its
cards are computed from the daemon's lists and the tabs of a window, and its
actions are kills, restores and moves.

### Thumbs

`timers` holds which of the four GLib timeouts are armed, `queue` the render
queue (each entry with the number of the grid it was made for, so that a
pointer into a freed grid would show), `card` the `CardInfo`s, `cache` and
`sigs` the two hash tables.  `content` counts what a session has written: PEEK
returns it and the signature folds it, as the FNV hash of the tail does in the
code; collisions of the hash are left out.  What `queue_visible_renders` appends is
the sequence of the waiting cards in the order of the flow box
(`InFlowOrder`).  A pane may have no allocation (`Retried`), and with one its
snapshot may still give no node, or one of no extent (`Drawn`); if no pane of a
card gave anything, `RenderCompose` puts the card back at the end of the queue
while it has attempts.  So a card leaves the head of the queue `Finished`,
`Requeued` or `GivenUp`.  `VteParses` is outside: VTE parses
what it was fed before the settle timeout fires, or not.

## 3. Runs

| run | shows | bounds |
|---|---|---|
| `daemon` | `AttachmentIsMutual`, `NoUseAfterFree`, `AliveMeansUnreaped`, `OnlyKilledAreSignalled`, `HiddenAwaitsReap`, `ZombieIsNoticed` | 2 connections, 2 sessions, 2 pids, batches of at most 3 |
| `daemon_groups` | `MembershipIsBacked`, `GroupLifetime`, `ImplementsStore` | 1 connection, 2 sessions, 2 groups |
| `daemon_live` | `KilledSessionGoes`, `ZombieIsReaped` | 2 sessions on one pid |
| `ring` | `HoldsTheTail`, `SnapshotsAreTheTail`, `LosesNothingEarly`, `NeverShrinks` | capacities 2, 4, 7; 20 bytes |
| `channel` | `StreamIsContinuous`, `EofIsComplete`, `WaitingIsWatched`, `OutputArrives`, `EofArrives` | 2 clients; ring, socket and `MAX_WBUF` smaller than the output plus the ATTACHED frame; for one of the clients any allocation may fail |
| `control` | `FramesInOrder`, `RepliesMatchRequests`, `InputIsConserved`, `RequestsAreAnswered`, `InputArrives` | 2 messages of 2 to 5 bytes, reads of 1 to 4; 1 reply within `MAX_WBUF` |
| `start` | `OneReachableDaemon`, `NoLitter`, `StartLeadsToService` | 3 daemons, 2 clients |
| `tabs` | `TreeIsWhole`, `ShownIsCurrent`, `NothingIsLost` | 3 panes, 3 tabs, 2 windows; `MaxOdd` = 2 |
| `bridge` | `NothingIsStuck`, `KillsOnlyTheDead`, `BellReturns` | buffers of 1, 2 bytes on the way, delays of 1 and 2 ticks, 3 grids |
| `overview` | `SyncIsComplete`, `OverviewIsTrue`, `RestartRestores` | 2 tabs, 2 windows, 2 sessions and groups per daemon (3 sessions in all), 2 daemons, 1 fault |
| `kill_window` | finding: `WindowKillSparesDetached` fails | 3 sessions, 1 daemon, no fault |
| `thumbs` | `PipelineIsWhole`, `SkipIsCurrent`, `EachIsServed` | 2 cards of 2 and 1 panes, 3 grids, 1 event |

The type invariants of `DataChannel`, `ControlConn`, `Tabs`, `Bridge` and
`Thumbs` are conjuncts of `WaitingIsWatched`, `InputIsConserved`, `TreeIsWhole`,
`NothingIsStuck` and `PipelineIsWhole`; that of `Layout` and `Overview` is part
of `OverviewInv` (section 4).

*Why the bounds are enough.*  Two connections are needed for theft, and a third
does what the second can.  Two sessions are needed for an owner of a reused pid
and for a group that keeps one member while the other leaves; two pids for two
exits under one signal; batches of three for a batch that is cut off while
sources are left.  The ring is taken through two doublings, the second cut off
by the ceiling, and wraps several times at each capacity.  In `channel` every
limit is exceeded by one, and two clients are needed for an eviction by an
attach; either may be the one of `Frail`, for which memory fails, and it may be
alone.  In `control` a read may hold less than a length
word, a frame and part of the next, or a frame and input; a message is longer
than the socket or the terminal takes at once; the replies to two frames in one
read are one more than `MAX_WBUF` admits, that to one frame is not.  Three daemons are needed for
one that was killed, one that runs and one that starts.

Three panes are the fewest for a paned inside a paned, on which a removal has
to lift a whole subtree; three tabs for an order with a pinned one and two to
swap; two windows for a page that moves.  `MaxOdd` counts what is out of the
ordinary at one time (panes that are dead, retitled or without a session, tabs
named or pinned, menus and dialogs up, dimming on): two of them meet in every
combination.  In `bridge` each buffer fills with one byte while a second one
waits, and each timer can be re-armed before and after it has started to count.
In `overview` two sessions and two tabs are needed for a pane that moves, two
windows for a card that is shown elsewhere, two daemons for ids that are
reused; one fault is one failed request or file write, ended shell or stopped
daemon, at each point of each history.  `MaxTotal` bounds the sessions of both daemons
together: a daemon after one with two tabs has one, and after one with one tab
two.  `UserActs` keeps users away from the windows of a daemon that has gone:
all that is left to do there is that the panes die, one by one.  Three grids
are needed in `thumbs` for a texture that survives two rebuilds; one attempt
for a card that goes round the queue once and is given up the next time, and two
panes for one that gives something where the other does not.  Larger
instances were run once, with no error: the safety of `channel` with memory
failing for both clients, a ring of 2 and 3 bytes of output; the `overview` run
with `MaxTotal` = 4; `Layout` alone with 3 sessions and with 2 faults; and `thumbs`
with two events (safety only).

The theorems below have no bounds.

*Deadlock* is checked in `Daemon` (a stopped daemon is the explicit step
`Stopped`), `Tabs`, `Bridge` and `Thumbs`.  The other modules bound their
environment (bytes, messages, processes, ids), so they end.

*Fairness.*  The event loop is a loop: `WF_vars(Loop)` says only that a daemon
that can take a step does.  In `DataChannel` and `ControlConn` each source has
its own fairness, because epoll is level-triggered and a batch reports every
ready source; the PTY's input is strongly fair, since a connection that stays
ready only delays it to later in the same batch.  Clients that keep reading,
and a child that keeps reading, are assumptions of the liveness properties
about them, and the properties except clients that close.  `DeadlinePass` is
fair because time passes, and a child sent SIGKILL exits.  No fairness is
given to children, clients or users otherwise.  In `Thumbs` the three timeouts
of the pipeline are weakly fair, because GLib runs a timeout that stays armed;
the quiet period, which output may cancel again and again, is not, and
`EachIsServed` rests on its backstop.  `Tabs`, `Bridge`, `Layout` and
`Overview` state safety only: what happens next there is up to users, shells
and daemons.

## 4. What is proved

For every value of the constants that the `ASSUME`s admit:

* `DaemonProofs`: `TypeCorrect`, `AttachmentSafe`, `EventsSafe`,
  `MembershipSafe`, `ProcessSafe` (`AliveMeansUnreaped`), `SignalsSafe`
  (`OnlyKilledAreSignalled`), `KilledSafe` (`HiddenAwaitsReap`), `ZombieSafe`,
  `GroupSafe`.  None of the
  invariants is inductive alone.  The inductive invariant `IInv` adds: which
  ids and pids are fresh, that events and `cur` refer to open objects only,
  that `killing` and `removed` go together until the escalation, that a
  process table entry points back to the session that owns it, and that groups
  outside the list have no listed member.  One lemma per action, one step per
  conjunct it can disturb.
  `Refinement` is `Spec => ImplementsStore`: every daemon step maps to one step of `SessionStore` or to a stutter; the mapping hides
  everything that LIST and GROUP_LIST do not show, and the invariants above
  say why removing a hidden session is invisible.
* `RingProofs`: `RingCorrect` (`HoldsTheTail`), `GrowthIsFree`
  (`LosesNothingEarly`), `RingGrows`, `SnapshotsCorrect`.  The work is in
  lemmas about `MemCpy` and `Linear` (what one or two copies leave at each
  index) and modular arithmetic on `head` and `cap`.
* `DataChannelProofs`: `StreamCorrect` (`StreamIsContinuous`), `EofCorrect`
  (`EofIsComplete`), `WaitingCorrect` (`WaitingIsWatched`, with the types), for
  any number of connections and any sizes of ring, chunk, socket and buffer.
  `FlushFact` says that a flush, however short, moves bytes along and leaves
  the stream as it was; `ReplayGrows` that a chunk continues the replay.  The
  theorems hold whichever allocations fail: a stream that was not robbed of
  bytes (`dropped`) starts after what a failed snapshot left out (`Before`) and
  has no gap from there on.  The invariant `Inv` says per connection why a socket is shut down, why it is
  marked and what a closed one was given.  `EofIsComplete` is not inductive: an
  EOF may be read long after the output ended and the client was forgotten, so
  `ClosedIsFull` carries the length of the stream until then.
* `ControlConnProofs`: `FramesCorrect` (`FramesInOrder`), `RepliesCorrect`
  (`RepliesMatchRequests`), `InputCorrect` (`InputIsConserved`, with the types),
  for scripts of any length, messages and buffers of any size and reads cut
  anywhere.  `Piece` says that a queue holds what comes next in a stream from
  some position on; its lemmas, that a read, a partial write or a dispatched
  frame moves the border between two adjacent pieces.  The inductive invariant says that the client's script is laid out
  without gaps (`ScriptInv`), that what was consumed, what is in `rbuf`, what
  the socket holds and what is to be sent are such pieces (`StreamInv`), that
  what was dispatched is a prefix of the script (`OrderInv`), that each of these
  has its reply queued or written, unless memory failed for it (`ReplyInv`), and where input stands between
  `rbuf`, `pin` and the terminal (`InputInv`, `ParseInv`).
* `TabsProofs`: `Invariance`, and from it `TreesCorrect` (`TreeIsWhole`, with the
  types), `ShownCorrect` (`ShownIsCurrent`) and `TabsCorrect` (`NothingIsLost`),
  for any numbers of panes, pages and windows.  The three cannot be proved one
  by one: a removed pane hands its focus to a neighbour only if the tree is
  full, the title is right only if the zoom is, and what the menu or a closed
  tab does depends on where the pages are.  So `Inv` is one predicate on the
  screen.  `Sound` says of each page that its tree is full (any two of its
  leaves part at some paned, and each turn on the way to a leaf has a leaf on
  its other side), that its focus, zoom, hidden subtrees, scrims and title fit
  together, that bridges are on their pane's page, and that a dialog names what
  it asks about.  `TabsOK` says that every page with panes has one place
  (`Placed`), and of each window that its tabs are distinct, its selection one
  of them, and that a menu that is up is the captured one.  The lemmas about
  paths say what `Healed` does to a full tree, those about an operator from
  screen to screen what it changes and that it leaves a sound screen; a
  `...Step` lemma per handler composes them in the order of the calls, and a
  `...Moves` lemma per action says that the action is such a step.
* `ThumbsProofs`: `PipelineCorrect` (`PipelineIsWhole`, with the types),
  `SkipsCorrect` (`SkipIsCurrent`), for any cards, arrangements, viewports and
  numbers of attempts, whatever the bounds on rebuilds and events.
  `OneStepScheduled` is not inductive without `QueueInv` (entries are cards of
  this grid that have panes, each card once) and `HeadInv` (the card at the head
  has a pane left to draw).  `SkipIsCurrent` rests on `Older`, the order in which
  a session's output passes through its versions up to its end: all that was
  ever signed, peeked or captured is `Past`.  `StoreInv` says that each texture is
  in the present colours and is explained by the signature stored beside it: a
  composed one shows just the panes that were signed, a live one nothing older
  than what was signed.  When the signature is that of the present content, both
  inequalities close.  `VisibleFact`, `PumpFact` and `LeaveFact` say what
  `queue_visible_renders` and `render_pump` do to any queue, and each handler
  cites them.  A card that goes back on the queue is in it once, and its
  nodes and signature start afresh when it is at the head again (`RestartedFact`).
* `DaemonProofs`, on `DaemonStart`: `StartTypes`, `FilesAreOwned` (`NoLitter`),
  `OneDaemon` (`OneReachableDaemon`).  While `calm`, at most one daemon is between stages,
  the one past `bind` owns the path, and what a starting one learned from its
  probe still holds.
* `OverviewProofs`: `Invariance`, and from it `SyncCorrect` (`SyncIsComplete`),
  `OverviewCorrect` (`OverviewIsTrue`) and `RestartCorrect` (`RestartRestores`),
  for any numbers of tabs, windows, sessions, groups, daemons and faults.  The
  assumptions are that there is at least one page and finitely many.  Any
  requests and file writes may fail in any save, also in that of a window that
  closes, and the process may die within it.
  `SyncIsComplete` is far from inductive: whether a sync succeeds depends on
  what earlier ones told the daemon, before faults and other daemons, and a
  restart depends on what a process that is gone left behind.  `OverviewInv` has
  five parts, each a predicate on a whole state, so that it can be carried
  through the calls of a handler:
    - `Basic`: shapes; ids below the next one; what a tab streams is alive and
      streamed to nobody else; and `Arranged`: while the process has the
      daemon it started with and restored nothing foreign, no pane and no group is in two
      tabs, and the panes a tab has told the daemon about are in its group.
    - `Filed`: what `layout.json` and `groups.json` hold, and when the stamp is
      that of the daemon; no more groups than there are pages, so that a restore
      finds a page for each.
    - `EraOk`: what was remembered can still be restored (`Restorable`), or the
      daemon is another one and `groups.json` says so.
    - `ListOk`: once it was written (`saved`), and with no layout save pending,
      `layout.json` is the groups of the tabs.
    - `SyncOk`: with nothing pending and nothing missed, every unzoomed tab is
      `Synced`.  This part and `ListOk` may be false inside a handler; that is why
      `Sound`, the first three, is what the lemmas about operators preserve.
  `SyncPageGroupTurn` says that a turn of `sync_page_group` syncs its tab and
  leaves the synced ones synced, although it may empty groups on its way;
  `SyncGroupsEffect` carries that over all the turns.  `RestoringStep` and
  `RestoredStep` do the same for the groups of `layout.json`: no group is found
  on the screen twice, because the saved tabs were disjoint (`NothingFound`),
  and a page is left for the next one, by counting (`FreshPageLeft`).  Induction
  over the turns is lemma `Ind`, which needs no operator parameter: if a set of
  naturals with 0, and with each its successor, missed n, then its members up
  to n, mapped to their successors, would be an injection of a finite set into
  itself less 0.  `OverviewCorrect` then follows the four places that the group
  of a session can have: nowhere, in this window, in another one, detached.
* `BridgeProofs`: `BridgeTypes`, `NothingStuck` (`NothingIsStuck`), `KillsSafe`
  (`KillsOnlyTheDead`), `BellComesBack` (`BellReturns`), for buffers, delays
  and grids of any size.  Frame lemmas say which part of the state each group
  of actions leaves alone; `ToSockFact`, `ForwardFact` and `ContentsFact` say
  what a chunk and a report by VTE do.  `NothingIsStuck` is inductive as
  it stands.  `KillsOnlyTheDead` needs `KillInv`, about the time between the
  answer to LIST and the KILL: a session reported gone is alive again only in
  another daemon.  `BellReturns` needs `BellInv`: while the bell is muted, its
  age and what is left of the quiet period stay below cap plus quiet period.

Every safety property and action property of the passing runs is a theorem.
Only model-checked is liveness under fairness, which is out of the prover's
reach: `KilledSessionGoes`, `ZombieIsReaped`, `OutputArrives`, `EofArrives`,
`RequestsAreAnswered`, `InputArrives`, `StartLeadsToService` and `EachIsServed`.

## 5. Where code and text disagree

One disagreement is a run that expects a violation:

* `kill_window`: `overview_kill_window_execute` kills every member of the
  window's groups.  A pane that was closed out of a tab that is still open is
  detached but still a member, and is killed too, although
  `epimone-overview.c:1586` says "Only this window's tabs. Other windows and
  detached sessions are untouched."  Trace: start, split, save, close one
  pane, kill the window's sessions.

Nine more have a property and a configuration here; TLC finds each violated by
`tlc -config <cfg> <module>`:

| cfg (module) | property | what happens |
|---|---|---|
| `MCDaemonEscalation.cfg` (`MCDaemon`) | `KilledChildDies` | `pty_readable` removes a killed session at PTY EOF (`daemon/server.c:1138`), which disarms the SIGKILL that `server.c:555` announces |
| `MCDataChannelGone.cfg` (`MCDataChannel`) | `DisconnectDetaches` | a peer that disappears with output pending is never closed (`server.c:895`, `1428`) and stays attached, although "a disconnect is treated as a clean DETACH" (`epimone-protocol.h:28`) |
| `MCDataChannelLag.cfg` (`MCDataChannel`) | `BacklogIsBounded` | `MAX_WBUF` marks a lagging client (`server.c:97`) but does not drop it; the buffer goes on growing |
| `MCDataChannelReplay.cfg` (`MCDataChannel`) | `ReplayComesFirst` | `handle_attach` takes a snapshot that found no memory for an empty ring (`server.c:515`, `ring.c:155`): the client gets live output without the replay and is not marked, although "ring replay first, then live" (`epimone-protocol.h:27`) |
| `MCControlConnClose.cfg` (`MCControlConn`) | `CondemnedIsClosed` | a connection condemned with a reply queued is not registered for EPOLLOUT (`server.c:1426`): it is neither drained nor closed; the same goes for what `handle_attach` queued on a connection that it marked |
| `MCDaemonStartRace.cfg` (`MCDaemonStart`) | `SingleInstance` | probe, unlink and bind are not atomic (`daemon/main.c:133`), and a daemon that fails to start unlinks a socket that is not its own (`server.c:1478`) |
| `MCOverviewStale.cfg` (`MCOverview`) | `StaleIdsAreRefused` | after a crash between `groups.json` and `layout.json` the ids of a former daemon are under the stamp of the present one, and the next start attaches whatever has these numbers now, "the one failure this whole mechanism must not have" (`epimone-layout.c:973`); a `layout.json` that cannot be written, or a stamp of 0 because the daemon did not tell its instance, does the same |
| `MCOverviewDetached.cfg` (`MCOverview`) | `DetachedKillSparesTabs` | `overview_kill_detached_execute` does not notice that the *session* list failed (`epimone-overview.c:1439`): every group is then detached, and the sessions of open tabs are killed, although "Attached tabs anywhere are untouched" (`1432`) and "Open tabs are untouched" (`1496`); the property counts only steps that the × of a card could not have made |
| `MCThumbsPartial.cfg` (`MCThumbs`) | `SignedIsWhole` | `render_finish` counts a pane that gave no node among those that contributed (`epimone-overview.c:2332`): a card with a hole is signed and skipped as unchanged, although "a partial render never poses as complete" (`2348`) |

The rest was met while modelling; the models follow the code, and the
properties except these cases by name:

* Daemon.  After a failed allocation the ring stays smaller than `ring.h:9`
  promises.  A frame whose own buffer found no memory is not sent, and the
  connection is not marked (`server.c:109`).  The replies to what a client
  pipelined in one read are all queued before any is flushed: beyond `MAX_WBUF`
  the connection is marked, although the client reads, and the rest of its
  requests is not answered (`server.c:98`, `988`).  A client that attaches to a session whose PTY is closed already is
  never sent EOF.
* Bridge.  `death_idle` takes a failed LIST for "the session is gone" and kills
  (`epimone-page.c:575`).  The 150 ms of `maybe_resize` start again with every
  change of the contents (`epimone-page.c:935`), so a busy pane's size may wait;
  a RESIZE that failed is not repeated.  A session that was created but could
  not be attached stays in the daemon.  The buffer towards the PTY has no limit.
  The bell may be muted for one quiet period longer than its cap.
* Tabs.  A pane opened in a new tab next to a pinned one is inserted where
  AdwTabView refuses it (`epimone-window.c:733`); the page is in no window.  A
  pinned tab whose last shell exits keeps the dead pane.
* Layout.  The frozen flag is never reset (`epimone-layout.c:586`): after one of
  two windows has closed, nothing is saved any more.  `restore_group` looks for
  the group's *members* on screen but builds the *leaves* of its blob, and may
  take a session from another tab.  A file that could not be written
  is not written again until something else changes, and after the save of a
  closing window never (`epimone-layout.c:210`, `414`, `583`).  A group whose GROUP_SET failed changes its id without
  `layout.json` being rewritten.  Zooming within 250 ms of a split makes the
  save skip the tab.  Restoring counts a tab that is already on screen, so that a
  window may be restored with no tab.
* Overview.  A live capture replaces a
  texture but not its signature, against the comment at
  `epimone-overview.c:131`.  A snapshot taken at the backstop before VTE parsed
  anything is stored with its signature.

## 6. Not modelled

* The bodies of frames (`epi_buf_*`, `epi_rd_*`): lengths and types decide what
  the daemon does next, and these are in `ControlConn`.
* Of the layout: `restore_from_v1`, `adopt_existing_group`, renaming a detached
  group, divider ratios and `restore_tick`, parsing of blobs, window geometry.
  They read files of an earlier version or carry data without control.
* Of the page and window: read-only flag, clipboard, fonts and colours, search;
  VTE and GTK keep that state.
* Drawing, geometry and animation of the overview, its search filter: functions
  of the allocation and the query without a history.
* Settings, shortcuts, palette, chrome: widgets over GSettings.
* `epimonectl`: one sequential request per process, over requests that are
  modelled on the daemon's side.
* Group blobs, titles, working directories and environments in the daemon;
  logging, paths, shell integration, packaging.

## 7. What could come next

The codecs with the width of their integers; a refinement from `Bridge` and
`Layout` to `SessionStore`, whose actions they repeat on their side of the
socket; the restore of version 1 files, which creates its sessions anew.
