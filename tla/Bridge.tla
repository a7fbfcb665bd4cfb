------------------------------- MODULE Bridge -------------------------------
(***************************************************************************)
(* The bridge of one pane (EpiBridge in epimone-page.c): it pumps bytes    *)
(* between the daemon's data channel and the local PTY that VTE drives,    *)
(* mutes the bell while the scrollback is replayed, pushes window sizes,   *)
(* and decides at EOF whether the session is to be killed.  Its requests   *)
(* are transactions with the daemon (epimone-client.c), which may exit or  *)
(* be replaced, and which other clients use too.                           *)
(*                                                                         *)
(* Bytes are counted: queues only append at the end and remove at the      *)
(* front.  Time passes in ticks; GLib's timers fire before the next one.   *)
(***************************************************************************)
EXTENDS Integers

CONSTANTS
  Room,         \* capacity of a socket or PTY buffer, in bytes
  MaxQueued,    \* bound: bytes on their way in one direction
  Quiet,        \* EPI_BELL_QUIET_MS, in ticks
  MaxMuted,     \* EPI_BELL_MAX_MS, in ticks
  Debounce,     \* the 150 ms of maybe_resize, in ticks
  Sizes,        \* grids that a pane may have in a split
  FullSize      \* the grid of a pane that is alone in its tab

ASSUME BridgeConstants ==
  /\ Room \in Nat \ {0} /\ MaxQueued \in Nat
  /\ Quiet \in Nat \ {0} /\ MaxMuted \in Nat \ {0} /\ Debounce \in Nat \ {0}
  /\ Sizes \subseteq Nat \ {0} /\ FullSize \in (Nat \ {0}) \ Sizes

Off == -1         \* of a timer: not armed
NoSize == 0       \* last_rows = last_cols = -1

VARIABLES
  open,           \* the pane has a bridge
  dead,           \* schedule_death was called
  step,           \* the bridge's turn: "run", "idle" (death pending), "kill"
  watch,          \* GLib's sources on the two descriptors
  toSock, toSlave,                      \* pending bytes of either direction
  sockIn, sockOut, slaveIn, slaveOut,   \* what the kernel holds
  closed,         \* the daemon closed its end of the data channel
  muted, quietIn, age,                  \* bell: suppressed, timer, since attach
  size, last, resizeIn, pending,        \* grid, last pushed, timer, in a drag
  ptrDown, dragging,                    \* of the page that holds the pane
  seen,           \* history: VTE reported a change since the attach
  up,             \* a daemon runs
  sess,           \* the session that has the pane's id: "none", "alive", "exited"
  ours,           \* the daemon has this bridge's connection attached to it
  replaced,       \* history: the attached session's daemon is gone
  told,           \* history: what LIST said to death_idle
  killed          \* history: the state of the session that KILL hit

io == <<watch, toSock, toSlave, sockIn, sockOut, slaveIn, slaveOut>>
bell == <<muted, quietIn, age>>
winsize == <<size, last, resizeIn, pending, ptrDown, dragging, seen>>
death == <<dead, step, told, killed>>
daemon == <<up, sess, ours, closed, replaced>>
vars == <<open, io, bell, winsize, death, daemon>>

Less(a, b) == IF a < b THEN a ELSE b

-----------------------------------------------------------------------------
(* Attaching and freeing *)

\* epimone_client_attach_session, then epimone_page_attach_bridge.  The daemon
\* evicts whoever is attached.  Last of all VTE gets a size of its own.
Attach ==
  /\ ~open /\ up /\ sess = "alive"
  /\ open' = TRUE
  /\ watch' = {"sock_in", "slave_in"}
  /\ toSock' = 0 /\ toSlave' = 0
  /\ sockIn' = 0 /\ sockOut' = 0 /\ slaveIn' = 0 /\ slaveOut' = 0
  /\ muted' = TRUE /\ quietIn' = Quiet /\ age' = 0
  /\ size' \in Sizes \union {FullSize}
  /\ last' = NoSize /\ resizeIn' = Off /\ pending' = FALSE
  /\ ptrDown' = FALSE /\ dragging' = FALSE /\ seen' = FALSE
  /\ dead' = FALSE /\ step' = "run" /\ told' = "nothing" /\ killed' = "none"
  /\ ours' = TRUE /\ closed' = FALSE /\ replaced' = FALSE
  /\ UNCHANGED <<up, sess>>

\* bridge_free, when the pane is destroyed: no source or timer outlives it,
\* and closing the data channel detaches the session.
BridgeFree ==
  /\ open' = FALSE
  /\ watch' = {} /\ toSock' = 0 /\ toSlave' = 0
  /\ sockIn' = 0 /\ sockOut' = 0 /\ slaveIn' = 0 /\ slaveOut' = 0
  /\ quietIn' = Off /\ muted' = FALSE /\ age' = 0
  /\ size' = NoSize /\ last' = NoSize /\ resizeIn' = Off /\ pending' = FALSE
  /\ ptrDown' = FALSE /\ dragging' = FALSE /\ seen' = FALSE
  /\ dead' = FALSE /\ step' = "run"

ClosePane ==
  /\ open /\ step # "kill"
  /\ BridgeFree
  /\ ours' = FALSE /\ closed' = FALSE
  /\ UNCHANGED <<up, sess, replaced, told, killed>>

-----------------------------------------------------------------------------
(* Pumping.  flush_buf writes until the buffer or the room is used up. *)

Running == open /\ step # "kill"

\* schedule_death
ScheduleDeath ==
  /\ dead' = TRUE
  /\ step' = IF dead THEN step ELSE "idle"
  /\ UNCHANGED <<told, killed>>

\* Mutant of Watched: the source is not registered again.
WatchedOnce(source, queue) == IF queue = 0 THEN watch \ {source} ELSE watch

\* A source for what could not be written, and none when nothing is left.
Watched(source, queue) ==
  IF queue = 0 THEN watch \ {source} ELSE watch \union {source}

\* forward_to_sock, of n bytes.
ForwardToSock(n) ==
  IF closed
  THEN /\ toSock' = toSock + n
       /\ ScheduleDeath
       /\ UNCHANGED <<watch, sockOut>>
  ELSE LET k == Less(toSock + n, Room - sockOut) IN
       /\ toSock' = toSock + n - k
       /\ sockOut' = sockOut + k
       /\ watch' = Watched("sock_out", toSock + n - k)
       /\ UNCHANGED death

\* Mutant of BellWindow: no cap, every chunk opens the window further.
BellWindowUncapped ==
  /\ quietIn' = IF muted THEN Quiet ELSE quietIn
  /\ UNCHANGED <<muted, age>>

\* epimone_bridge_bell_window
BellWindow ==
  /\ muted' = (muted /\ age < MaxMuted)
  /\ quietIn' = IF ~muted THEN quietIn ELSE IF age >= MaxMuted THEN Off ELSE Quiet
  /\ UNCHANGED age

\* forward_to_slave, of n bytes.
ForwardToSlave(n) ==
  LET k == Less(toSlave + n, Room - slaveIn) IN
  /\ BellWindow
  /\ toSlave' = toSlave + n - k
  /\ slaveIn' = slaveIn + k
  /\ watch' = Watched("slave_out", toSlave + n - k)

OnSockReadable ==
  /\ Running /\ "sock_in" \in watch
  /\ \/ \E n \in 1..sockIn :
          /\ ForwardToSlave(n)
          /\ sockIn' = sockIn - n
          /\ UNCHANGED death
     \/ /\ sockIn = 0 /\ closed
        /\ watch' = watch \ {"sock_in"}
        /\ ScheduleDeath
        /\ UNCHANGED <<toSlave, sockIn, slaveIn, bell>>
  /\ UNCHANGED <<open, toSock, sockOut, slaveOut, winsize, daemon>>

OnSockWritable ==
  /\ Running /\ "sock_out" \in watch
  /\ \/ /\ closed
        /\ watch' = watch \ {"sock_out"}
        /\ ScheduleDeath
        /\ UNCHANGED <<toSock, sockOut>>
     \/ /\ ~closed /\ sockOut < Room
        /\ ForwardToSock(0)
  /\ UNCHANGED <<open, toSlave, sockIn, slaveIn, slaveOut, bell, winsize, daemon>>

OnSlaveReadable ==
  /\ Running /\ "slave_in" \in watch
  /\ \E n \in 1..slaveOut :
       /\ slaveOut' = slaveOut - n
       /\ ForwardToSock(n)
  /\ UNCHANGED <<open, toSlave, sockIn, slaveIn, bell, winsize, daemon>>

OnSlaveWritable ==
  /\ Running /\ "slave_out" \in watch /\ slaveIn < Room
  /\ LET k == Less(toSlave, Room - slaveIn) IN
       /\ toSlave' = toSlave - k
       /\ slaveIn' = slaveIn + k
       /\ watch' = Watched("slave_out", toSlave - k)
  /\ UNCHANGED <<open, toSock, sockIn, sockOut, slaveOut, bell, winsize, death, daemon>>

-----------------------------------------------------------------------------
(* Window sizes *)

\* epimone_page_maybe_resize, on a page that is being dragged, or not.
MaybeResize(drag) ==
  IF dead THEN UNCHANGED <<pending, resizeIn>>
  ELSE IF drag THEN pending' = TRUE /\ UNCHANGED resizeIn
  ELSE resizeIn' = Debounce /\ UNCHANGED pending

\* epimone_page_resize_flush.  The reply to RESIZE is not looked at.
ResizeFlush == last' = IF dead THEN last ELSE size

OnResizeTimer ==
  /\ Running /\ resizeIn = 0
  /\ resizeIn' = Off
  /\ ResizeFlush
  /\ UNCHANGED <<open, size, pending, ptrDown, dragging, seen, io, bell, death, daemon>>

\* epimone_page_flush_pending_resizes, of the page that was dragged.
FlushPending ==
  IF pending
  THEN pending' = FALSE /\ resizeIn' = Off /\ ResizeFlush
  ELSE UNCHANGED <<pending, resizeIn, last>>

EndDrag ==
  /\ dragging' = FALSE
  /\ IF dragging THEN FlushPending ELSE UNCHANGED <<pending, resizeIn, last>>

\* epimone_page_root_event_cb.  A press may follow a press: the release
\* between them was lost with a broken grab.
PointerButton(press) ==
  /\ Running
  /\ ptrDown' = press
  /\ EndDrag
  /\ UNCHANGED <<open, size, seen, io, bell, death, daemon>>

\* VTE tells of a new grid, and of new contents, by contents-changed.
ContentsChanged(drag) == seen' = TRUE /\ MaybeResize(drag)

\* epimone_paned_position_cb, then the allocation of the pane.
DividerMoves(s) ==
  /\ Running
  /\ dragging' = (dragging \/ ptrDown)
  /\ size' = s
  /\ ContentsChanged(dragging')
  /\ UNCHANGED <<open, last, ptrDown, io, bell, death, daemon>>

\* The window was resized, or the pane zoomed.
Reallocated(s) ==
  /\ Running
  /\ size' = s
  /\ ContentsChanged(dragging)
  /\ UNCHANGED <<open, last, ptrDown, dragging, io, bell, death, daemon>>

\* epimone_page_adopt_leaf by a new page, perhaps in the middle of a drag, the
\* end of which is then told to the old page.
MoveToNewTab ==
  /\ Running /\ size # FullSize
  /\ size' = FullSize
  /\ ptrDown' = FALSE /\ dragging' = FALSE
  /\ ContentsChanged(FALSE)
  /\ UNCHANGED <<open, last, io, bell, death, daemon>>

-----------------------------------------------------------------------------
(* Time *)

\* epimone_bridge_bell_quiet_cb
OnBellTimer ==
  /\ Running /\ quietIn = 0
  /\ quietIn' = Off /\ muted' = FALSE
  /\ UNCHANGED <<open, age, io, winsize, death, daemon>>

Tick ==
  /\ Running /\ quietIn # 0 /\ resizeIn # 0
  /\ age' = Less(age + 1, MaxMuted + Quiet)     \* bound: it stops there
  /\ quietIn' = IF quietIn = Off THEN Off ELSE quietIn - 1
  /\ resizeIn' = IF resizeIn = Off THEN Off ELSE resizeIn - 1
  /\ UNCHANGED <<open, muted, size, last, pending, ptrDown, dragging, seen, io, death, daemon>>

-----------------------------------------------------------------------------
(* Death: two transactions, with the rest of the world between them *)

\* Mutant of DeathList: kill whatever EOF was for.
DeathListIgnored ==
  /\ open /\ step = "idle"
  /\ step' = "kill" /\ told' = "gone"
  /\ UNCHANGED <<open, dead, killed, io, bell, winsize, daemon>>

\* death_idle up to epimone_client_list_sessions, which may fail.
DeathList ==
  /\ open /\ step = "idle"
  /\ \/ /\ up /\ sess = "alive"
        /\ BridgeFree
        /\ told' = "alive"
        /\ ours' = FALSE /\ closed' = FALSE
        /\ UNCHANGED <<killed, up, sess, replaced>>
     \/ /\ step' = "kill"
        /\ told' \in {"failed"} \union (IF up /\ sess # "alive" THEN {"gone"} ELSE {})
        /\ UNCHANGED <<open, dead, killed, io, bell, winsize, daemon>>

\* death_idle: KILL, lost or not, and epimone_page_remove_terminal.
DeathKill ==
  /\ open /\ step = "kill"
  /\ BridgeFree
  /\ ours' = FALSE /\ closed' = FALSE
  /\ \/ up /\ killed' = sess /\ sess' = "none"
     \/ UNCHANGED <<killed, sess>>
  /\ UNCHANGED <<up, replaced, told>>

-----------------------------------------------------------------------------
(* The daemon, VTE and other clients *)

ShellExits ==
  /\ sess = "alive"
  /\ sess' = "exited" /\ ours' = FALSE /\ closed' = (closed \/ ours)
  /\ UNCHANGED <<open, up, replaced, io, bell, winsize, death>>

OtherAttaches ==
  /\ ours
  /\ ours' = FALSE /\ closed' = TRUE
  /\ UNCHANGED <<open, up, sess, replaced, io, bell, winsize, death>>

OtherKills ==
  /\ sess # "none"
  /\ sess' = "none" /\ ours' = FALSE /\ closed' = (closed \/ ours)
  /\ UNCHANGED <<open, up, replaced, io, bell, winsize, death>>

DaemonStops ==
  /\ up
  /\ up' = FALSE /\ sess' = "none" /\ ours' = FALSE /\ closed' = (closed \/ ours)
  /\ replaced' = (replaced \/ open)
  /\ UNCHANGED <<open, io, bell, winsize, death>>

DaemonStarts ==
  /\ ~up /\ up' = TRUE
  /\ UNCHANGED <<open, sess, ours, closed, replaced, io, bell, winsize, death>>

\* A session is created: ids count from 1 in every daemon, so a new daemon may
\* give the pane's id to another session.
Created ==
  /\ up /\ sess = "none"
  /\ ~open \/ replaced
  /\ sess' = "alive"
  /\ UNCHANGED <<open, up, ours, closed, replaced, io, bell, winsize, death>>

DaemonSends ==
  /\ ours /\ sockIn < Room
  /\ sockIn + toSlave + slaveIn < MaxQueued
  /\ sockIn' = sockIn + 1
  /\ UNCHANGED <<open, watch, toSock, toSlave, sockOut, slaveIn, slaveOut,
                 bell, winsize, death, daemon>>

DaemonReads ==
  /\ ours /\ sockOut > 0
  /\ sockOut' = sockOut - 1
  /\ UNCHANGED <<open, watch, toSock, toSlave, sockIn, slaveIn, slaveOut,
                 bell, winsize, death, daemon>>

\* VTE shows output.
VteReads ==
  /\ Running /\ slaveIn > 0
  /\ slaveIn' = slaveIn - 1
  /\ ContentsChanged(dragging)
  /\ UNCHANGED <<open, watch, toSock, toSlave, sockIn, sockOut, slaveOut,
                 size, last, ptrDown, dragging, bell, death, daemon>>

\* The user types.
VteWrites ==
  /\ Running /\ slaveOut < Room
  /\ slaveOut + toSock + sockOut < MaxQueued
  /\ slaveOut' = slaveOut + 1
  /\ UNCHANGED <<open, watch, toSock, toSlave, sockIn, sockOut, slaveIn,
                 bell, winsize, death, daemon>>

-----------------------------------------------------------------------------
Init ==
  /\ open = FALSE /\ dead = FALSE /\ step = "run"
  /\ watch = {} /\ toSock = 0 /\ toSlave = 0
  /\ sockIn = 0 /\ sockOut = 0 /\ slaveIn = 0 /\ slaveOut = 0
  /\ muted = FALSE /\ quietIn = Off /\ age = 0
  /\ size = NoSize /\ last = NoSize /\ resizeIn = Off /\ pending = FALSE
  /\ ptrDown = FALSE /\ dragging = FALSE /\ seen = FALSE
  /\ up = TRUE /\ sess = "none" /\ ours = FALSE /\ closed = FALSE
  /\ replaced = FALSE /\ told = "nothing" /\ killed = "none"

Pump == OnSockReadable \/ OnSockWritable \/ OnSlaveReadable \/ OnSlaveWritable
Resize ==
  \/ OnResizeTimer \/ MoveToNewTab
  \/ \E press \in BOOLEAN : PointerButton(press)
  \/ \E s \in Sizes : DividerMoves(s)
  \/ \E s \in Sizes \union {FullSize} : Reallocated(s)
Death == DeathList \/ DeathKill
Environment ==
  \/ ShellExits \/ OtherAttaches \/ OtherKills \/ DaemonStops \/ DaemonStarts
  \/ Created \/ DaemonSends \/ DaemonReads \/ VteReads \/ VteWrites

Next ==
  \/ Attach \/ ClosePane \/ Pump \/ Resize \/ OnBellTimer \/ Tick
  \/ Death \/ Environment

Spec == Init /\ [][Next]_vars

-----------------------------------------------------------------------------
IoTypes ==
  /\ watch \subseteq {"sock_in", "sock_out", "slave_in", "slave_out"}
  /\ toSock \in Nat /\ toSlave \in Nat
  /\ sockIn \in 0..Room /\ sockOut \in 0..Room
  /\ slaveIn \in 0..Room /\ slaveOut \in 0..Room

BellTypes ==
  muted \in BOOLEAN /\ quietIn \in {Off} \union 0..Quiet /\ age \in 0..MaxMuted + Quiet

SizeTypes ==
  /\ size \in Sizes \union {FullSize, NoSize} /\ last \in Sizes \union {FullSize, NoSize}
  /\ resizeIn \in {Off} \union 0..Debounce /\ pending \in BOOLEAN
  /\ ptrDown \in BOOLEAN /\ dragging \in BOOLEAN /\ seen \in BOOLEAN

DeathTypes ==
  /\ dead \in BOOLEAN /\ step \in {"run", "idle", "kill"}
  /\ told \in {"nothing", "alive", "gone", "failed"}
  /\ killed \in {"none", "alive", "exited"}

DaemonTypes ==
  /\ up \in BOOLEAN /\ sess \in {"none", "alive", "exited"} /\ ours \in BOOLEAN
  /\ closed \in BOOLEAN /\ replaced \in BOOLEAN

TypeOK ==
  open \in BOOLEAN /\ IoTypes /\ BellTypes /\ SizeTypes /\ DeathTypes /\ DaemonTypes

\* Bytes wait only where a source will take them on: what the socket or the
\* PTY did not take at once is watched for, both ends are read until the
\* channel dies, and a channel that died has its idle pending.
BytesAreWatched ==
  open =>
    /\ toSlave > 0 => "slave_out" \in watch
    /\ toSock > 0 => "sock_out" \in watch \/ dead
    /\ "slave_in" \in watch
    /\ "sock_in" \in watch \/ dead
    /\ dead <=> step # "run"

\* The grid that the terminal has settled on gets pushed: once VTE has told
\* of it, it is the last one sent, or the debounce timer runs, or it is held
\* for the end of the drag that is under way on the pane's own page.
SizeIsOnItsWay ==
  open /\ seen /\ ~dead /\ size # last => resizeIn # Off \/ (pending /\ dragging)

\* Nothing of a pane waits for an event that cannot come, whatever order
\* chunks, drags, moves, exits and thefts come in.
NothingIsStuck == TypeOK /\ BytesAreWatched /\ SizeIsOnItsWay

\* death_idle kills a live session only after LIST failed or when the daemon
\* that the pane was attached to is gone: never one that another client took.
KillsOnlyTheDead == killed = "alive" => told = "failed" \/ replaced

\* The bell is muted with a timer that ends it, and for no longer than the cap
\* and one quiet period, however much the session prints.
BellReturns == muted => quietIn # Off /\ age < MaxMuted + Quiet

=============================================================================
