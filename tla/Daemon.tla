------------------------------- MODULE Daemon -------------------------------
(***************************************************************************)
(* The session daemon: sessions, their PTYs and children, groups, client   *)
(* connections, and the single-threaded epoll loop that serves them.       *)
(*                                                                         *)
(* One epoll_wait returns a batch; the events of the batch are handled one *)
(* at a time in any order, a handler is never interrupted by another, and  *)
(* the kernel (children exiting, peers connecting, signals, time) moves    *)
(* between any two steps.  A connection's read and the waitpid loop are    *)
(* loops in the code and sequences of steps here, with pc keeping every    *)
(* other handler out.                                                      *)
(*                                                                         *)
(* Bytes are abstracted away: whether a connection's write buffer          *)
(* overflows or is drained is a nondeterministic choice here, and is       *)
(* modelled in DataChannel.  Group blobs and PTY input carry no control.   *)
(***************************************************************************)
EXTENDS Naturals, FiniteSets

CONSTANTS
  Conns,        \* connection objects that can exist at one time
  NoConn,       \* a NULL connection pointer
  Pids,         \* process ids; the kernel reuses a pid once it is reaped
  NoPid,        \* the pid of a session slot that holds no session
  MaxSessions,  \* bound: sessions created in one daemon's life
  MaxGroups,    \* bound: groups created in one daemon's life
  GroupMax,     \* EPI_GROUP_MAX, groups that may exist at one time
  BatchMax      \* events epoll_wait returns at most

ASSUME ConstantsAssumption ==
  /\ NoConn \notin Conns /\ NoPid \notin Pids
  /\ MaxSessions \in Nat /\ MaxGroups \in Nat /\ GroupMax \in Nat /\ BatchMax \in Nat

SessionId == 1 .. MaxSessions
GroupId   == 1 .. MaxGroups

VARIABLES
  sessions,   \* srv->sessions: ids of the sessions on the list
  dead,       \* srv->dead: unlinked this batch, freed at its end
  nextId,     \* srv->next_id
  alive, killing, removed,  \* the flags of struct epi_session
  ptyOpen,    \* pty_master >= 0
  client,     \* s->client
  pid,        \* s->pid, for a session on the list or the dead list
  due,        \* kill_deadline has passed
  groups, nextGroupId, groupId,   \* srv->groups, counter, s->group_id
  conns,      \* srv->conns
  isData, session, wantClose,     \* the fields of struct connection
  backlog,    \* connected peers waiting in the listen queue
  procState, procOf,  \* the kernel's process table: state, and whose child
  sig,        \* the strongest signal the daemon has sent to a process
  slaveOpen,  \* some process still holds the session's PTY slave
  sigchld, sigterm,   \* signals pending on the signalfd
  evPty, evConn, evSig, evListen, \* events of the batch not handled yet
  pc, cur,    \* where the loop is; the connection being read
  running     \* srv->running

sessVars == <<sessions, dead, nextId, alive, killing, removed, ptyOpen, client, pid, due>>
groupVars == <<groups, nextGroupId, groupId>>
connVars == <<conns, isData, session, wantClose, backlog>>
kernVars == <<procState, procOf, sig, slaveOpen, sigchld, sigterm>>
loopVars == <<evPty, evConn, evSig, evListen, pc, cur, running>>
vars == <<sessVars, groupVars, connVars, kernVars, loopVars>>

-----------------------------------------------------------------------------
(* Helpers *)

\* find_session(srv, id, 0): what LIST shows and every request can name.
Listed == {s \in sessions : ~removed[s]}

\* session_in_group over the list: ss, rm, gr are the list, flags and ids.
Members(ss, rm, gr, g) == {s \in ss : ~rm[s] /\ gr[s] = g}

GroupMembers(g) == Members(sessions, removed, groupId, g)

\* Mutant of GcGroupIfEmpty: the group goes with the first member that leaves.
GcGroupAlways(gid, ss, rm, gr) == groups \ {gid}

\* Mutant of GcGroupIfEmpty: session_in_group forgets the removed flag.
GcGroupWithHidden(gid, ss, rm, gr) ==
  groups \ {g \in groups : g = gid /\ \A s \in ss : gr[s] # g}

\* gc_group_if_empty, applied to the membership a handler leaves behind.
GcGroupIfEmpty(gid, ss, rm, gr) ==
  groups \ {g \in groups : g = gid /\ Members(ss, rm, gr, g) = {}}

\* Mutant of UnbindSession: c->session is not cleared.
KeepSession(s) == session

\* Unbinding session s from its client: the client's half of the link, and
\* its want_close flag.  over is the requesting connection if its reply made
\* conn_queue give up on it (backlog or memory), NoConn otherwise.
UnbindSession(s) == [k \in Conns |-> IF k = client[s] THEN 0 ELSE session[k]]
CloseClient(s, over) ==
  [k \in Conns |-> wantClose[k] \/ k = client[s] \/ k = over]

Overflow(over) == [k \in Conns |-> wantClose[k] \/ k = over]

\* Mutant of RemoveSession: the session is freed at once.
RemoveAndFree(s, over) ==
  /\ sessions' = sessions \ {s}
  /\ UNCHANGED dead
  /\ client' = [client EXCEPT ![s] = NoConn]
  /\ session' = UnbindSession(s)
  /\ wantClose' = CloseClient(s, over)
  /\ ptyOpen' = [ptyOpen EXCEPT ![s] = FALSE]
  /\ groups' = GcGroupIfEmpty(groupId[s], sessions', removed, groupId)

\* remove_session.  It leaves the flags alone; groups is collected from the
\* list without s.
RemoveSession(s, over) ==
  /\ sessions' = sessions \ {s}
  /\ dead' = dead \union {s}
  /\ client' = [client EXCEPT ![s] = NoConn]
  /\ session' = UnbindSession(s)
  /\ wantClose' = CloseClient(s, over)
  /\ ptyOpen' = [ptyOpen EXCEPT ![s] = FALSE]
  /\ groups' = GcGroupIfEmpty(groupId[s], sessions', removed, groupId)

\* What remove_session leaves alone.
NotRemoved == <<nextId, killing, removed, pid, due, nextGroupId, groupId, conns, isData, backlog>>
\* What remove_session changes.
Removal == <<sessions, dead, client, session, wantClose, ptyOpen, groups>>

-----------------------------------------------------------------------------
Init ==
  /\ sessions = {} /\ dead = {} /\ nextId = 0
  /\ alive = [s \in SessionId |-> FALSE]
  /\ killing = [s \in SessionId |-> FALSE]
  /\ removed = [s \in SessionId |-> FALSE]
  /\ ptyOpen = [s \in SessionId |-> FALSE]
  /\ client = [s \in SessionId |-> NoConn]
  /\ pid = [s \in SessionId |-> NoPid]
  /\ due = [s \in SessionId |-> FALSE]
  /\ groups = {} /\ nextGroupId = 0
  /\ groupId = [s \in SessionId |-> 0]
  /\ conns = {} /\ backlog = {}
  /\ isData = [c \in Conns |-> FALSE]
  /\ session = [c \in Conns |-> 0]
  /\ wantClose = [c \in Conns |-> FALSE]
  /\ procState = [p \in Pids |-> "free"]
  /\ procOf = [p \in Pids |-> 0]
  /\ sig = [p \in Pids |-> "none"]
  /\ slaveOpen = [s \in SessionId |-> FALSE]
  /\ sigchld = FALSE /\ sigterm = FALSE
  /\ evPty = {} /\ evConn = {} /\ evSig = FALSE /\ evListen = FALSE
  /\ pc = "wait" /\ cur = NoConn /\ running = TRUE

-----------------------------------------------------------------------------
(* The kernel and the outside world *)

\* A client calls connect(): the listen queue holds it until accept.
Connect(c) ==
  /\ pc # "stopped" /\ c \notin conns \union backlog
  /\ backlog' = backlog \union {c}
  /\ UNCHANGED <<sessVars, groupVars, conns, isData, session, wantClose, kernVars, loopVars>>

\* A child exits, of itself or by a signal; SIGCHLD is one pending bit.
ChildExit(p) ==
  /\ procState[p] = "running"
  /\ procState' = [procState EXCEPT ![p] = "zombie"]
  /\ sigchld' = TRUE
  /\ UNCHANGED <<sessVars, groupVars, connVars, procOf, sig, slaveOpen, sigterm, loopVars>>

\* The last holder of the PTY slave closes it.  Descendants may keep it open
\* past the child's exit, and the child may close it while it lives.
SlaveClose(s) ==
  /\ ptyOpen[s] /\ slaveOpen[s]
  /\ slaveOpen' = [slaveOpen EXCEPT ![s] = FALSE]
  /\ UNCHANGED <<sessVars, groupVars, connVars, procState, procOf, sig, sigchld, sigterm, loopVars>>

\* KILL_GRACE_MS pass after a KILL.
DeadlinePass(s) ==
  /\ s \in sessions /\ killing[s] /\ ~due[s]
  /\ due' = [due EXCEPT ![s] = TRUE]
  /\ UNCHANGED <<sessions, dead, nextId, alive, killing, removed, ptyOpen, client, pid,
                 groupVars, connVars, kernVars, loopVars>>

\* SIGTERM or SIGINT is sent to the daemon.
Terminate ==
  /\ pc # "stopped" /\ running /\ ~sigterm
  /\ sigterm' = TRUE
  /\ UNCHANGED <<sessVars, groupVars, connVars, procState, procOf, sig, slaveOpen, sigchld, loopVars>>

-----------------------------------------------------------------------------
(* epi_server_run: waiting for a batch, and the end of a batch *)

\* Mutant of TimedOut: epoll_wait sleeps without a timeout.
NeverTimedOut == FALSE

\* next_timeout is >= 0 and has elapsed: a killed child outlived its grace.
TimedOut == \E s \in sessions : killing[s] /\ alive[s] /\ due[s]

BatchSize(ps, cs, es, el) ==
  Cardinality(ps) + Cardinality(cs) + (IF es THEN 1 ELSE 0) + (IF el THEN 1 ELSE 0)

\* epoll_wait.  Signals, peers waiting to be accepted and hung-up PTYs are
\* reported, unless the batch is full; output and client bytes may or may not
\* have arrived.
EpollWait ==
  /\ pc = "wait" /\ running
  /\ evSig' \in {FALSE, sigchld \/ sigterm}
  /\ evListen' \in {FALSE, backlog # {}}
  /\ \E ps \in SUBSET {s \in sessions : ptyOpen[s]}, cs \in SUBSET conns :
       /\ evPty' = ps
       /\ evConn' = cs
       /\ evSig' \/ evListen' \/ ps # {} \/ cs # {} \/ TimedOut
       /\ BatchSize(ps, cs, evSig', evListen') <= BatchMax
       /\ \/ BatchSize(ps, cs, evSig', evListen') = BatchMax
          \/ /\ {s \in sessions : ptyOpen[s] /\ ~slaveOpen[s]} \subseteq ps
             /\ evSig' = (sigchld \/ sigterm)
             /\ evListen' = (backlog # {})
  /\ pc' = "batch"
  /\ UNCHANGED <<sessVars, groupVars, connVars, kernVars, cur, running>>

\* reap_dead_sessions then process_kill_deadlines, when no event is left.
\* A freed session's fields are gone.
EndBatch ==
  /\ pc = "batch" /\ evPty = {} /\ evConn = {} /\ ~evSig /\ ~evListen
  /\ dead' = {}
  /\ LET Free(f, blank) == [s \in SessionId |-> IF s \in dead THEN blank ELSE f[s]]
         expired == {s \in sessions : killing[s] /\ alive[s] /\ due[s]}
     IN /\ alive' = Free(alive, FALSE)
        /\ removed' = Free(removed, FALSE)
        /\ pid' = Free(pid, NoPid)
        /\ due' = Free(due, FALSE)
        /\ groupId' = Free(groupId, 0)
        /\ slaveOpen' = Free(slaveOpen, FALSE)
        /\ killing' = [s \in SessionId |-> killing[s] /\ s \notin dead \union expired]
        /\ sig' = [p \in Pids |-> IF \E s \in expired : pid[s] = p THEN "kill" ELSE sig[p]]
  /\ pc' = "wait"
  /\ UNCHANGED <<sessions, nextId, ptyOpen, client, groups, nextGroupId, connVars,
                 procState, procOf, sigchld, sigterm, evPty, evConn, evSig, evListen, cur, running>>

\* epi_server_shutdown: hang up every live child, free everything.
Shutdown ==
  /\ pc = "wait" /\ ~running
  /\ sig' = [p \in Pids |-> IF \E s \in sessions : alive[s] /\ pid[s] = p /\ sig[p] = "none"
                            THEN "hup" ELSE sig[p]]
  /\ sessions' = {} /\ groups' = {} /\ conns' = {} /\ backlog' = {}
  /\ ptyOpen' = [s \in SessionId |-> FALSE]
  /\ client' = [s \in SessionId |-> NoConn]
  /\ session' = [c \in Conns |-> 0]
  /\ pc' = "stopped"
  /\ UNCHANGED <<dead, nextId, alive, killing, removed, pid, due, nextGroupId, groupId, isData,
                 wantClose, procState, procOf, slaveOpen, sigchld, sigterm,
                 evPty, evConn, evSig, evListen, cur, running>>

Stopped == pc = "stopped" /\ UNCHANGED vars

-----------------------------------------------------------------------------
(* Listen, signal and PTY events *)

\* accept_conn takes the queue until accept fails; a connection that cannot
\* be allocated or registered is closed at once.
AcceptConn ==
  /\ pc = "batch" /\ evListen
  /\ \E taken \in SUBSET backlog :
       /\ \E ok \in SUBSET taken : conns' = conns \union ok
       /\ backlog' = backlog \ taken
       /\ isData' = [c \in Conns |-> isData[c] /\ c \notin taken]
       /\ session' = [c \in Conns |-> IF c \in taken THEN 0 ELSE session[c]]
       /\ wantClose' = [c \in Conns |-> wantClose[c] /\ c \notin taken]
  /\ evListen' = FALSE
  /\ UNCHANGED <<sessVars, groupVars, kernVars, evPty, evConn, evSig, pc, cur, running>>

\* handle_signalfd starts, and reads one siginfo after another.  The kernel
\* hands out the lowest signal number first: SIGINT and SIGTERM before SIGCHLD.
SignalEvent ==
  /\ pc = "batch" /\ evSig
  /\ evSig' = FALSE /\ pc' = "signal"
  /\ UNCHANGED <<sessVars, groupVars, connVars, kernVars, evPty, evConn, evListen, cur, running>>

ReadSignal ==
  /\ pc = "signal"
  /\ \/ /\ sigterm
        /\ sigterm' = FALSE /\ running' = FALSE /\ pc' = "batch"
        /\ UNCHANGED sigchld
     \/ /\ ~sigterm /\ sigchld
        /\ sigchld' = FALSE /\ pc' = "reap"
        /\ UNCHANGED <<sigterm, running>>
     \/ /\ ~sigterm /\ ~sigchld
        /\ pc' = "batch"
        /\ UNCHANGED <<sigchld, sigterm, running>>
  /\ UNCHANGED <<sessVars, groupVars, connVars, procState, procOf, sig, slaveOpen,
                 evPty, evConn, evSig, evListen, cur>>

\* Mutant of OwnerOf: the oldest session with the pid.
OldestOwnerOf(p) ==
  {s \in sessions : pid[s] = p /\ \A t \in sessions : pid[t] = p => s <= t}

\* The session reap_children charges a reaped pid to: the first match on the
\* list, which is newest first.
OwnerOf(p) ==
  {s \in sessions : pid[s] = p /\ \A t \in sessions : pid[t] = p => t <= s}

\* One turn of the waitpid loop.  The pid is free for reuse from here on.
ReapChild(p) ==
  /\ pc = "reap" /\ procState[p] = "zombie"
  /\ procState' = [procState EXCEPT ![p] = "free"]
  /\ procOf' = [procOf EXCEPT ![p] = 0]
  /\ sig' = [sig EXCEPT ![p] = "none"]
  /\ LET own == OwnerOf(p) IN
       /\ alive' = [s \in SessionId |-> alive[s] /\ s \notin own]
       /\ \/ /\ \A s \in own : ~removed[s]
             /\ UNCHANGED Removal
          \/ \E s \in own : removed[s] /\ RemoveSession(s, NoConn)
  /\ UNCHANGED <<NotRemoved, slaveOpen, sigchld, sigterm, loopVars>>

\* Mutant of ReapDone: waitpid is not called until it has nothing to report.
ReapOnce ==
  /\ pc = "reap"
  /\ pc' = "signal"
  /\ UNCHANGED <<sessVars, groupVars, connVars, kernVars, evPty, evConn, evSig, evListen, cur, running>>

ReapDone ==
  /\ pc = "reap" /\ \A p \in Pids : procState[p] # "zombie"
  /\ pc' = "signal"
  /\ UNCHANGED <<sessVars, groupVars, connVars, kernVars, evPty, evConn, evSig, evListen, cur, running>>

\* A PTY event of a session that an earlier event of the batch removed.
StalePtyEvent(s) ==
  /\ pc = "batch" /\ s \in evPty /\ (s \in dead \/ ~ptyOpen[s])
  /\ evPty' = evPty \ {s}
  /\ UNCHANGED <<sessVars, groupVars, connVars, kernVars, evConn, evSig, evListen, pc, cur, running>>

\* pty_readable up to EAGAIN: output goes to the ring and to the client, who
\* may prove gone (conn_flush) or too slow (conn_queue).
PtyOutput(s) ==
  /\ pc = "batch" /\ s \in evPty /\ s \notin dead /\ ptyOpen[s] /\ slaveOpen[s]
  /\ \E over \in {client[s], NoConn} : wantClose' = Overflow(over)
  /\ evPty' = evPty \ {s}
  /\ UNCHANGED <<sessVars, groupVars, conns, isData, session, backlog, kernVars,
                 evConn, evSig, evListen, pc, cur, running>>

\* pty_readable to EOF or EIO: the master is closed; a killed session goes,
\* any other keeps its place and its client is told (client_eof).
PtyEof(s) ==
  /\ pc = "batch" /\ s \in evPty /\ s \notin dead /\ ptyOpen[s] /\ ~slaveOpen[s]
  /\ \/ /\ removed[s] /\ RemoveSession(s, NoConn)
     \/ /\ ~removed[s]
        /\ ptyOpen' = [ptyOpen EXCEPT ![s] = FALSE]
        /\ wantClose' = CloseClient(s, NoConn)
        /\ UNCHANGED <<sessions, dead, client, session, groups>>
  /\ evPty' = evPty \ {s}
  /\ UNCHANGED <<NotRemoved, alive, kernVars, evConn, evSig, evListen, pc, cur, running>>

-----------------------------------------------------------------------------
(* Connection events: EPOLLOUT flush, conn_read, then conn_update or close *)

ConnEvent(c) ==
  /\ pc = "batch" /\ c \in evConn
  /\ evConn' = evConn \ {c} /\ pc' = "read" /\ cur' = c
  /\ UNCHANGED <<sessVars, groupVars, connVars, kernVars, evPty, evSig, evListen, running>>

\* The event ends.  want_close is set by EOF, an error or a bad frame (any of
\* them possible), and the connection closes if nothing is left to send; a
\* disconnect is a DETACH.
ConnDone(c) ==
  /\ pc \in {"read", "served"} /\ cur = c
  /\ pc' = "batch" /\ cur' = NoConn
  /\ \/ /\ \E over \in {c, NoConn} : wantClose' = Overflow(over)
        /\ UNCHANGED <<conns, client, session, isData>>
     \/ /\ conns' = conns \ {c}
        /\ client' = [s \in SessionId |-> IF s = session[c] /\ client[s] = c
                                          THEN NoConn ELSE client[s]]
        /\ session' = [session EXCEPT ![c] = 0]
        /\ isData' = [isData EXCEPT ![c] = FALSE]
        /\ wantClose' = [wantClose EXCEPT ![c] = FALSE]
  /\ UNCHANGED <<sessions, dead, nextId, alive, killing, removed, ptyOpen, pid, due,
                 groupVars, backlog, kernVars, evPty, evConn, evSig, evListen, running>>

\* conn_read hands c's next frame to dispatch_frame.  Once ATTACH has made c
\* a data channel, its bytes are input.
Dispatching(c) == pc = "read" /\ cur = c /\ ~isData[c]

\* The connections a reply to c can condemn: conn_queue runs out of memory or
\* past MAX_WBUF.
Spill(c) == {c, NoConn}

\* After a frame: the parse loop goes on, unless want_close breaks it.
NextFrame(c) ==
  /\ pc' = IF wantClose'[c] THEN "served" ELSE "read"
  /\ UNCHANGED <<evPty, evConn, evSig, evListen, cur, running>>

\* Requests that only reply: LIST, PEEK, GROUP_LIST, RESIZE, GROUP_SET (its
\* blob is not modelled), and every request that is malformed or fails.
HandleQuery(c) ==
  /\ Dispatching(c)
  /\ \E over \in Spill(c) : wantClose' = Overflow(over)
  /\ UNCHANGED <<sessVars, groupVars, conns, isData, session, backlog, kernVars>>
  /\ NextFrame(c)

\* handle_create: fork a child on a free pid, then register the PTY with
\* epoll.  If that fails, the new session is removed again.
HandleCreate(c) ==
  /\ Dispatching(c) /\ nextId < MaxSessions
  /\ nextId' = nextId + 1
  /\ \E p \in Pids :
       /\ procState[p] = "free"
       /\ procState' = [procState EXCEPT ![p] = "running"]
       /\ procOf' = [procOf EXCEPT ![p] = nextId']
       /\ pid' = [pid EXCEPT ![nextId'] = p]
  /\ alive' = [alive EXCEPT ![nextId'] = TRUE]
  /\ slaveOpen' = [slaveOpen EXCEPT ![nextId'] = TRUE]
  /\ \/ /\ sessions' = sessions \union {nextId'}
        /\ ptyOpen' = [ptyOpen EXCEPT ![nextId'] = TRUE]
        /\ UNCHANGED dead
     \/ /\ dead' = dead \union {nextId'}
        /\ UNCHANGED <<sessions, ptyOpen>>
  /\ \E over \in Spill(c) : wantClose' = Overflow(over)
  /\ UNCHANGED <<killing, removed, client, due, groupVars, conns, isData, session, backlog,
                 sig, sigchld, sigterm>>
  /\ NextFrame(c)

\* handle_attach: the incumbent client, if any, is detached first.
HandleAttach(c, s) ==
  /\ Dispatching(c) /\ s \in Listed
  /\ isData' = [isData EXCEPT ![c] = TRUE]
  /\ client' = [client EXCEPT ![s] = c]
  /\ session' = [UnbindSession(s) EXCEPT ![c] = s]
  /\ \E over \in Spill(c) : wantClose' = CloseClient(s, over)
  /\ UNCHANGED <<sessions, dead, nextId, alive, killing, removed, ptyOpen, pid, due,
                 groupVars, conns, backlog, kernVars>>
  /\ NextFrame(c)

\* handle_detach.
HandleDetach(c, s) ==
  /\ Dispatching(c) /\ s \in Listed
  /\ client' = [client EXCEPT ![s] = NoConn]
  /\ session' = UnbindSession(s)
  /\ \E over \in Spill(c) : wantClose' = CloseClient(s, over)
  /\ UNCHANGED <<sessions, dead, nextId, alive, killing, removed, ptyOpen, pid, due,
                 groupVars, conns, isData, backlog, kernVars>>
  /\ NextFrame(c)

\* Mutant of HandleKillDead: epi_session_hangup does not look at alive.
KillDeadSignals(c, s) ==
  /\ Dispatching(c) /\ s \in Listed /\ ~alive[s]
  /\ \E over \in Spill(c) : RemoveSession(s, over)
  /\ sig' = [sig EXCEPT ![pid[s]] = "hup"]
  /\ UNCHANGED <<NotRemoved, alive, procState, procOf, slaveOpen, sigchld, sigterm>>
  /\ NextFrame(c)

\* handle_kill of a session whose child has been reaped: it goes at once.
HandleKillDead(c, s) ==
  /\ Dispatching(c) /\ s \in Listed /\ ~alive[s]
  /\ \E over \in Spill(c) : RemoveSession(s, over)
  /\ UNCHANGED <<NotRemoved, alive, kernVars>>
  /\ NextFrame(c)

\* Mutant of HandleKillAlive: the deadline is not armed.
KillWithoutDeadline(c, s) ==
  /\ Dispatching(c) /\ s \in Listed /\ alive[s]
  /\ client' = [client EXCEPT ![s] = NoConn]
  /\ session' = UnbindSession(s)
  /\ \E over \in Spill(c) : wantClose' = CloseClient(s, over)
  /\ sig' = [sig EXCEPT ![pid[s]] = "hup"]
  /\ removed' = [removed EXCEPT ![s] = TRUE]
  /\ groups' = GcGroupIfEmpty(groupId[s], sessions, removed', groupId)
  /\ UNCHANGED <<sessions, dead, nextId, alive, killing, ptyOpen, pid, due, nextGroupId, groupId,
                 conns, isData, backlog, procState, procOf, slaveOpen, sigchld, sigterm>>
  /\ NextFrame(c)

\* handle_kill of a live session: SIGHUP, hide it, leave its group, start the
\* grace period.
HandleKillAlive(c, s) ==
  /\ Dispatching(c) /\ s \in Listed /\ alive[s]
  /\ client' = [client EXCEPT ![s] = NoConn]
  /\ session' = UnbindSession(s)
  /\ \E over \in Spill(c) : wantClose' = CloseClient(s, over)
  /\ sig' = [sig EXCEPT ![pid[s]] = "hup"]
  /\ killing' = [killing EXCEPT ![s] = TRUE]
  /\ removed' = [removed EXCEPT ![s] = TRUE]
  /\ groups' = GcGroupIfEmpty(groupId[s], sessions, removed', groupId)
  /\ UNCHANGED <<sessions, dead, nextId, alive, ptyOpen, pid, due, nextGroupId, groupId,
                 conns, isData, backlog, procState, procOf, slaveOpen, sigchld, sigterm>>
  /\ NextFrame(c)

\* handle_group_new.
HandleGroupNew(c) ==
  /\ Dispatching(c) /\ nextGroupId < MaxGroups
  /\ Cardinality(groups) < GroupMax
  /\ nextGroupId' = nextGroupId + 1
  /\ groups' = groups \union {nextGroupId'}
  /\ \E over \in Spill(c) : wantClose' = Overflow(over)
  /\ UNCHANGED <<sessVars, groupId, conns, isData, session, backlog, kernVars>>
  /\ NextFrame(c)

\* handle_group_add: a session moves between groups in one step.
HandleGroupAdd(c, g, s) ==
  /\ Dispatching(c) /\ g \in groups /\ s \in Listed
  /\ groupId' = [groupId EXCEPT ![s] = g]
  /\ groups' = IF groupId[s] # g THEN GcGroupIfEmpty(groupId[s], sessions, removed, groupId')
                                 ELSE groups
  /\ \E over \in Spill(c) : wantClose' = Overflow(over)
  /\ UNCHANGED <<sessVars, nextGroupId, conns, isData, session, backlog, kernVars>>
  /\ NextFrame(c)

\* handle_group_remove.
HandleGroupRemove(c, s) ==
  /\ Dispatching(c) /\ s \in Listed
  /\ groupId' = [groupId EXCEPT ![s] = 0]
  /\ groups' = GcGroupIfEmpty(groupId[s], sessions, removed, groupId')
  /\ \E over \in Spill(c) : wantClose' = Overflow(over)
  /\ UNCHANGED <<sessVars, nextGroupId, conns, isData, session, backlog, kernVars>>
  /\ NextFrame(c)

Handler(c) ==
  \/ HandleQuery(c)
  \/ HandleCreate(c)
  \/ HandleGroupNew(c)
  \/ \E s \in sessions :
       \/ HandleAttach(c, s)
       \/ HandleDetach(c, s)
       \/ HandleKillDead(c, s)
       \/ HandleKillAlive(c, s)
       \/ HandleGroupRemove(c, s)
       \/ \E g \in groups : HandleGroupAdd(c, g, s)

Environment ==
  \/ \E c \in Conns : Connect(c)
  \/ \E p \in Pids : ChildExit(p)
  \/ \E s \in SessionId : SlaveClose(s) \/ DeadlinePass(s)
  \/ Terminate

Loop ==
  \/ EpollWait
  \/ EndBatch
  \/ Shutdown
  \/ AcceptConn
  \/ SignalEvent
  \/ ReadSignal
  \/ \E p \in Pids : ReapChild(p)
  \/ ReapDone
  \/ \E s \in SessionId : StalePtyEvent(s) \/ PtyOutput(s) \/ PtyEof(s)
  \/ \E c \in Conns : ConnEvent(c) \/ ConnDone(c)

Next == Environment \/ Loop \/ (\E c \in Conns : Handler(c)) \/ Stopped

Spec == Init /\ [][Next]_vars

\* What the system owes: the loop keeps running, time passes, a SIGKILLed
\* child dies.
Fairness ==
  /\ WF_vars(Loop)
  /\ \A s \in SessionId : WF_vars(DeadlinePass(s))
  /\ \A p \in Pids : WF_vars(sig[p] = "kill" /\ ChildExit(p))

FairSpec == Spec /\ Fairness

-----------------------------------------------------------------------------
(* Properties *)

\* Every variable has its type; in particular ids never exceed their counters'
\* bounds and every pointer is NULL or a modelled object.
TypeOK ==
  /\ sessions \subseteq SessionId /\ dead \subseteq SessionId
  /\ nextId \in 0 .. MaxSessions
  /\ alive \in [SessionId -> BOOLEAN]
  /\ killing \in [SessionId -> BOOLEAN]
  /\ removed \in [SessionId -> BOOLEAN]
  /\ ptyOpen \in [SessionId -> BOOLEAN]
  /\ client \in [SessionId -> Conns \union {NoConn}]
  /\ pid \in [SessionId -> Pids \union {NoPid}]
  /\ due \in [SessionId -> BOOLEAN]
  /\ groups \subseteq GroupId /\ nextGroupId \in 0 .. MaxGroups
  /\ groupId \in [SessionId -> GroupId \union {0}]
  /\ conns \subseteq Conns /\ backlog \subseteq Conns
  /\ isData \in [Conns -> BOOLEAN]
  /\ session \in [Conns -> SessionId \union {0}]
  /\ wantClose \in [Conns -> BOOLEAN]
  /\ procState \in [Pids -> {"free", "running", "zombie"}]
  /\ procOf \in [Pids -> SessionId \union {0}]
  /\ sig \in [Pids -> {"none", "hup", "kill"}]
  /\ slaveOpen \in [SessionId -> BOOLEAN]
  /\ sigchld \in BOOLEAN /\ sigterm \in BOOLEAN
  /\ evPty \subseteq SessionId /\ evConn \subseteq Conns
  /\ evSig \in BOOLEAN /\ evListen \in BOOLEAN
  /\ pc \in {"wait", "batch", "signal", "reap", "read", "served", "stopped"}
  /\ cur \in Conns \union {NoConn}
  /\ running \in BOOLEAN

\* The two halves of an attachment always agree, whatever attaches, steals,
\* kills, exits and disconnects came in between (server.c sets and clears
\* s->client and c->session in seven places): s->client = c exactly when
\* c->session = s, and both point at objects that have not been freed.
AttachmentIsMutual ==
  /\ \A s \in sessions : client[s] # NoConn =>
       client[s] \in conns /\ session[client[s]] = s
  /\ \A c \in conns : session[c] # 0 =>
       session[c] \in sessions /\ client[session[c]] = c

\* No event still to be handled in a batch points at freed memory: its
\* session is on the list or waiting on the dead list, its connection is
\* open.  This is what deferring the free to the end of the batch is for.
NoUseAfterFree ==
  /\ evPty \subseteq sessions \union dead
  /\ evConn \subseteq conns
  /\ cur # NoConn => cur \in conns /\ cur \notin evConn

\* A session that LIST shows never names a group that GROUP_LIST does not:
\* gc_group_if_empty never takes a group away from under a listed member.
MembershipIsBacked ==
  \A s \in Listed : groupId[s] # 0 => groupId[s] \in groups

\* A group is destroyed exactly by losing its last listed member: not while
\* it has one, and not before it has had one (GROUP_NEW then GROUP_ADD).
GroupLifetime ==
  [][pc' # "stopped" =>
       \A g \in groups : g \notin groups' <=>
         GroupMembers(g) # {} /\ GroupMembers(g)' = {}]_vars

\* While s->alive is set, s->pid is this session's own child, running or not
\* yet reaped, although the kernel reuses pids and dead sessions keep theirs.
\* So SIGHUP and SIGKILL, sent only to live sessions, never hit a stranger.
AliveMeansUnreaped ==
  \A s \in sessions : alive[s] =>
    pid[s] \in Pids /\ procOf[pid[s]] = s /\ procState[pid[s]] # "free"

\* No process of a session that was not killed has been signalled.
OnlyKilledAreSignalled ==
  pc # "stopped" =>
    \A p \in Pids : sig[p] # "none" => procOf[p] \notin Listed

\* A session hidden by KILL is not stranded: it has no client, its child has
\* still to be reaped (which will remove it), and until SIGKILL is sent the
\* escalation stays armed.
HiddenAwaitsReap ==
  \A s \in sessions : removed[s] =>
    /\ alive[s] /\ client[s] = NoConn
    /\ killing[s] \/ sig[pid[s]] = "kill"

\* An exited child is never missed although SIGCHLDs coalesce: a zombie means
\* the signal is pending or the waitpid loop is still running.
ZombieIsNoticed ==
  pc # "stopped" =>
    \A p \in Pids : procState[p] = "zombie" => sigchld \/ pc = "reap"

\* A killed session is eventually off the list, even if its child ignores
\* SIGHUP: the loop wakes for the deadline, SIGKILLs, reaps and removes.
KilledSessionGoes ==
  \A s \in SessionId : s \in sessions /\ removed[s] ~> s \notin sessions

\* An exited child is eventually reaped, unless the daemon stops.
ZombieIsReaped ==
  \A p \in Pids : procState[p] = "zombie" ~> procState[p] = "free" \/ pc = "stopped"

\* After KILL the child dies: SIGKILL follows the grace period if SIGHUP did
\* not do it (handle_kill: "SIGHUP now; escalate to SIGKILL after the grace
\* period").
KilledChildDies ==
  \A s \in SessionId, p \in Pids :
    s \in sessions /\ removed[s] /\ pid[s] = p
      ~> procOf[p] # s \/ procState[p] = "zombie" \/ pc = "stopped"

\* What LIST and GROUP_LIST report is a behaviour of SessionStore, whatever
\* the event loop, the kernel and the other clients do.
Store == INSTANCE SessionStore WITH
  listed <- Listed,
  live <- {s \in Listed : alive[s]},
  attached <- {s \in Listed : client[s] # NoConn},
  member <- [s \in SessionId |-> IF s \in Listed THEN groupId[s] ELSE 0]

ImplementsStore == Store!Spec
=============================================================================
