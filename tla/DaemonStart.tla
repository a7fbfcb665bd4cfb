----------------------------- MODULE DaemonStart -----------------------------
(***************************************************************************)
(* How a daemon comes up, how it goes, and how a GUI makes sure that one   *)
(* runs.  The only thing daemons share is the socket file: a daemon probes *)
(* it, unlinks it when nobody answers, binds its own, listens, and unlinks *)
(* it again on its way out.  Each of these is one system call, and so one  *)
(* step; a process may be killed between any two of them.                  *)
(***************************************************************************)
EXTENDS Naturals

CONSTANTS
  Daemons,     \* daemon processes, each started at most once
  Clients,     \* GUI processes that call epimone_client_ensure_daemon
  NoFile,      \* there is no file at the socket path
  MaxPolls     \* 80: how often the GUI polls for the daemon it spawned

ASSUME StartAssumption ==
  /\ NoFile \notin Daemons
  /\ MaxPolls \in Nat

VARIABLES
  path,    \* the daemon whose socket is bound at the path, or NoFile
  stage,   \* per daemon: the system call it is about to make
  gui,     \* per client: where it is in epimone_client_ensure_daemon
  polls,   \* per client: how often it has polled
  calm     \* history: daemons have come and gone one at a time, and no system
           \* call has failed for want of resources

startVars == <<path, stage, gui, polls, calm>>

Stages == {"none", "probe", "unlink", "bind", "listen", "run", "hangup",
           "remove", "exited", "killed"}

\* Stages in which a daemon is neither starting nor stopping.
Settled == {"none", "run", "exited", "killed"}

\* A daemon with a listening socket: the kernel completes a connect() to it.
Listening(d) == stage[d] \in {"run", "hangup"}

\* connect() to the path: refused when the socket there has no listener.
Answers == path # NoFile /\ Listening(path)

\* A daemon starts or stops now: alone, or while another one does.
Disturb == calm' = (calm /\ \A d \in Daemons : stage[d] \in Settled)

-----------------------------------------------------------------------------
StartInit ==
  /\ path = NoFile
  /\ stage = [d \in Daemons |-> "none"]
  /\ gui = [c \in Clients |-> "check"]
  /\ polls = [c \in Clients |-> 0]
  /\ calm = TRUE

Enter(d, s) == stage' = [stage EXCEPT ![d] = s]

-----------------------------------------------------------------------------
(* The daemon *)

\* A user, or a client (Spawn), runs epimone-daemon.
Start(d) ==
  /\ stage[d] = "none"
  /\ Enter(d, "probe") /\ Disturb
  /\ UNCHANGED <<path, gui, polls>>

\* Mutant of Probe: the answer is ignored.
ProbeIgnored(d) ==
  /\ stage[d] = "probe"
  /\ Enter(d, "unlink")
  /\ UNCHANGED <<path, gui, polls, calm>>

\* socket_in_use, and what main makes of its answer.
Probe(d) ==
  /\ stage[d] = "probe"
  /\ \/ Enter(d, IF Answers THEN "exited" ELSE "unlink") /\ UNCHANGED calm
     \/ Enter(d, "bind") /\ calm' = FALSE
  /\ UNCHANGED <<path, gui, polls>>

\* Mutant of Unlink: a stale file is left where it is.
UnlinkSkipped(d) ==
  /\ stage[d] = "unlink"
  /\ Enter(d, "bind")
  /\ UNCHANGED <<path, gui, polls, calm>>

Unlink(d) ==
  /\ stage[d] = "unlink"
  /\ path' = NoFile
  /\ Enter(d, "bind")
  /\ UNCHANGED <<gui, polls, calm>>

\* bind() fails when there is a file at the path.  main then shuts the server
\* down, and epi_server_shutdown unlinks the path that epi_server_init stored.
Bind(d) ==
  /\ stage[d] = "bind"
  /\ IF path = NoFile
       THEN path' = d /\ Enter(d, "listen")
       ELSE UNCHANGED path /\ Enter(d, "remove")
  /\ UNCHANGED <<gui, polls, calm>>

\* daemonize fails: main returns at once.
DaemonizeFails(d) ==
  /\ stage[d] = "bind"
  /\ Enter(d, "exited") /\ calm' = FALSE
  /\ UNCHANGED <<path, gui, polls>>

\* epi_server_init fails before or after bind() for any other reason (after
\* listen(), the shutdown that follows is the one after LoopEnds).
InitFails(d) ==
  /\ stage[d] \in {"bind", "listen"}
  /\ Enter(d, "remove") /\ calm' = FALSE
  /\ UNCHANGED <<path, gui, polls>>

Listen(d) ==
  /\ stage[d] = "listen"
  /\ Enter(d, "run")
  /\ UNCHANGED <<path, gui, polls, calm>>

\* SIGTERM or SIGINT ends the loop; the sessions are hung up first.
LoopEnds(d) ==
  /\ stage[d] = "run"
  /\ Enter(d, "hangup") /\ Disturb
  /\ UNCHANGED <<path, gui, polls>>

\* close(listen_fd)
CloseListener(d) ==
  /\ stage[d] = "hangup"
  /\ Enter(d, "remove")
  /\ UNCHANGED <<path, gui, polls, calm>>

\* Mutant of Remove: the shutdown does not unlink.
RemoveSkipped(d) ==
  /\ stage[d] = "remove"
  /\ Enter(d, "exited")
  /\ UNCHANGED <<path, gui, polls, calm>>

\* unlink(sockpath), whoever's socket is there
Remove(d) ==
  /\ stage[d] = "remove"
  /\ path' = NoFile
  /\ Enter(d, "exited")
  /\ UNCHANGED <<gui, polls, calm>>

\* The process dies: the kernel closes its sockets, the file stays.
Kill(d) ==
  /\ stage[d] \notin {"none", "exited", "killed"}
  /\ Enter(d, "killed")
  /\ UNCHANGED <<path, gui, polls, calm>>

-----------------------------------------------------------------------------
(* epimone_client_ensure_daemon *)

Check(c) ==
  /\ gui[c] = "check"
  /\ gui' = [gui EXCEPT ![c] = IF Answers THEN "ok" ELSE "spawn"]
  /\ UNCHANGED <<path, stage, polls, calm>>

\* g_spawn_async fails
SpawnFails(c) ==
  /\ gui[c] = "spawn"
  /\ gui' = [gui EXCEPT ![c] = "failed"]
  /\ UNCHANGED <<path, stage, polls, calm>>

Spawn(c, d) ==
  /\ gui[c] = "spawn" /\ stage[d] = "none"
  /\ Enter(d, "probe") /\ Disturb
  /\ gui' = [gui EXCEPT ![c] = "poll"]
  /\ UNCHANGED <<path, polls>>

Poll(c) ==
  /\ gui[c] = "poll"
  /\ \/ /\ Answers /\ polls[c] < MaxPolls
        /\ gui' = [gui EXCEPT ![c] = "ok"]
        /\ UNCHANGED polls
     \/ /\ ~Answers /\ polls[c] < MaxPolls
        /\ polls' = [polls EXCEPT ![c] = @ + 1]
        /\ UNCHANGED gui
     \/ /\ polls[c] = MaxPolls
        /\ gui' = [gui EXCEPT ![c] = "failed"]
        /\ UNCHANGED polls
  /\ UNCHANGED <<path, stage, calm>>

-----------------------------------------------------------------------------
DaemonStep(d) ==
  Probe(d) \/ Unlink(d) \/ Bind(d) \/ Listen(d) \/ CloseListener(d) \/ Remove(d)

StartNext ==
  \/ \E d \in Daemons : Start(d) \/ DaemonStep(d) \/ LoopEnds(d) \/ Kill(d)
  \/ \E d \in Daemons : DaemonizeFails(d) \/ InitFails(d)
  \/ \E c \in Clients : Check(c) \/ SpawnFails(c) \/ Poll(c) \/ \E d \in Daemons : Spawn(c, d)

StartSpec == StartInit /\ [][StartNext]_startVars

\* A process that has work to do is scheduled; nothing makes a user start,
\* stop or kill one.
StartFairness ==
  /\ \A d \in Daemons : WF_startVars(DaemonStep(d))
  /\ \A c \in Clients : WF_startVars(Check(c) \/ Poll(c))

StartFairSpec == StartSpec /\ StartFairness

-----------------------------------------------------------------------------
(* Properties *)

\* Every variable has its type.
StartTypeOK ==
  /\ path \in Daemons \cup {NoFile}
  /\ stage \in [Daemons -> Stages]
  /\ gui \in [Clients -> {"check", "spawn", "poll", "ok", "failed"}]
  /\ polls \in [Clients -> 0 .. MaxPolls]
  /\ calm \in BOOLEAN

\* "Single-instance: if the socket answers, another daemon owns it": two
\* daemons never hold sessions at the same time (the probe in main).
SingleInstance ==
  \A d, e \in Daemons : Listening(d) /\ Listening(e) => d = e

\* Daemons that come and go one at a time are never two, and the one in its
\* loop is the one at the socket path: neither the unlink of a starting
\* daemon, nor the one in epi_server_shutdown, nor a file left by a killed
\* daemon takes its sessions out of every client's reach.
OneReachableDaemon ==
  calm => SingleInstance /\ \A d \in Daemons : stage[d] = "run" => path = d

\* Whatever its predecessors left at the path, running the daemon program
\* leads to a daemon that answers, unless the new process is killed first.
StartLeadsToService ==
  \A d \in Daemons :
    stage[d] = "probe" ~> Answers \/ stage[d] = "killed" \/ ~calm

\* Whatever starts, stops and fails at the same time, a socket file belongs to
\* a process that is still going to remove it, or to one that was killed:
\* every other way out of main passes through unlink.
NoLitter ==
  path # NoFile => stage[path] \in {"listen", "run", "hangup", "remove", "killed"}
=============================================================================
