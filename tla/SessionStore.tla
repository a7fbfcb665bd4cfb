---------------------------- MODULE SessionStore ----------------------------
(***************************************************************************)
(* What the daemon promises its clients, as seen through LIST and          *)
(* GROUP_LIST alone: no connections, PTYs, processes or event loop.        *)
(*                                                                         *)
(* A session is listed from its CREATE until a KILL names it, dead or      *)
(* alive; only the shutdown of the daemon takes it away otherwise.  Ids    *)
(* are never used twice.  A session belongs to at most one group, always   *)
(* an existing one, and a group vanishes in the very step in which its     *)
(* last listed member leaves it.                                           *)
(***************************************************************************)
EXTENDS Naturals

CONSTANTS MaxSessions, MaxGroups

VARIABLES
  listed,      \* the sessions LIST reports
  live,        \* those of them reported alive
  attached,    \* those of them reported attached
  groups,      \* the groups GROUP_LIST reports
  member,      \* the group of each listed session, 0 for none
  nextId, nextGroupId

vars == <<listed, live, attached, groups, member, nextId, nextGroupId>>

Ids == 1 .. MaxSessions
MembersOf(g, ls, m) == {s \in ls : m[s] = g}

\* The groups left once the members are ls and m: one that had a member and
\* has none now is gone.
Surviving(ls, m) ==
  {g \in groups : MembersOf(g, listed, member) # {} => MembersOf(g, ls, m) # {}}

Init ==
  /\ listed = {} /\ live = {} /\ attached = {} /\ groups = {}
  /\ member = [s \in Ids |-> 0]
  /\ nextId = 0 /\ nextGroupId = 0

\* A session appears alive, unattached and ungrouped under a fresh id.
Create ==
  /\ nextId < MaxSessions
  /\ nextId' = nextId + 1
  /\ listed' = listed \union {nextId'} /\ live' = live \union {nextId'}
  /\ UNCHANGED <<attached, groups, member, nextGroupId>>

\* A failed creation may use up an id.
CreateFails ==
  /\ nextId < MaxSessions
  /\ nextId' = nextId + 1
  /\ UNCHANGED <<listed, live, attached, groups, member, nextGroupId>>

\* A child exits: the session stays, reported dead.
Exit(s) ==
  /\ s \in live
  /\ live' = live \ {s}
  /\ UNCHANGED <<listed, attached, groups, member, nextId, nextGroupId>>

Attach(s) ==
  /\ s \in listed
  /\ attached' = attached \union {s}
  /\ UNCHANGED <<listed, live, groups, member, nextId, nextGroupId>>

Detach(s) ==
  /\ s \in attached
  /\ attached' = attached \ {s}
  /\ UNCHANGED <<listed, live, groups, member, nextId, nextGroupId>>

\* KILL: the session leaves the listing and its group at once.
Kill(s) ==
  /\ s \in listed
  /\ listed' = listed \ {s} /\ live' = live \ {s} /\ attached' = attached \ {s}
  /\ member' = [member EXCEPT ![s] = 0]
  /\ groups' = Surviving(listed', member')
  /\ UNCHANGED <<nextId, nextGroupId>>

NewGroup ==
  /\ nextGroupId < MaxGroups
  /\ nextGroupId' = nextGroupId + 1
  /\ groups' = groups \union {nextGroupId'}
  /\ UNCHANGED <<listed, live, attached, member, nextId>>

\* GROUP_ADD (g a group) and GROUP_REMOVE (g = 0).
Move(s, g) ==
  /\ s \in listed /\ g \in groups \union {0}
  /\ member' = [member EXCEPT ![s] = g]
  /\ groups' = Surviving(listed, member')
  /\ UNCHANGED <<listed, live, attached, nextId, nextGroupId>>

\* The daemon stops and everything goes.
Stop ==
  /\ listed' = {} /\ live' = {} /\ attached' = {} /\ groups' = {}
  /\ member' = [s \in Ids |-> 0]
  /\ UNCHANGED <<nextId, nextGroupId>>

Next ==
  \/ Create \/ CreateFails \/ NewGroup \/ Stop
  \/ \E s \in Ids :
       \/ Exit(s) \/ Attach(s) \/ Detach(s) \/ Kill(s)
       \/ \E g \in groups \union {0} : Move(s, g)

Spec == Init /\ [][Next]_vars
=============================================================================
