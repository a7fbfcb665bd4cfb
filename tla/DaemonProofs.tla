---------------------------- MODULE DaemonProofs ----------------------------
(***************************************************************************)
(* Proofs about Daemon, for any number of connections, pids, sessions and  *)
(* groups: type correctness, the safety invariants, the life of a group,   *)
(* and that the daemon implements SessionStore.  Then DaemonStart, for any *)
(* number of daemons and clients.                                          *)
(***************************************************************************)
EXTENDS Daemon, DaemonStart, TLAPS

\* The actions of Next with the disjuncts regrouped by their parameters.
LEMMA NextCases ==
  ASSUME [Next]_vars
  PROVE  \/ \E c \in Conns : Connect(c) \/ ConnEvent(c) \/ ConnDone(c) \/ HandleQuery(c)
                             \/ HandleCreate(c) \/ HandleGroupNew(c)
         \/ \E p \in Pids : ChildExit(p) \/ ReapChild(p)
         \/ \E s \in SessionId : SlaveClose(s) \/ DeadlinePass(s) \/ StalePtyEvent(s)
                                 \/ PtyOutput(s) \/ PtyEof(s)
         \/ Terminate \/ EpollWait \/ EndBatch \/ Shutdown \/ AcceptConn
         \/ SignalEvent \/ ReadSignal \/ ReapDone \/ UNCHANGED vars
         \/ \E c \in Conns, s \in sessions :
              \/ HandleAttach(c, s) \/ HandleDetach(c, s) \/ HandleKillDead(c, s)
              \/ HandleKillAlive(c, s) \/ HandleGroupRemove(c, s)
              \/ \E g \in groups : HandleGroupAdd(c, g, s)
  BY DEF Next, Environment, Loop, Handler, Stopped

-----------------------------------------------------------------------------
(* Type correctness *)

\* The variables remove_session assigns keep their types.
LEMMA RemovalType ==
  ASSUME TypeOK, NEW s \in SessionId, NEW over, RemoveSession(s, over)
  PROVE  /\ sessions' \subseteq SessionId /\ dead' \subseteq SessionId
         /\ client' \in [SessionId -> Conns \union {NoConn}]
         /\ session' \in [Conns -> SessionId \union {0}]
         /\ wantClose' \in [Conns -> BOOLEAN]
         /\ ptyOpen' \in [SessionId -> BOOLEAN]
         /\ groups' \subseteq GroupId
  BY DEF TypeOK, RemoveSession, UnbindSession, CloseClient, GcGroupIfEmpty

LEMMA TypeStep ==
  ASSUME TypeOK, [Next]_vars PROVE TypeOK'
<1> USE DEF TypeOK, sessVars, groupVars, connVars, kernVars, loopVars
<1>1. ASSUME NEW c \in Conns, Connect(c) \/ ConnEvent(c) \/ ConnDone(c) PROVE TypeOK'
  <2>1. CASE Connect(c) BY <2>1 DEF Connect
  <2>2. CASE ConnEvent(c) BY <2>2 DEF ConnEvent
  <2>3. CASE ConnDone(c) BY <2>3 DEF ConnDone, Overflow
  <2> QED BY <1>1, <2>1, <2>2, <2>3
<1>2. ASSUME NEW c \in Conns, HandleQuery(c) \/ HandleGroupNew(c) PROVE TypeOK'
  <2>1. CASE HandleQuery(c) BY <2>1 DEF HandleQuery, NextFrame, Overflow
  <2>2. CASE HandleGroupNew(c)
    BY <2>2, ConstantsAssumption DEF HandleGroupNew, NextFrame, Overflow, GroupId
  <2> QED BY <1>2, <2>1, <2>2
<1>3. ASSUME NEW c \in Conns, HandleCreate(c) PROVE TypeOK'
  <2>1. nextId' \in SessionId /\ nextId' \in 0 .. MaxSessions
    BY <1>3, ConstantsAssumption DEF HandleCreate, SessionId
  <2>2. sessions' \subseteq SessionId /\ dead' \subseteq SessionId
    BY <1>3, <2>1 DEF HandleCreate
  <2>3. PICK p \in Pids : /\ procState' = [procState EXCEPT ![p] = "running"]
                          /\ procOf' = [procOf EXCEPT ![p] = nextId']
                          /\ pid' = [pid EXCEPT ![nextId'] = p]
    BY <1>3 DEF HandleCreate
  <2>4. /\ procState' \in [Pids -> {"free", "running", "zombie"}]
        /\ procOf' \in [Pids -> SessionId \union {0}]
        /\ pid' \in [SessionId -> Pids \union {NoPid}]
    BY <2>1, <2>3
  <2>5. ptyOpen' \in [SessionId -> BOOLEAN] /\ alive' \in [SessionId -> BOOLEAN]
        /\ slaveOpen' \in [SessionId -> BOOLEAN] /\ wantClose' \in [Conns -> BOOLEAN]
    BY <1>3, <2>1 DEF HandleCreate, Overflow
  <2> QED
    BY <1>3, <2>1, <2>2, <2>4, <2>5 DEF HandleCreate, NextFrame
<1>4. ASSUME NEW p \in Pids, ChildExit(p) PROVE TypeOK'
  BY <1>4 DEF ChildExit
<1>5. ASSUME NEW p \in Pids, ReapChild(p) PROVE TypeOK'
  <2>1. CASE UNCHANGED Removal
    BY <1>5, <2>1 DEF ReapChild, NotRemoved, Removal
  <2>2. ASSUME NEW s \in SessionId, RemoveSession(s, NoConn) PROVE TypeOK'
    BY <1>5, <2>2, RemovalType DEF ReapChild, NotRemoved
  <2> QED
    BY <1>5, <2>1, <2>2 DEF ReapChild, OwnerOf
<1>6. ASSUME NEW s \in SessionId, SlaveClose(s) \/ DeadlinePass(s) \/ StalePtyEvent(s)
      PROVE TypeOK'
  BY <1>6 DEF SlaveClose, DeadlinePass, StalePtyEvent
<1>7. ASSUME NEW s \in SessionId, PtyOutput(s) PROVE TypeOK'
  BY <1>7 DEF PtyOutput, Overflow
<1>8. ASSUME NEW s \in SessionId, PtyEof(s) PROVE TypeOK'
  <2>1. CASE RemoveSession(s, NoConn)
    BY <1>8, <2>1, RemovalType DEF PtyEof, NotRemoved
  <2>2. CASE ~RemoveSession(s, NoConn)
    BY <1>8, <2>2 DEF PtyEof, NotRemoved, CloseClient
  <2> QED BY <2>1, <2>2
<1>9. CASE Terminate \/ EpollWait \/ SignalEvent \/ ReapDone
  BY <1>9 DEF Terminate, EpollWait, SignalEvent, ReapDone
<1>10. CASE EndBatch BY <1>10 DEF EndBatch
<1>11. CASE Shutdown BY <1>11 DEF Shutdown
<1>12. CASE AcceptConn BY <1>12 DEF AcceptConn
<1>13. CASE ReadSignal BY <1>13 DEF ReadSignal
<1>14. CASE UNCHANGED vars BY <1>14 DEF vars
<1>15. ASSUME NEW c \in Conns, NEW s \in sessions, HandleAttach(c, s) \/ HandleDetach(c, s)
       PROVE TypeOK'
  <2>1. CASE HandleAttach(c, s)
    BY <2>1 DEF HandleAttach, NextFrame, UnbindSession, CloseClient
  <2>2. CASE HandleDetach(c, s)
    BY <2>2 DEF HandleDetach, NextFrame, UnbindSession, CloseClient
  <2> QED BY <1>15, <2>1, <2>2
<1>16. ASSUME NEW c \in Conns, NEW s \in sessions, HandleKillDead(c, s) PROVE TypeOK'
  BY <1>16, RemovalType DEF HandleKillDead, NextFrame, NotRemoved
<1>17. ASSUME NEW c \in Conns, NEW s \in sessions, HandleKillAlive(c, s) PROVE TypeOK'
  BY <1>17 DEF HandleKillAlive, NextFrame, UnbindSession, CloseClient, GcGroupIfEmpty
<1>18. ASSUME NEW c \in Conns, NEW s \in sessions,
              HandleGroupRemove(c, s) \/ \E g \in groups : HandleGroupAdd(c, g, s)
       PROVE TypeOK'
  <2>1. CASE HandleGroupRemove(c, s)
    BY <2>1 DEF HandleGroupRemove, NextFrame, Overflow, GcGroupIfEmpty
  <2>2. ASSUME NEW g \in groups, HandleGroupAdd(c, g, s) PROVE TypeOK'
    BY <2>2 DEF HandleGroupAdd, NextFrame, Overflow, GcGroupIfEmpty
  <2> QED BY <1>18, <2>1, <2>2
<1> QED
  BY <1>1, <1>2, <1>3, <1>4, <1>5, <1>6, <1>7, <1>8, <1>9, <1>10, <1>11, <1>12, <1>13,
     <1>14, <1>15, <1>16, <1>17, <1>18, NextCases

LEMMA TypeInit == Init => TypeOK
<1>1. 0 \in 0 .. MaxSessions /\ 0 \in 0 .. MaxGroups
  BY ConstantsAssumption
<1> SUFFICES ASSUME Init PROVE TypeOK
  OBVIOUS
<1> USE DEF Init
<1>2. /\ alive \in [SessionId -> BOOLEAN] /\ killing \in [SessionId -> BOOLEAN]
      /\ removed \in [SessionId -> BOOLEAN] /\ ptyOpen \in [SessionId -> BOOLEAN]
      /\ due \in [SessionId -> BOOLEAN] /\ slaveOpen \in [SessionId -> BOOLEAN]
      /\ isData \in [Conns -> BOOLEAN] /\ wantClose \in [Conns -> BOOLEAN]
  OBVIOUS
<1>3. /\ client \in [SessionId -> Conns \union {NoConn}]
      /\ pid \in [SessionId -> Pids \union {NoPid}]
      /\ groupId \in [SessionId -> GroupId \union {0}]
      /\ session \in [Conns -> SessionId \union {0}]
  OBVIOUS
<1>4. /\ procState \in [Pids -> {"free", "running", "zombie"}]
      /\ procOf \in [Pids -> SessionId \union {0}]
      /\ sig \in [Pids -> {"none", "hup", "kill"}]
  OBVIOUS
<1> QED BY <1>1, <1>2, <1>3, <1>4 DEF TypeOK

\* Every reachable state of the daemon is well typed.
THEOREM TypeCorrect == Spec => []TypeOK
<1>1. TypeOK /\ [Next]_vars => TypeOK'
  BY TypeStep
<1> QED
  BY TypeInit, <1>1, PTL DEF Spec

-----------------------------------------------------------------------------
(* The inductive invariant *)

\* Both halves of an attachment, and that only a data channel has one: what
\* makes AttachmentIsMutual inductive (ATTACH binds a connection that is not
\* a data channel yet, so it has no binding to lose).
Links ==
  /\ \A s \in SessionId : client[s] # NoConn =>
       /\ s \in sessions /\ client[s] \in conns
       /\ session[client[s]] = s /\ isData[client[s]]
  /\ \A c \in Conns : session[c] # 0 =>
       c \in conns /\ session[c] \in sessions /\ client[session[c]] = c

\* Where events can be pending, and that the connection being read is open.
Events ==
  /\ NoUseAfterFree
  /\ pc \in {"read", "served"} <=> cur # NoConn
  /\ pc \in {"wait", "stopped"} => evPty = {} /\ evConn = {}
  /\ conns \intersect backlog = {}

linkVars == <<sessions, client, conns, session, isData>>

LEMMA LinksUnchanged ==
  ASSUME Links, UNCHANGED linkVars PROVE Links'
  BY DEF Links, linkVars

\* Removing a session that is on the list unbinds it from both sides.
LEMMA LinksRemoval ==
  ASSUME TypeOK, Links, NEW s \in sessions, NEW over, RemoveSession(s, over),
         UNCHANGED <<conns, isData>>
  PROVE  Links'
  BY ConstantsAssumption DEF TypeOK, Links, RemoveSession, UnbindSession, SessionId

LEMMA LinksStep ==
  ASSUME TypeOK, Links, Events, [Next]_vars PROVE Links'
<1> USE DEF sessVars, groupVars, connVars, kernVars, loopVars
<1>1. ASSUME NEW c \in Conns, ConnDone(c) PROVE Links'
  <2>1. CASE UNCHANGED <<conns, client, session, isData>>
    BY <1>1, <2>1, LinksUnchanged DEF ConnDone, linkVars
  <2>2. CASE ~UNCHANGED <<conns, client, session, isData>>
    <3>1. /\ conns' = conns \ {c} /\ sessions' = sessions
          /\ client' = [s \in SessionId |-> IF s = session[c] /\ client[s] = c
                                            THEN NoConn ELSE client[s]]
          /\ session' = [session EXCEPT ![c] = 0]
          /\ isData' = [isData EXCEPT ![c] = FALSE]
      BY <1>1, <2>2 DEF ConnDone
    <3>2. \A s \in SessionId : client'[s] = IF client[s] = c THEN NoConn ELSE client[s]
      BY <3>1 DEF Links
    <3>3. \A k \in Conns : session'[k] = IF k = c THEN 0 ELSE session[k]
      BY <3>1 DEF TypeOK
    <3>4. \A k \in Conns : k # c => isData'[k] = isData[k]
      BY <3>1 DEF TypeOK
    <3> QED BY <3>1, <3>2, <3>3, <3>4, ConstantsAssumption DEF Links, TypeOK
  <2> QED BY <2>1, <2>2
<1>2. ASSUME NEW c \in Conns, HandleCreate(c) PROVE Links'
  BY <1>2 DEF HandleCreate, TypeOK, Links
<1>3. ASSUME NEW p \in Pids, ReapChild(p) PROVE Links'
  <2>1. CASE UNCHANGED Removal
    BY <1>3, <2>1, LinksUnchanged DEF ReapChild, NotRemoved, Removal, linkVars
  <2>2. ASSUME NEW s \in sessions, RemoveSession(s, NoConn) PROVE Links'
    BY <1>3, <2>2, LinksRemoval DEF ReapChild, NotRemoved
  <2> QED
    BY <1>3, <2>1, <2>2 DEF ReapChild, OwnerOf
<1>4. ASSUME NEW s \in SessionId, PtyEof(s) PROVE Links'
  <2>1. CASE RemoveSession(s, NoConn)
    <3>1. s \in sessions
      BY <1>4 DEF PtyEof, Events, NoUseAfterFree
    <3> QED BY <1>4, <2>1, <3>1, LinksRemoval DEF PtyEof, NotRemoved
  <2>2. CASE ~RemoveSession(s, NoConn)
    BY <1>4, <2>2, LinksUnchanged DEF PtyEof, NotRemoved, linkVars
  <2> QED BY <2>1, <2>2
<1>5. CASE Shutdown
  BY <1>5 DEF Shutdown, Links
<1>6. CASE AcceptConn
  BY <1>6 DEF AcceptConn, TypeOK, Links, Events
<1>7. ASSUME NEW c \in Conns, NEW s \in sessions, HandleAttach(c, s) PROVE Links'
  <2>1. c \in conns /\ ~isData[c] /\ session[c] = 0
    BY <1>7, ConstantsAssumption DEF HandleAttach, Dispatching, TypeOK, Links, Events, NoUseAfterFree
  <2> QED
    BY <1>7, <2>1, ConstantsAssumption
       DEF HandleAttach, UnbindSession, TypeOK, Links, SessionId
<1>8. ASSUME NEW c \in Conns, NEW s \in sessions, HandleDetach(c, s) \/ HandleKillAlive(c, s)
      PROVE Links'
  BY <1>8, ConstantsAssumption
     DEF HandleDetach, HandleKillAlive, UnbindSession, TypeOK, Links, SessionId
<1>9. ASSUME NEW c \in Conns, NEW s \in sessions, HandleKillDead(c, s) PROVE Links'
  BY <1>9, LinksRemoval DEF HandleKillDead, NotRemoved
<1>10. ASSUME NEW c \in Conns,
              Connect(c) \/ ConnEvent(c) \/ HandleQuery(c) \/ HandleGroupNew(c)
       PROVE Links'
  BY <1>10, LinksUnchanged DEF Connect, ConnEvent, HandleQuery, HandleGroupNew, linkVars
<1>11. ASSUME NEW p \in Pids, ChildExit(p) PROVE Links'
  BY <1>11, LinksUnchanged DEF ChildExit, linkVars
<1>12. ASSUME NEW s \in SessionId,
              SlaveClose(s) \/ DeadlinePass(s) \/ StalePtyEvent(s) \/ PtyOutput(s)
       PROVE Links'
  BY <1>12, LinksUnchanged DEF SlaveClose, DeadlinePass, StalePtyEvent, PtyOutput, linkVars
<1>13. CASE Terminate \/ EpollWait \/ EndBatch \/ SignalEvent \/ ReadSignal \/ ReapDone
            \/ UNCHANGED vars
  BY <1>13, LinksUnchanged
     DEF Terminate, EpollWait, EndBatch, SignalEvent, ReadSignal, ReapDone, vars, linkVars
<1>14. ASSUME NEW c \in Conns, NEW s \in sessions,
              HandleGroupRemove(c, s) \/ \E g \in groups : HandleGroupAdd(c, g, s)
       PROVE Links'
  BY <1>14, LinksUnchanged DEF HandleGroupRemove, HandleGroupAdd, linkVars
<1> QED
  BY <1>1, <1>2, <1>3, <1>4, <1>5, <1>6, <1>7, <1>8, <1>9, <1>10, <1>11, <1>12, <1>13, <1>14,
     NextCases

-----------------------------------------------------------------------------
\* Events: a batch never points at a freed object.

LEMMA EventsStep ==
  ASSUME TypeOK, Events, [Next]_vars PROVE Events'
<1> USE ConstantsAssumption
    DEF Events, NoUseAfterFree, sessVars, groupVars, connVars, kernVars, loopVars
<1>1. ASSUME NEW c \in Conns, Connect(c) PROVE Events'
  BY <1>1 DEF Connect
<1>2. ASSUME NEW c \in Conns, ConnEvent(c) PROVE Events'
  BY <1>2 DEF ConnEvent, TypeOK
<1>3. ASSUME NEW c \in Conns, ConnDone(c) PROVE Events'
  BY <1>3 DEF ConnDone, TypeOK
<1>4. ASSUME NEW c \in Conns, HandleQuery(c) \/ HandleCreate(c) \/ HandleGroupNew(c) PROVE Events'
  <2>1. CASE HandleQuery(c) BY <2>1 DEF HandleQuery, Dispatching, NextFrame
  <2>2. CASE HandleCreate(c) BY <2>2 DEF HandleCreate, Dispatching, NextFrame
  <2>3. CASE HandleGroupNew(c) BY <2>3 DEF HandleGroupNew, Dispatching, NextFrame
  <2> QED BY <1>4, <2>1, <2>2, <2>3
<1>5. ASSUME NEW p \in Pids, ChildExit(p) \/ ReapChild(p) PROVE Events'
  <2>1. CASE ChildExit(p) BY <2>1 DEF ChildExit
  <2>2. CASE ReapChild(p) BY <2>2 DEF ReapChild, RemoveSession, NotRemoved, Removal
  <2> QED BY <1>5, <2>1, <2>2
<1>6. ASSUME NEW s \in SessionId, SlaveClose(s) \/ DeadlinePass(s) PROVE Events'
  BY <1>6 DEF SlaveClose, DeadlinePass
<1>7. ASSUME NEW s \in SessionId, StalePtyEvent(s) \/ PtyOutput(s) PROVE Events'
  BY <1>7 DEF StalePtyEvent, PtyOutput
<1>8. ASSUME NEW s \in SessionId, PtyEof(s) PROVE Events'
  BY <1>8 DEF PtyEof, RemoveSession, NotRemoved
<1>9. CASE EpollWait BY <1>9 DEF EpollWait
<1>10. CASE EndBatch BY <1>10 DEF EndBatch
<1>11. CASE Shutdown BY <1>11 DEF Shutdown
<1>12. CASE AcceptConn BY <1>12 DEF AcceptConn, TypeOK
<1>13. CASE SignalEvent \/ ReadSignal \/ ReapDone
  BY <1>13 DEF SignalEvent, ReadSignal, ReapDone
<1>14. CASE Terminate \/ UNCHANGED vars BY <1>14 DEF Terminate, vars
<1>15. ASSUME NEW c \in Conns, NEW s \in sessions, HandleAttach(c, s) \/ HandleDetach(c, s)
       PROVE Events'
  BY <1>15 DEF HandleAttach, HandleDetach, Dispatching, NextFrame
<1>16. ASSUME NEW c \in Conns, NEW s \in sessions, HandleKillDead(c, s) PROVE Events'
  BY <1>16 DEF HandleKillDead, RemoveSession, NotRemoved, Dispatching, NextFrame
<1>17. ASSUME NEW c \in Conns, NEW s \in sessions, HandleKillAlive(c, s) PROVE Events'
  BY <1>17 DEF HandleKillAlive, Dispatching, NextFrame
<1>18. ASSUME NEW c \in Conns, NEW s \in sessions,
              HandleGroupRemove(c, s) \/ \E g \in groups : HandleGroupAdd(c, g, s)
       PROVE Events'
  BY <1>18 DEF HandleGroupRemove, HandleGroupAdd, Dispatching, NextFrame
<1> QED
  BY <1>1, <1>2, <1>3, <1>4, <1>5, <1>6, <1>7, <1>8, <1>9, <1>10, <1>11, <1>12, <1>13, <1>14,
     <1>15, <1>16, <1>17, <1>18, NextCases

-----------------------------------------------------------------------------
(* Ids and groups *)

\* An id above the counter has never been used, and a session is not on both
\* lists.
Fresh ==
  /\ sessions \intersect dead = {}
  /\ \A s \in SessionId : s > nextId =>
       s \notin sessions \union dead /\ ~removed[s] /\ ~killing[s] /\ groupId[s] = 0
  /\ \A p \in Pids : procOf[p] <= nextId

freshVars == <<sessions, dead, nextId, removed, killing, groupId, procOf>>

LEMMA FreshUnchanged ==
  ASSUME Fresh, UNCHANGED freshVars PROVE Fresh'
  BY DEF Fresh, freshVars

LEMMA FreshStep ==
  ASSUME TypeOK, Events, Fresh, [Next]_vars PROVE Fresh'
<1> USE DEF sessVars, groupVars, connVars, kernVars, loopVars
<1>1. ASSUME NEW c \in Conns, HandleCreate(c) PROVE Fresh'
  <2>1. nextId' = nextId + 1 /\ nextId \in Nat /\ nextId' \in SessionId
    BY <1>1, ConstantsAssumption DEF HandleCreate, TypeOK, SessionId
  <2>2. \A s \in SessionId : s > nextId' => s > nextId /\ s # nextId'
    BY <2>1 DEF SessionId
  <2>3. (sessions \intersect dead)' = {}
    BY <1>1, <2>1 DEF HandleCreate, Fresh, SessionId
  <2>4. ASSUME NEW p \in Pids PROVE procOf'[p] <= nextId'
    <3>1. procOf'[p] = procOf[p] \/ procOf'[p] = nextId'
      BY <1>1 DEF HandleCreate, TypeOK
    <3>2. procOf[p] \in Nat /\ procOf[p] <= nextId
      BY DEF Fresh, TypeOK, SessionId
    <3> QED BY <2>1, <3>1, <3>2
  <2>5. (sessions \union dead)' \subseteq sessions \union dead \union {nextId'}
    BY <1>1 DEF HandleCreate
  <2>6. UNCHANGED <<removed, killing, groupId>>
    BY <1>1 DEF HandleCreate
  <2> QED
    BY <2>2, <2>3, <2>4, <2>5, <2>6 DEF Fresh
<1>2. ASSUME NEW p \in Pids, ReapChild(p) PROVE Fresh'
  <2>1. /\ (sessions \intersect dead)' = {}
        /\ (sessions \union dead)' = sessions \union dead
    BY <1>2 DEF ReapChild, RemoveSession, Removal, OwnerOf, Fresh
  <2>2. \A q \in Pids : procOf'[q] <= nextId
    BY <1>2 DEF ReapChild, Fresh, TypeOK
  <2>3. UNCHANGED <<nextId, removed, killing, groupId>>
    BY <1>2 DEF ReapChild, NotRemoved
  <2> QED BY <2>1, <2>2, <2>3 DEF Fresh
<1>3. ASSUME NEW s \in SessionId, PtyEof(s) PROVE Fresh'
  BY <1>3 DEF PtyEof, RemoveSession, NotRemoved, Fresh, Events, NoUseAfterFree
<1>4. CASE EndBatch
  BY <1>4 DEF EndBatch, Fresh, TypeOK
<1>5. CASE Shutdown
  BY <1>5 DEF Shutdown, Fresh
<1>6. ASSUME NEW c \in Conns, NEW s \in sessions, HandleKillDead(c, s) PROVE Fresh'
  BY <1>6 DEF HandleKillDead, RemoveSession, NotRemoved, Fresh, TypeOK
<1>7. ASSUME NEW c \in Conns, NEW s \in sessions, HandleKillAlive(c, s) PROVE Fresh'
  BY <1>7 DEF HandleKillAlive, Fresh, TypeOK
<1>8. ASSUME NEW c \in Conns, NEW s \in sessions,
             HandleGroupRemove(c, s) \/ \E g \in groups : HandleGroupAdd(c, g, s)
      PROVE Fresh'
  BY <1>8 DEF HandleGroupRemove, HandleGroupAdd, Fresh, TypeOK
<1>9. ASSUME NEW c \in Conns, NEW s \in sessions, HandleAttach(c, s) \/ HandleDetach(c, s)
      PROVE Fresh'
  BY <1>9, FreshUnchanged DEF HandleAttach, HandleDetach, freshVars
<1>10. ASSUME NEW c \in Conns, Connect(c) \/ ConnEvent(c) \/ ConnDone(c) \/ HandleQuery(c)
                               \/ HandleGroupNew(c)
       PROVE Fresh'
  BY <1>10, FreshUnchanged
     DEF Connect, ConnEvent, ConnDone, HandleQuery, HandleGroupNew, freshVars
<1>11. ASSUME NEW p \in Pids, ChildExit(p) PROVE Fresh'
  BY <1>11, FreshUnchanged DEF ChildExit, freshVars
<1>12. ASSUME NEW s \in SessionId,
              SlaveClose(s) \/ DeadlinePass(s) \/ StalePtyEvent(s) \/ PtyOutput(s)
       PROVE Fresh'
  BY <1>12, FreshUnchanged DEF SlaveClose, DeadlinePass, StalePtyEvent, PtyOutput, freshVars
<1>13. CASE Terminate \/ EpollWait \/ AcceptConn \/ SignalEvent \/ ReadSignal \/ ReapDone
            \/ UNCHANGED vars
  BY <1>13, FreshUnchanged
     DEF Terminate, EpollWait, AcceptConn, SignalEvent, ReadSignal, ReapDone, vars, freshVars
<1> QED
  BY <1>1, <1>2, <1>3, <1>4, <1>5, <1>6, <1>7, <1>8, <1>9, <1>10, <1>11, <1>12, <1>13, NextCases

\* MembershipIsBacked, and: a group that any session on the list names, a
\* killed one included, has a listed member.  Without it the removal of a
\* killed session could collect a group that never lost a member.
GroupInv ==
  /\ MembershipIsBacked
  /\ \A s \in sessions : groupId[s] \in groups => GroupMembers(groupId[s]) # {}
  /\ \A s \in SessionId : groupId[s] <= nextGroupId
  /\ \A g \in groups : g <= nextGroupId

gVars == <<sessions, removed, groups, nextGroupId, groupId>>

LEMMA GroupUnchanged ==
  ASSUME GroupInv, UNCHANGED gVars PROVE GroupInv'
  BY DEF GroupInv, MembershipIsBacked, Listed, GroupMembers, Members, gVars

\* remove_session keeps GroupInv, and destroys a group exactly when the
\* removed session was its last listed member.
LEMMA GroupRemoval ==
  ASSUME TypeOK, GroupInv, NEW s \in sessions, NEW over, RemoveSession(s, over),
         UNCHANGED <<removed, groupId, nextGroupId>>
  PROVE  /\ GroupInv'
         /\ \A g \in groups : g \notin groups' <=> GroupMembers(g) # {} /\ GroupMembers(g)' = {}
  BY DEF TypeOK, GroupInv, RemoveSession, GcGroupIfEmpty, MembershipIsBacked, Listed,
         GroupMembers, Members

\* What one step does to a group: the body of GroupLifetime.
GroupStep ==
  pc' # "stopped" =>
    \A g \in groups : g \notin groups' <=> GroupMembers(g) # {} /\ GroupMembers(g)' = {}

LEMMA QuietGroupStep ==
  ASSUME UNCHANGED gVars PROVE GroupStep
  BY DEF GroupStep, GroupMembers, Members, gVars

LEMMA GroupInvStep ==
  ASSUME TypeOK, Events, Fresh, GroupInv, [Next]_vars PROVE GroupInv' /\ GroupStep
<1> USE DEF sessVars, groupVars, connVars, kernVars, loopVars
<1>1. ASSUME NEW c \in Conns, HandleCreate(c) PROVE GroupInv' /\ GroupStep
  <2>1. nextId' = nextId + 1 /\ nextId' \in SessionId /\ nextId' > nextId
    BY <1>1, ConstantsAssumption DEF HandleCreate, TypeOK, SessionId
  <2>2. groupId[nextId'] = 0 /\ ~removed[nextId'] /\ 0 \notin groups
    BY <2>1 DEF Fresh, TypeOK, GroupId
  <2>3. \A g \in groups : GroupMembers(g)' = GroupMembers(g)
    BY <1>1, <2>2 DEF HandleCreate, GroupMembers, Members
  <2> QED
    BY <1>1, <2>2, <2>3 DEF HandleCreate, GroupInv, GroupStep, MembershipIsBacked, Listed
<1>2. ASSUME NEW c \in Conns, HandleGroupNew(c) PROVE GroupInv' /\ GroupStep
  <2>1. nextGroupId' = nextGroupId + 1 /\ nextGroupId \in Nat
    BY <1>2, ConstantsAssumption DEF HandleGroupNew, TypeOK
  <2>2. \A s \in SessionId : groupId[s] \in Nat /\ groupId[s] # nextGroupId'
    BY <2>1 DEF GroupInv, TypeOK, GroupId
  <2>3. \A g \in groups : g \in Nat
    BY DEF TypeOK, GroupId
  <2> QED
    BY <1>2, <2>1, <2>2, <2>3
       DEF HandleGroupNew, GroupInv, GroupStep, MembershipIsBacked, Listed, GroupMembers, Members, TypeOK
<1>3. ASSUME NEW p \in Pids, ReapChild(p) PROVE GroupInv' /\ GroupStep
  <2>1. CASE UNCHANGED Removal
    BY <1>3, <2>1, GroupUnchanged, QuietGroupStep DEF ReapChild, NotRemoved, Removal, gVars
  <2>2. ASSUME NEW s \in sessions, RemoveSession(s, NoConn) PROVE GroupInv' /\ GroupStep
    BY <1>3, <2>2, GroupRemoval DEF ReapChild, NotRemoved, GroupStep
  <2> QED
    BY <1>3, <2>1, <2>2 DEF ReapChild, OwnerOf
<1>4. ASSUME NEW s \in SessionId, PtyEof(s) PROVE GroupInv' /\ GroupStep
  <2>1. CASE RemoveSession(s, NoConn)
    <3>1. s \in sessions
      BY <1>4 DEF PtyEof, Events, NoUseAfterFree
    <3> QED BY <1>4, <2>1, <3>1, GroupRemoval DEF PtyEof, NotRemoved, GroupStep
  <2>2. CASE ~RemoveSession(s, NoConn)
    BY <1>4, <2>2, GroupUnchanged, QuietGroupStep DEF PtyEof, NotRemoved, gVars
  <2> QED BY <2>1, <2>2
<1>5. CASE EndBatch
  <2>1. \A s \in sessions : removed'[s] = removed[s] /\ groupId'[s] = groupId[s]
    BY <1>5 DEF EndBatch, Fresh, TypeOK
  <2>2. \A s \in SessionId : groupId'[s] = groupId[s] \/ groupId'[s] = 0
    BY <1>5 DEF EndBatch, TypeOK
  <2>3. UNCHANGED <<sessions, groups, nextGroupId>> /\ nextGroupId \in Nat
    BY <1>5, ConstantsAssumption DEF EndBatch, TypeOK
  <2> QED
    BY <2>1, <2>2, <2>3
       DEF GroupInv, GroupStep, MembershipIsBacked, Listed, GroupMembers, Members
<1>6. CASE Shutdown
  BY <1>6 DEF Shutdown, GroupInv, GroupStep, MembershipIsBacked, Listed
<1>7. ASSUME NEW c \in Conns, NEW s \in sessions, HandleKillDead(c, s) PROVE GroupInv' /\ GroupStep
  BY <1>7, GroupRemoval DEF HandleKillDead, NotRemoved, GroupStep
<1>8. ASSUME NEW c \in Conns, NEW s \in sessions, HandleKillAlive(c, s)
      PROVE GroupInv' /\ GroupStep
  BY <1>8 DEF HandleKillAlive, GcGroupIfEmpty, TypeOK, GroupInv, GroupStep, MembershipIsBacked,
              Listed, GroupMembers, Members
<1>9. ASSUME NEW c \in Conns, NEW s \in sessions, HandleGroupRemove(c, s)
      PROVE GroupInv' /\ GroupStep
  <2>1. 0 \notin groups /\ nextGroupId \in Nat
    BY ConstantsAssumption DEF TypeOK, GroupId
  <2> QED
    BY <1>9, <2>1 DEF HandleGroupRemove, GcGroupIfEmpty, TypeOK, GroupInv, GroupStep,
       MembershipIsBacked, Listed, GroupMembers, Members
<1>10. ASSUME NEW c \in Conns, NEW s \in sessions, NEW g \in groups, HandleGroupAdd(c, g, s)
       PROVE GroupInv' /\ GroupStep
  BY <1>10 DEF HandleGroupAdd, GcGroupIfEmpty, TypeOK, GroupInv, GroupStep,
               MembershipIsBacked, Listed, GroupMembers, Members
<1>11. ASSUME NEW c \in Conns, NEW s \in sessions, HandleAttach(c, s) \/ HandleDetach(c, s)
      PROVE GroupInv' /\ GroupStep
  BY <1>11, GroupUnchanged, QuietGroupStep DEF HandleAttach, HandleDetach, gVars
<1>12. ASSUME NEW c \in Conns, Connect(c) \/ ConnEvent(c) \/ ConnDone(c) \/ HandleQuery(c)
       PROVE GroupInv' /\ GroupStep
  BY <1>12, GroupUnchanged, QuietGroupStep DEF Connect, ConnEvent, ConnDone, HandleQuery, gVars
<1>13. ASSUME NEW p \in Pids, ChildExit(p) PROVE GroupInv' /\ GroupStep
  BY <1>13, GroupUnchanged, QuietGroupStep DEF ChildExit, gVars
<1>14. ASSUME NEW s \in SessionId,
              SlaveClose(s) \/ DeadlinePass(s) \/ StalePtyEvent(s) \/ PtyOutput(s)
       PROVE GroupInv' /\ GroupStep
  BY <1>14, GroupUnchanged, QuietGroupStep
     DEF SlaveClose, DeadlinePass, StalePtyEvent, PtyOutput, gVars
<1>15. CASE Terminate \/ EpollWait \/ AcceptConn \/ SignalEvent \/ ReadSignal \/ ReapDone
            \/ UNCHANGED vars
  BY <1>15, GroupUnchanged, QuietGroupStep
     DEF Terminate, EpollWait, AcceptConn, SignalEvent, ReadSignal, ReapDone, vars, gVars
<1> QED
  BY <1>1, <1>2, <1>3, <1>4, <1>5, <1>6, <1>7, <1>8, <1>9, <1>10, <1>11, <1>12, <1>13, <1>14,
     <1>15, NextCases

-----------------------------------------------------------------------------
(* Processes and signals *)

\* AliveMeansUnreaped and HiddenAwaitsReap, with what makes them inductive:
\* the newest session with a pid is the owner of its process, so the first
\* match on the list, which reap_children takes, is the right one.
Children ==
  /\ AliveMeansUnreaped
  /\ HiddenAwaitsReap
  /\ \A p \in Pids : procState[p] # "free" =>
       \A s \in sessions : pid[s] = p => s <= procOf[p]
  /\ \A p \in Pids : sig[p] # "none" => procState[p] # "free"
  /\ \A s \in sessions : killing[s] => removed[s]
  /\ OnlyKilledAreSignalled

childVars == <<sessions, alive, removed, killing, client, pid, procState, procOf, sig>>

LEMMA ChildrenUnchanged ==
  ASSUME Children, UNCHANGED childVars, pc' = "stopped" <=> pc = "stopped" PROVE Children'
  BY DEF Children, AliveMeansUnreaped, HiddenAwaitsReap, OnlyKilledAreSignalled, Listed, childVars

\* Taking a session off the list cannot hurt the others.
LEMMA ChildrenRemoval ==
  ASSUME TypeOK, Children, NEW s \in sessions, NEW over, RemoveSession(s, over),
         UNCHANGED <<alive, removed, killing, pid, procState, procOf, sig>>, pc # "stopped"
  PROVE  Children'
  BY DEF TypeOK, Children, AliveMeansUnreaped, HiddenAwaitsReap, OnlyKilledAreSignalled, Listed,
         RemoveSession

\* The session whose child p is, if it is on the list, is the one
\* reap_children finds.
LEMMA OwnerIsFound ==
  ASSUME TypeOK, Children, NEW p \in Pids, procState[p] # "free",
         NEW s \in sessions, alive[s], pid[s] = p
  PROVE  OwnerOf(p) = {s}
<1>1. procOf[p] = s
  BY DEF Children, AliveMeansUnreaped
<1>2. \A t \in sessions : t \in Nat /\ (pid[t] = p => t <= s)
  BY <1>1 DEF Children, TypeOK, SessionId
<1> QED
  BY <1>2 DEF OwnerOf

LEMMA ChildrenStep ==
  ASSUME TypeOK, Links, Events, Fresh, Children, [Next]_vars PROVE Children'
<1> USE DEF sessVars, groupVars, connVars, kernVars, loopVars
<1>1. ASSUME NEW c \in Conns, HandleCreate(c) PROVE Children'
  <2>1. nextId' = nextId + 1 /\ nextId' \in SessionId /\ nextId \in Nat
    BY <1>1, ConstantsAssumption DEF HandleCreate, TypeOK, SessionId
  <2>2. PICK p \in Pids :
          /\ procState[p] = "free"
          /\ procState' = [procState EXCEPT ![p] = "running"]
          /\ procOf' = [procOf EXCEPT ![p] = nextId']
          /\ pid' = [pid EXCEPT ![nextId'] = p]
    BY <1>1 DEF HandleCreate
  <2>3. ~removed[nextId'] /\ ~killing[nextId'] /\ nextId' \notin sessions
    BY <2>1 DEF Fresh
  <2>4. \A s \in sessions : s \in Nat /\ s <= nextId
    BY <2>1 DEF Fresh, TypeOK, SessionId
  <2>5. sessions' = sessions \/ sessions' = sessions \union {nextId'}
    BY <1>1 DEF HandleCreate
  <2>6. UNCHANGED <<removed, killing, client, sig, pc>> \/ UNCHANGED <<removed, killing, client, sig>>
    BY <1>1 DEF HandleCreate
  <2>7. alive' = [alive EXCEPT ![nextId'] = TRUE]
    BY <1>1 DEF HandleCreate
  <2>8. pc # "stopped"
    BY <1>1 DEF HandleCreate, Dispatching
  <2>a. \A s \in sessions : pid'[s] = pid[s] /\ alive'[s] = alive[s]
    BY <2>1, <2>2, <2>3, <2>7 DEF TypeOK
  <2>b. pid'[nextId'] = p /\ alive'[nextId'] = TRUE
    BY <2>1, <2>2, <2>7 DEF TypeOK
  <2>c. /\ procState'[p] = "running" /\ procOf'[p] = nextId'
        /\ \A q \in Pids : q # p => procState'[q] = procState[q] /\ procOf'[q] = procOf[q]
    BY <2>2 DEF TypeOK
  <2>9. AliveMeansUnreaped'
    BY <2>2, <2>5, <2>a, <2>b, <2>c DEF AliveMeansUnreaped, Children
  <2>10. HiddenAwaitsReap'
    BY <2>3, <2>5, <2>6, <2>a DEF HiddenAwaitsReap, Children
  <2>11. ASSUME NEW q \in Pids, procState'[q] # "free", NEW s \in sessions', pid'[s] = q
         PROVE s <= procOf'[q]
    <3>1. CASE s \in sessions /\ q # p
      BY <2>a, <2>c, <2>11, <3>1 DEF Children
    <3>2. CASE s \in sessions /\ q = p
      BY <2>1, <2>4, <2>c, <3>2
    <3>3. CASE s = nextId'
      BY <2>1, <2>b, <2>c, <2>11, <3>3 DEF SessionId
    <3> QED BY <2>5, <3>1, <3>2, <3>3
  <2>12. \A q \in Pids : sig'[q] # "none" => procState'[q] # "free" /\ procOf'[q] = procOf[q]
    BY <2>2, <2>6 DEF Children, TypeOK
  <2>13. \A q \in Pids : procOf[q] # nextId'
    BY <2>1 DEF Fresh, TypeOK, SessionId
  <2>14. OnlyKilledAreSignalled'
    BY <2>3, <2>5, <2>6, <2>8, <2>12, <2>13 DEF Children, OnlyKilledAreSignalled, Listed, TypeOK
  <2>15. \A s \in sessions' : killing'[s] => removed'[s]
    BY <2>3, <2>5, <2>6 DEF Children
  <2> QED
    BY <2>9, <2>10, <2>11, <2>12, <2>14, <2>15 DEF Children
<1>2. ASSUME NEW p \in Pids, ChildExit(p) PROVE Children'
  BY <1>2 DEF ChildExit, TypeOK, Children, AliveMeansUnreaped, HiddenAwaitsReap,
              OnlyKilledAreSignalled, Listed
<1>3. ASSUME NEW p \in Pids, ReapChild(p) PROVE Children'
  <2>1. \A s \in sessions : alive[s] /\ pid[s] = p => OwnerOf(p) = {s}
    BY <1>3, OwnerIsFound DEF ReapChild
  <2>2. /\ sessions' \subseteq sessions
        /\ \A s \in sessions' : s \in OwnerOf(p) => ~removed[s]
    <3>1. \A s, t \in OwnerOf(p) : s = t
      BY DEF OwnerOf, TypeOK, SessionId
    <3> QED BY <1>3, <3>1 DEF ReapChild, RemoveSession, Removal
  <2>3. \A s \in sessions' : client'[s] = client[s] \/ client'[s] = NoConn
    BY <1>3 DEF ReapChild, RemoveSession, Removal, TypeOK
  <2>4. /\ UNCHANGED <<killing, removed, pid, pc>>
        /\ procState' = [procState EXCEPT ![p] = "free"]
        /\ procOf' = [procOf EXCEPT ![p] = 0]
        /\ sig' = [sig EXCEPT ![p] = "none"]
        /\ alive' = [s \in SessionId |-> alive[s] /\ s \notin OwnerOf(p)]
    BY <1>3 DEF ReapChild, NotRemoved
  <2>5. AliveMeansUnreaped'
    BY <2>1, <2>2, <2>4 DEF Children, AliveMeansUnreaped, TypeOK
  <2>6. HiddenAwaitsReap'
    BY <2>1, <2>2, <2>3, <2>4 DEF Children, HiddenAwaitsReap, TypeOK
  <2>7. OnlyKilledAreSignalled'
    BY <2>2, <2>4 DEF Children, OnlyKilledAreSignalled, Listed, TypeOK
  <2> QED
    BY <2>2, <2>4, <2>5, <2>6, <2>7 DEF Children, TypeOK
<1>4. ASSUME NEW s \in SessionId, PtyEof(s) PROVE Children'
  <2>1. CASE RemoveSession(s, NoConn)
    <3>1. s \in sessions
      BY <1>4 DEF PtyEof, Events, NoUseAfterFree
    <3> QED BY <1>4, <2>1, <3>1, ChildrenRemoval DEF PtyEof, NotRemoved
  <2>2. CASE ~RemoveSession(s, NoConn)
    BY <1>4, <2>2, ChildrenUnchanged DEF PtyEof, NotRemoved, childVars
  <2> QED BY <2>1, <2>2
<1>5. CASE EndBatch
  <2> DEFINE expired == {s \in sessions : killing[s] /\ alive[s] /\ due[s]}
  <2>1. \A s \in sessions : /\ alive'[s] = alive[s] /\ removed'[s] = removed[s]
                            /\ pid'[s] = pid[s]
                            /\ killing'[s] <=> killing[s] /\ s \notin expired
    BY <1>5 DEF EndBatch, Fresh, TypeOK
  <2>2. sig' = [p \in Pids |-> IF \E s \in expired : pid[s] = p THEN "kill" ELSE sig[p]]
    BY <1>5 DEF EndBatch
  <2>3. UNCHANGED <<sessions, client, procState, procOf>> /\ pc # "stopped"
    BY <1>5 DEF EndBatch
  <2>4. \A s \in expired : /\ s \in sessions /\ removed[s] /\ pid[s] \in Pids
                           /\ procOf[pid[s]] = s /\ procState[pid[s]] # "free"
    BY DEF Children, AliveMeansUnreaped
  <2>5. AliveMeansUnreaped'
    BY <2>1, <2>3 DEF Children, AliveMeansUnreaped
  <2>6. HiddenAwaitsReap'
    BY <2>1, <2>2, <2>3, <2>4 DEF Children, HiddenAwaitsReap, AliveMeansUnreaped
  <2>7. OnlyKilledAreSignalled'
    BY <2>1, <2>2, <2>3, <2>4 DEF Children, OnlyKilledAreSignalled, Listed
  <2>8. \A p \in Pids : sig'[p] # "none" => procState'[p] # "free"
    BY <2>2, <2>3, <2>4 DEF Children
  <2> QED
    BY <2>1, <2>3, <2>5, <2>6, <2>7, <2>8 DEF Children
<1>6. CASE Shutdown
  BY <1>6 DEF Shutdown, Children, AliveMeansUnreaped, HiddenAwaitsReap, OnlyKilledAreSignalled, TypeOK
<1>7. ASSUME NEW c \in Conns, ConnDone(c) PROVE Children'
  BY <1>7 DEF ConnDone, TypeOK, Children, AliveMeansUnreaped, HiddenAwaitsReap,
              OnlyKilledAreSignalled, Listed
<1>8. ASSUME NEW c \in Conns, NEW s \in sessions, HandleAttach(c, s) \/ HandleDetach(c, s)
      PROVE Children'
  BY <1>8 DEF HandleAttach, HandleDetach, NextFrame, Dispatching, Listed, TypeOK, Children,
              AliveMeansUnreaped, HiddenAwaitsReap, OnlyKilledAreSignalled
<1>9. ASSUME NEW c \in Conns, NEW s \in sessions, HandleKillDead(c, s) PROVE Children'
  BY <1>9, ChildrenRemoval DEF HandleKillDead, NotRemoved, Dispatching
<1>10. ASSUME NEW c \in Conns, NEW s \in sessions, HandleKillAlive(c, s) PROVE Children'
  <2>1. pid[s] \in Pids /\ procOf[pid[s]] = s /\ procState[pid[s]] # "free"
    BY <1>10 DEF HandleKillAlive, Children, AliveMeansUnreaped
  <2>2. /\ UNCHANGED <<sessions, alive, pid, procState, procOf>> /\ pc # "stopped"
        /\ client' = [client EXCEPT ![s] = NoConn]
        /\ sig' = [sig EXCEPT ![pid[s]] = "hup"]
        /\ killing' = [killing EXCEPT ![s] = TRUE]
        /\ removed' = [removed EXCEPT ![s] = TRUE]
        /\ ~removed[s] /\ alive[s]
    BY <1>10 DEF HandleKillAlive, Dispatching, Listed
  <2>3. \A t \in sessions : t # s /\ removed[t] => pid[t] # pid[s]
    BY <2>1 DEF Children, AliveMeansUnreaped, HiddenAwaitsReap
  <2>4. HiddenAwaitsReap'
    BY <2>2, <2>3 DEF Children, HiddenAwaitsReap, TypeOK
  <2>5. OnlyKilledAreSignalled'
    BY <2>1, <2>2 DEF Children, OnlyKilledAreSignalled, Listed, TypeOK
  <2> QED
    BY <2>1, <2>2, <2>4, <2>5 DEF Children, AliveMeansUnreaped, TypeOK
<1>11. ASSUME NEW c \in Conns, Connect(c) \/ ConnEvent(c) \/ HandleQuery(c) \/ HandleGroupNew(c)
       PROVE Children'
  BY <1>11, ChildrenUnchanged
     DEF Connect, ConnEvent, HandleQuery, HandleGroupNew, Dispatching, NextFrame, childVars
<1>12. ASSUME NEW s \in SessionId,
              SlaveClose(s) \/ DeadlinePass(s) \/ StalePtyEvent(s) \/ PtyOutput(s)
       PROVE Children'
  BY <1>12, ChildrenUnchanged
     DEF SlaveClose, DeadlinePass, StalePtyEvent, PtyOutput, childVars
<1>13. CASE Terminate \/ EpollWait \/ AcceptConn \/ SignalEvent \/ ReadSignal \/ ReapDone
            \/ UNCHANGED vars
  BY <1>13, ChildrenUnchanged
     DEF Terminate, EpollWait, AcceptConn, SignalEvent, ReadSignal, ReapDone, vars, childVars
<1>14. ASSUME NEW c \in Conns, NEW s \in sessions,
              HandleGroupRemove(c, s) \/ \E g \in groups : HandleGroupAdd(c, g, s)
       PROVE Children'
  BY <1>14, ChildrenUnchanged
     DEF HandleGroupRemove, HandleGroupAdd, Dispatching, NextFrame, childVars
<1> QED
  BY <1>1, <1>2, <1>3, <1>4, <1>5, <1>6, <1>7, <1>8, <1>9, <1>10, <1>11, <1>12, <1>13, <1>14,
     NextCases

-----------------------------------------------------------------------------
(* Zombies *)

\* Only ChildExit makes a zombie, and it sets sigchld; ReadSignal takes
\* sigchld only into the waitpid loop, which ends with no zombie left.
LEMMA ZombieStep ==
  ASSUME TypeOK, ZombieIsNoticed, [Next]_vars PROVE ZombieIsNoticed'
<1> USE DEF sessVars, groupVars, connVars, kernVars, loopVars, ZombieIsNoticed
<1>1. ASSUME NEW c \in Conns, HandleCreate(c) PROVE ZombieIsNoticed'
  BY <1>1 DEF HandleCreate, Dispatching, NextFrame, TypeOK
<1>2. ASSUME NEW p \in Pids, ChildExit(p) \/ ReapChild(p) PROVE ZombieIsNoticed'
  BY <1>2 DEF ChildExit, ReapChild, TypeOK
<1>3. CASE Terminate \/ EpollWait \/ EndBatch \/ Shutdown \/ AcceptConn \/ SignalEvent
  <2>1. CASE Terminate BY <2>1 DEF Terminate
  <2>2. CASE EpollWait BY <2>2 DEF EpollWait
  <2>3. CASE EndBatch BY <2>3 DEF EndBatch
  <2>4. CASE Shutdown BY <2>4 DEF Shutdown
  <2>5. CASE AcceptConn BY <2>5 DEF AcceptConn
  <2>6. CASE SignalEvent BY <2>6 DEF SignalEvent
  <2> QED BY <1>3, <2>1, <2>2, <2>3, <2>4, <2>5, <2>6
<1>4. CASE ReadSignal
  <2>1. CASE sigterm
    BY <1>4, <2>1 DEF ReadSignal, TypeOK
  <2>2. CASE ~sigterm
    BY <1>4, <2>2 DEF ReadSignal, TypeOK
  <2> QED BY <2>1, <2>2
<1>5. CASE ReapDone
  BY <1>5 DEF ReapDone
<1>6. ASSUME NEW s \in SessionId,
             SlaveClose(s) \/ DeadlinePass(s) \/ StalePtyEvent(s) \/ PtyOutput(s) \/ PtyEof(s)
      PROVE ZombieIsNoticed'
  BY <1>6 DEF SlaveClose, DeadlinePass, StalePtyEvent, PtyOutput, PtyEof
<1>7. ASSUME NEW c \in Conns, Connect(c) \/ ConnEvent(c) \/ ConnDone(c) \/ HandleQuery(c)
                              \/ HandleGroupNew(c)
      PROVE ZombieIsNoticed'
  BY <1>7 DEF Connect, ConnEvent, ConnDone, HandleQuery, HandleGroupNew, Dispatching, NextFrame
<1>8. ASSUME NEW c \in Conns, NEW s \in sessions,
             \/ HandleAttach(c, s) \/ HandleDetach(c, s) \/ HandleKillDead(c, s)
             \/ HandleKillAlive(c, s) \/ HandleGroupRemove(c, s)
             \/ \E g \in groups : HandleGroupAdd(c, g, s)
      PROVE ZombieIsNoticed'
  BY <1>8 DEF HandleAttach, HandleDetach, HandleKillDead, HandleKillAlive, HandleGroupRemove,
              HandleGroupAdd, Dispatching, NextFrame
<1>9. CASE UNCHANGED vars
  BY <1>9 DEF vars
<1> QED
  BY <1>1, <1>2, <1>3, <1>4, <1>5, <1>6, <1>7, <1>8, <1>9, NextCases

-----------------------------------------------------------------------------
(* The theorems *)

IInv == TypeOK /\ Links /\ Events /\ Fresh /\ GroupInv /\ Children /\ ZombieIsNoticed

LEMMA InitIInv == Init => IInv
<1> SUFFICES ASSUME Init PROVE Links /\ Events /\ Fresh /\ GroupInv /\ Children /\ ZombieIsNoticed
  BY TypeInit DEF IInv
<1>1. Links
  BY DEF Init, Links
<1>2. Events
  BY DEF Init, Events, NoUseAfterFree
<1>3. Fresh
  BY DEF Init, Fresh, SessionId
<1>4. GroupInv
  BY DEF Init, GroupInv, MembershipIsBacked, Listed
<1>5. Children
  BY DEF Init, Children, AliveMeansUnreaped, HiddenAwaitsReap, OnlyKilledAreSignalled
<1>6. ZombieIsNoticed
  BY DEF Init, ZombieIsNoticed
<1> QED BY <1>1, <1>2, <1>3, <1>4, <1>5, <1>6

LEMMA IInvStep ==
  ASSUME IInv, [Next]_vars PROVE IInv'
  BY TypeStep, LinksStep, EventsStep, FreshStep, GroupInvStep, ChildrenStep, ZombieStep DEF IInv

LEMMA Inductive == Spec => []IInv
<1>1. IInv /\ [Next]_vars => IInv'
  BY IInvStep
<1> QED
  BY InitIInv, <1>1, PTL DEF Spec

\* The two halves of an attachment agree in every reachable state.
THEOREM AttachmentSafe == Spec => []AttachmentIsMutual
<1>1. IInv => AttachmentIsMutual
  BY DEF IInv, TypeOK, Links, AttachmentIsMutual
<1> QED
  BY <1>1, Inductive, PTL

\* No pending event of a batch ever refers to a freed session or connection.
THEOREM EventsSafe == Spec => []NoUseAfterFree
<1>1. IInv => NoUseAfterFree
  BY DEF IInv, Events
<1> QED
  BY <1>1, Inductive, PTL

\* A listed session's group exists.
THEOREM MembershipSafe == Spec => []MembershipIsBacked
<1>1. IInv => MembershipIsBacked
  BY DEF IInv, GroupInv
<1> QED
  BY <1>1, Inductive, PTL

\* A live session's pid is its own unreaped child, whatever pids are reused.
THEOREM ProcessSafe == Spec => []AliveMeansUnreaped
<1>1. IInv => AliveMeansUnreaped
  BY DEF IInv, Children
<1> QED
  BY <1>1, Inductive, PTL

\* SIGHUP and SIGKILL are only ever sent to the children of killed sessions.
THEOREM SignalsSafe == Spec => []OnlyKilledAreSignalled
<1>1. IInv => OnlyKilledAreSignalled
  BY DEF IInv, Children
<1> QED
  BY <1>1, Inductive, PTL

\* A killed session always has a way off the list: its child is still to be
\* reaped.
THEOREM KilledSafe == Spec => []HiddenAwaitsReap
<1>1. IInv => HiddenAwaitsReap
  BY DEF IInv, Children
<1> QED
  BY <1>1, Inductive, PTL

\* No zombie goes unnoticed although SIGCHLDs coalesce.
THEOREM ZombieSafe == Spec => []ZombieIsNoticed
<1>1. IInv => ZombieIsNoticed
  BY DEF IInv
<1> QED
  BY <1>1, Inductive, PTL

\* A group is destroyed exactly in the step that takes its last listed
\* member.
THEOREM GroupSafe == Spec => GroupLifetime
<1>1. IInv /\ [Next]_vars =>
        [pc' # "stopped" =>
           \A g \in groups : g \notin groups' <=>
             GroupMembers(g) # {} /\ GroupMembers(g)' = {}]_vars
  BY GroupInvStep DEF IInv, GroupStep
<1> QED
  BY <1>1, Inductive, PTL DEF Spec, GroupLifetime

-----------------------------------------------------------------------------
(***************************************************************************)
(* The daemon implements SessionStore: its initial state maps to the       *)
(* initial state of the store, and every step of the event loop, of the    *)
(* kernel or of a client maps to one step of the store or to none.         *)
(***************************************************************************)

\* The store's view of the daemon, as in the INSTANCE of Daemon.
live == {s \in Listed : alive[s]}
attached == {s \in Listed : client[s] # NoConn}
member == [s \in SessionId |-> IF s \in Listed THEN groupId[s] ELSE 0]

StoreStep == Store!Next \/ UNCHANGED Store!vars

\* A step that changes nothing the store shows.
LEMMA Stutter ==
  ASSUME TypeOK, UNCHANGED <<Listed, groups, nextId, nextGroupId>>,
         \A s \in Listed : /\ alive'[s] = alive[s] /\ groupId'[s] = groupId[s]
                           /\ client'[s] # NoConn <=> client[s] # NoConn
  PROVE  StoreStep
<1>1. live' = live BY DEF live
<1>2. attached' = attached BY DEF attached
<1>3. member' = member BY DEF member
<1> QED BY <1>1, <1>2, <1>3 DEF StoreStep, Store!vars, live, attached, member

LEMMA QuietStutter ==
  ASSUME TypeOK,
         UNCHANGED <<sessions, removed, alive, client, groupId, groups, nextId, nextGroupId>>
  PROVE  StoreStep
  BY Stutter DEF Listed

\* The store's members of a group are the daemon's.
LEMMA SameMembers ==
  ASSUME TypeOK, NEW g \in groups
  PROVE  Store!MembersOf(g, Listed, member) = GroupMembers(g)
  BY DEF TypeOK, Store!MembersOf, member, GroupMembers, Members, Listed, GroupId

\* gc_group_if_empty leaves the groups that the store lets survive.
LEMMA SameGroups ==
  ASSUME TypeOK, TypeOK', GroupStep, pc' # "stopped", groups' \subseteq groups
  PROVE  groups' = {g \in groups : Store!MembersOf(g, Listed, member) # {} =>
                                   Store!MembersOf(g, Listed', member') # {}}
<1>1. ASSUME NEW g \in groups PROVE Store!MembersOf(g, Listed', member') = GroupMembers(g)'
  BY DEF TypeOK, Store!MembersOf, member, GroupMembers, Members, Listed, GroupId
<1> QED
  BY <1>1, SameMembers DEF GroupStep

\* remove_session of a session that KILL has already hidden shows nothing.
LEMMA HiddenRemoval ==
  ASSUME TypeOK, GroupInv, NEW s \in sessions, NEW over, removed[s], RemoveSession(s, over),
         UNCHANGED <<removed, groupId, nextId, nextGroupId>>,
         \A t \in Listed : alive'[t] = alive[t]
  PROVE  StoreStep
<1>1. Listed' = Listed
  BY DEF Listed, RemoveSession
<1>2. groups' = groups
  BY DEF RemoveSession, GcGroupIfEmpty, GroupInv, GroupMembers, Members
<1>3. \A t \in Listed : client'[t] = client[t]
  BY DEF Listed, RemoveSession, TypeOK
<1> QED BY <1>1, <1>2, <1>3, Stutter

\* Handlers that create, and the one that makes a group.
LEMMA CreateSteps ==
  ASSUME IInv, NEW c \in Conns, HandleCreate(c) \/ HandleGroupNew(c) PROVE StoreStep
<1> USE DEF sessVars, groupVars, connVars, kernVars, loopVars, IInv
<1>1. CASE HandleCreate(c)
  <2>1. /\ nextId' = nextId + 1 /\ nextId < MaxSessions /\ nextId' \in SessionId
        /\ nextId' \notin sessions /\ ~removed[nextId'] /\ groupId[nextId'] = 0
    BY <1>1, ConstantsAssumption DEF HandleCreate, Fresh, TypeOK, SessionId
  <2>2. /\ UNCHANGED <<removed, client, groups, groupId, nextGroupId>>
        /\ alive' = [alive EXCEPT ![nextId'] = TRUE]
    BY <1>1 DEF HandleCreate
  <2>3. client[nextId'] = NoConn
    BY <2>1 DEF Links
  <2>4. CASE sessions' = sessions
    <3>1. live' = live /\ attached' = attached /\ member' = member /\ Listed' = Listed
      BY <2>1, <2>2, <2>4 DEF live, attached, member, Listed, TypeOK
    <3>2. Store!CreateFails
      BY <2>1, <2>2, <3>1 DEF Store!CreateFails, live, attached, member
    <3> QED BY <3>2 DEF StoreStep, Store!Next
  <2>5. CASE sessions' = sessions \union {nextId'}
    <3>1. Listed' = Listed \union {nextId'}
      BY <2>1, <2>2, <2>5 DEF Listed
    <3>2. live' = live \union {nextId'}
      BY <2>1, <2>2, <3>1 DEF live, Listed, TypeOK
    <3>3. attached' = attached
      BY <2>2, <2>3, <3>1 DEF attached
    <3>4. member' = member
      BY <2>1, <2>2, <3>1 DEF member
    <3>5. Store!Create
      BY <2>1, <2>2, <3>1, <3>2, <3>3, <3>4 DEF Store!Create, live, attached, member
    <3> QED BY <3>5 DEF StoreStep, Store!Next
  <2> QED BY <1>1, <2>4, <2>5 DEF HandleCreate
<1>2. CASE HandleGroupNew(c)
  <2>1. live' = live /\ attached' = attached /\ member' = member /\ Listed' = Listed
    BY <1>2 DEF HandleGroupNew, live, attached, member, Listed
  <2>2. Store!NewGroup
    BY <1>2, <2>1 DEF HandleGroupNew, Store!NewGroup, live, attached, member
  <2> QED BY <2>2 DEF StoreStep, Store!Next
<1> QED BY <1>1, <1>2

\* Attaching and detaching, by request or by disconnecting.
LEMMA AttachSteps ==
  ASSUME IInv, NEW c \in Conns,
         ConnDone(c) \/ \E s \in sessions : HandleAttach(c, s) \/ HandleDetach(c, s)
  PROVE  StoreStep
<1> USE DEF sessVars, groupVars, connVars, kernVars, loopVars, IInv
<1>1. ASSUME NEW s \in Listed,
             UNCHANGED <<sessions, removed, alive, groupId, groups, nextId, nextGroupId>>,
             client[s] # NoConn, client' = [client EXCEPT ![s] = NoConn]
      PROVE  StoreStep
  <2>1. live' = live /\ member' = member /\ Listed' = Listed
    BY <1>1 DEF live, member, Listed
  <2>2. attached' = attached \ {s} /\ s \in attached
    BY <1>1, <2>1 DEF attached, Listed, TypeOK
  <2>3. Store!Detach(s)
    BY <1>1, <2>1, <2>2 DEF Store!Detach, live, attached, member
  <2>4. s \in Store!Ids
    BY DEF Listed, TypeOK, Store!Ids, SessionId
  <2> QED BY <2>3, <2>4 DEF StoreStep, Store!Next
<1>2. CASE ConnDone(c)
  <2>1. UNCHANGED <<sessions, removed, alive, groupId, groups, nextId, nextGroupId>>
    BY <1>2 DEF ConnDone
  <2>2. CASE client' = client
    BY <2>1, <2>2, QuietStutter
  <2>3. CASE client' # client
    <3>1. client' = [s \in SessionId |-> IF s = session[c] /\ client[s] = c
                                         THEN NoConn ELSE client[s]]
      BY <1>2, <2>3 DEF ConnDone
    <3>2. PICK s \in SessionId : s = session[c] /\ client[s] = c
      <4> SUFFICES ASSUME \A s \in SessionId : ~(s = session[c] /\ client[s] = c)
                   PROVE  client' = client
        BY <2>3
      <4>1. client' = [s \in SessionId |-> client[s]]
        BY <3>1
      <4> QED BY <4>1 DEF TypeOK
    <3>3. client[s] # NoConn /\ client' = [client EXCEPT ![s] = NoConn]
      <4>1. client[s] # NoConn
        BY <3>2, ConstantsAssumption
      <4>2. client' = [t \in SessionId |-> IF t = s THEN NoConn ELSE client[t]]
        BY <3>1, <3>2
      <4> QED BY <4>1, <4>2 DEF TypeOK
    <3>4. s \in sessions
      BY <3>3 DEF Links
    <3>5. s \in Listed
      BY <3>3, <3>4 DEF Listed, Children, HiddenAwaitsReap
    <3> QED BY <1>1, <2>1, <3>3, <3>5
  <2> QED BY <2>2, <2>3
<1>3. ASSUME NEW s \in sessions, HandleAttach(c, s) PROVE StoreStep
  <2>1. live' = live /\ member' = member /\ Listed' = Listed
    BY <1>3 DEF HandleAttach, live, member, Listed
  <2>2. attached' = attached \union {s}
    BY <1>3, <2>1, ConstantsAssumption DEF HandleAttach, attached, Listed, TypeOK
  <2>3. Store!Attach(s)
    BY <1>3, <2>1, <2>2 DEF HandleAttach, Store!Attach, live, attached, member
  <2>4. s \in Store!Ids
    BY DEF TypeOK, Store!Ids, SessionId
  <2> QED BY <2>3, <2>4 DEF StoreStep, Store!Next
<1>4. ASSUME NEW s \in sessions, HandleDetach(c, s) PROVE StoreStep
  <2>1. /\ UNCHANGED <<sessions, removed, alive, groupId, groups, nextId, nextGroupId>>
        /\ s \in Listed /\ client' = [client EXCEPT ![s] = NoConn]
    BY <1>4 DEF HandleDetach
  <2>2. CASE client[s] # NoConn
    BY <1>1, <2>1, <2>2
  <2>3. CASE client[s] = NoConn
    <3>1. client' = client
      BY <2>1, <2>3 DEF TypeOK
    <3> QED BY <2>1, <3>1, QuietStutter
  <2> QED BY <2>2, <2>3
<1> QED BY <1>2, <1>3, <1>4

\* KILL of a dead or a live session takes it off the listing and out of its
\* group.
LEMMA KillSteps ==
  ASSUME IInv, [Next]_vars, NEW c \in Conns, NEW s \in sessions,
         HandleKillDead(c, s) \/ HandleKillAlive(c, s)
  PROVE  StoreStep
<1> USE DEF sessVars, groupVars, connVars, kernVars, loopVars, IInv
<1>1. s \in Listed /\ s \in Store!Ids /\ s \in SessionId
  BY DEF HandleKillDead, HandleKillAlive, TypeOK, Store!Ids, SessionId
<1>2. UNCHANGED <<alive, groupId, nextId, nextGroupId>> /\ groups' \subseteq groups
  BY DEF HandleKillDead, HandleKillAlive, RemoveSession, GcGroupIfEmpty, NotRemoved
<1>3. pc' # "stopped"
  BY DEF HandleKillDead, HandleKillAlive, NextFrame
<1>4. Listed' = Listed \ {s}
  <2>1. CASE HandleKillDead(c, s)
    BY <2>1 DEF HandleKillDead, RemoveSession, NotRemoved, Listed
  <2>2. CASE HandleKillAlive(c, s)
    BY <2>2 DEF HandleKillAlive, Listed, TypeOK
  <2> QED BY <2>1, <2>2
<1>5. client' = [client EXCEPT ![s] = NoConn]
  BY DEF HandleKillDead, HandleKillAlive, RemoveSession
<1>6. live' = live \ {s}
  BY <1>2, <1>4 DEF live
<1>7. attached' = attached \ {s}
  BY <1>1, <1>4, <1>5 DEF attached, Listed, TypeOK
<1>8. member' = [member EXCEPT ![s] = 0]
  BY <1>1, <1>2, <1>4 DEF member, Listed, TypeOK
<1>9. TypeOK' /\ GroupStep
  BY TypeStep, GroupInvStep
<1>10. groups' = {g \in groups : Store!MembersOf(g, Listed, member) # {} =>
                                 Store!MembersOf(g, Listed', member') # {}}
  BY <1>2, <1>3, <1>9, SameGroups
<1>11. Store!Kill(s)
  BY <1>1, <1>2, <1>4, <1>6, <1>7, <1>8, <1>10
     DEF Store!Kill, Store!Surviving, live, attached, member
<1> QED BY <1>1, <1>11 DEF StoreStep, Store!Next

\* GROUP_ADD and GROUP_REMOVE move a session between groups.
LEMMA MoveSteps ==
  ASSUME IInv, [Next]_vars, NEW c \in Conns, NEW s \in sessions,
         HandleGroupRemove(c, s) \/ \E g \in groups : HandleGroupAdd(c, g, s)
  PROVE  StoreStep
<1> USE DEF sessVars, groupVars, connVars, kernVars, loopVars, IInv
<1>1. PICK g \in groups \union {0} : groupId' = [groupId EXCEPT ![s] = g]
  BY DEF HandleGroupRemove, HandleGroupAdd
<1>2. s \in Listed /\ s \in Store!Ids /\ s \in SessionId
  BY DEF HandleGroupRemove, HandleGroupAdd, TypeOK, Store!Ids, SessionId
<1>3. /\ UNCHANGED <<sessions, removed, alive, client, nextId, nextGroupId>>
      /\ groups' \subseteq groups /\ pc' # "stopped"
  BY DEF HandleGroupRemove, HandleGroupAdd, GcGroupIfEmpty, NextFrame
<1>4. live' = live /\ attached' = attached /\ Listed' = Listed
  BY <1>3 DEF live, attached, Listed
<1>5. member' = [member EXCEPT ![s] = g]
  BY <1>1, <1>2, <1>4 DEF member, TypeOK
<1>6. TypeOK' /\ GroupStep
  BY TypeStep, GroupInvStep
<1>7. groups' = {h \in groups : Store!MembersOf(h, Listed, member) # {} =>
                                Store!MembersOf(h, Listed', member') # {}}
  BY <1>3, <1>6, SameGroups
<1>8. Store!Move(s, g)
  BY <1>2, <1>3, <1>4, <1>5, <1>7 DEF Store!Move, Store!Surviving, live, attached, member
<1> QED BY <1>2, <1>8 DEF StoreStep, Store!Next

\* The reaper, the end of a PTY, the end of a batch and the shutdown.
LEMMA LoopSteps ==
  ASSUME IInv,
         \/ EndBatch \/ Shutdown \/ (\E p \in Pids : ReapChild(p))
         \/ \E s \in SessionId : PtyEof(s)
  PROVE  StoreStep
<1> USE DEF sessVars, groupVars, connVars, kernVars, loopVars, IInv
<1>1. CASE EndBatch
  <2>1. \A s \in sessions : /\ alive'[s] = alive[s] /\ removed'[s] = removed[s]
                            /\ groupId'[s] = groupId[s]
    BY <1>1 DEF EndBatch, Fresh, TypeOK
  <2>2. Listed' = Listed /\ UNCHANGED <<client, groups, nextId, nextGroupId>>
    BY <1>1, <2>1 DEF EndBatch, Listed
  <2> QED BY <2>1, <2>2, Stutter DEF Listed
<1>2. CASE Shutdown
  <2>1. Listed' = {} /\ live' = {} /\ attached' = {} /\ member' = [s \in SessionId |-> 0]
    BY <1>2 DEF Shutdown, Listed, live, attached, member
  <2>2. Store!Stop
    BY <1>2, <2>1 DEF Shutdown, Store!Stop, Store!Ids, SessionId, live, attached, member
  <2> QED BY <2>2 DEF StoreStep, Store!Next
<1>3. ASSUME NEW p \in Pids, ReapChild(p) PROVE StoreStep
  <2>1. /\ UNCHANGED <<removed, groupId, nextId, nextGroupId>>
        /\ alive' = [s \in SessionId |-> alive[s] /\ s \notin OwnerOf(p)]
    BY <1>3 DEF ReapChild, NotRemoved
  <2>2. \A s, t \in OwnerOf(p) : s = t
    BY DEF OwnerOf, TypeOK, SessionId
  <2>3. ASSUME NEW s \in OwnerOf(p), removed[s], RemoveSession(s, NoConn) PROVE StoreStep
    <3>1. \A t \in Listed : alive'[t] = alive[t]
      BY <2>1, <2>2, <2>3 DEF Listed, TypeOK
    <3>2. s \in sessions
      BY DEF OwnerOf
    <3> QED BY <2>1, <2>3, <3>1, <3>2, HiddenRemoval
  <2>4. ASSUME \A s \in OwnerOf(p) : ~removed[s], UNCHANGED Removal PROVE StoreStep
    <3>1. Listed' = Listed /\ UNCHANGED <<client, groups>>
      BY <2>1, <2>4 DEF Removal, Listed
    <3>2. CASE \E s \in OwnerOf(p) : alive[s]
      <4>1. PICK s \in OwnerOf(p) : alive[s]
        BY <3>2
      <4>2. s \in Listed /\ s \in Store!Ids
        BY <2>4 DEF OwnerOf, Listed, TypeOK, Store!Ids, SessionId
      <4>3. live' = live \ {s} /\ s \in live
        BY <2>1, <2>2, <3>1, <4>1, <4>2 DEF live, Listed, TypeOK
      <4>4. attached' = attached /\ member' = member
        BY <2>1, <3>1 DEF attached, member
      <4>5. Store!Exit(s)
        BY <2>1, <3>1, <4>3, <4>4 DEF Store!Exit, live, attached, member
      <4> QED BY <4>2, <4>5 DEF StoreStep, Store!Next
    <3>3. CASE \A s \in OwnerOf(p) : ~alive[s]
      <4>1. \A s \in Listed : alive'[s] = alive[s]
        BY <2>1, <3>3 DEF Listed, TypeOK
      <4> QED BY <2>1, <3>1, <4>1, Stutter
    <3> QED BY <3>2, <3>3
  <2> QED BY <1>3, <2>3, <2>4 DEF ReapChild
<1>4. ASSUME NEW s \in SessionId, PtyEof(s) PROVE StoreStep
  <2>1. UNCHANGED <<alive, removed, groupId, nextId, nextGroupId>> /\ s \in sessions
    BY <1>4 DEF PtyEof, NotRemoved, Events, NoUseAfterFree
  <2>2. CASE removed[s] /\ RemoveSession(s, NoConn)
    BY <2>1, <2>2, HiddenRemoval
  <2>3. CASE UNCHANGED <<sessions, client, groups>>
    BY <2>1, <2>3, QuietStutter
  <2> QED BY <1>4, <2>2, <2>3 DEF PtyEof
<1> QED BY <1>1, <1>2, <1>3, <1>4

LEMMA EveryStep ==
  ASSUME IInv, [Next]_vars PROVE StoreStep
<1> USE DEF sessVars, groupVars, connVars, kernVars, loopVars
<1>1. TypeOK
  BY DEF IInv
<1>2. ASSUME NEW c \in Conns, Connect(c) \/ ConnEvent(c) \/ HandleQuery(c) PROVE StoreStep
  BY <1>1, <1>2, QuietStutter DEF Connect, ConnEvent, HandleQuery
<1>3. ASSUME NEW p \in Pids, ChildExit(p) PROVE StoreStep
  BY <1>1, <1>3, QuietStutter DEF ChildExit
<1>4. ASSUME NEW s \in SessionId,
             SlaveClose(s) \/ DeadlinePass(s) \/ StalePtyEvent(s) \/ PtyOutput(s)
      PROVE StoreStep
  BY <1>1, <1>4, QuietStutter DEF SlaveClose, DeadlinePass, StalePtyEvent, PtyOutput
<1>5. CASE Terminate \/ EpollWait \/ AcceptConn \/ SignalEvent \/ ReadSignal \/ ReapDone
           \/ UNCHANGED vars
  BY <1>1, <1>5, QuietStutter
     DEF Terminate, EpollWait, AcceptConn, SignalEvent, ReadSignal, ReapDone, vars
<1> QED
  BY <1>2, <1>3, <1>4, <1>5, CreateSteps, AttachSteps, KillSteps, MoveSteps, LoopSteps, NextCases

\* What clients see through LIST and GROUP_LIST is a behaviour of
\* SessionStore: this is the contract of handle_list and handle_group_list.
THEOREM Refinement == Spec => ImplementsStore
<1>1. Init => Store!Init
  <2> SUFFICES ASSUME Init PROVE Store!Init
    OBVIOUS
  <2>1. Listed = {} /\ live = {} /\ attached = {} /\ member = [s \in Store!Ids |-> 0]
    BY DEF Init, Listed, live, attached, member, Store!Ids, SessionId
  <2> QED BY <2>1 DEF Init, Store!Init, live, attached, member
<1>2. IInv /\ [Next]_vars => [Store!Next]_(Store!vars)
  BY EveryStep DEF StoreStep
<1> QED
  BY <1>1, <1>2, Inductive, PTL DEF Spec, ImplementsStore, Store!Spec

-----------------------------------------------------------------------------
(* Start-up: a socket file is never left by a daemon that exits on its own; *)
(* and as long as daemons start and stop one at a time, and no system call  *)
(* fails for want of resources (calm), there is never more than one daemon  *)
(* and it is the one the path leads to.                                     *)


\* Every variable keeps its type, whatever overlaps and fails.
THEOREM StartTypes == StartSpec => []StartTypeOK
<1>1. StartInit => StartTypeOK
  BY StartAssumption DEF StartInit, StartTypeOK, Stages
<1>2. StartTypeOK /\ [StartNext]_startVars => StartTypeOK'
  <2> SUFFICES ASSUME StartTypeOK, [StartNext]_startVars PROVE StartTypeOK'
    OBVIOUS
  <2> USE DEF StartTypeOK
  <2>1. ASSUME NEW d \in Daemons,
               Start(d) \/ DaemonStep(d) \/ LoopEnds(d) \/ Kill(d)
                 \/ DaemonizeFails(d) \/ InitFails(d)
        PROVE  StartTypeOK'
    BY <2>1 DEF Start, DaemonStep, Probe, Unlink, Bind, Listen, CloseListener,
                Remove, LoopEnds, Kill, DaemonizeFails, InitFails, Enter, Stages, Disturb
  <2>2. ASSUME NEW c \in Clients, NEW d \in Daemons, Spawn(c, d) PROVE StartTypeOK'
    BY <2>2 DEF Spawn, Enter, Stages, Disturb
  <2>3. ASSUME NEW c \in Clients, Poll(c) PROVE StartTypeOK'
    BY <2>3, StartAssumption DEF Poll
  <2>4. CASE UNCHANGED startVars
    BY <2>4 DEF startVars
  <2>5. ASSUME NEW c \in Clients, Check(c) \/ SpawnFails(c) PROVE StartTypeOK'
    BY <2>5 DEF Check, SpawnFails
  <2> QED BY <2>1, <2>2, <2>3, <2>4, <2>5 DEF StartNext
<1> QED BY <1>1, <1>2, PTL DEF StartSpec

\* NoLitter is inductive: only Bind creates a file, and the daemon that did
\* leaves the stages after Bind only by Remove or Kill.
THEOREM FilesAreOwned == StartSpec => []NoLitter
<1>1. StartInit => NoLitter
  BY DEF StartInit, NoLitter
<1>2. StartTypeOK /\ NoLitter /\ [StartNext]_startVars => NoLitter'
  <2> SUFFICES ASSUME StartTypeOK, NoLitter, [StartNext]_startVars PROVE NoLitter'
    OBVIOUS
  <2> USE DEF StartTypeOK, NoLitter
  <2>1. ASSUME NEW d \in Daemons,
               Start(d) \/ DaemonStep(d) \/ LoopEnds(d) \/ Kill(d)
                 \/ DaemonizeFails(d) \/ InitFails(d)
        PROVE  NoLitter'
    BY <2>1, StartAssumption
       DEF Start, DaemonStep, Probe, Unlink, Bind, Listen, CloseListener,
           Remove, LoopEnds, Kill, DaemonizeFails, InitFails, Enter
  <2>2. ASSUME NEW c \in Clients, NEW d \in Daemons, Spawn(c, d)
        PROVE  NoLitter'
    BY <2>2 DEF Spawn, Enter
  <2>3. ASSUME NEW c \in Clients, Check(c) \/ SpawnFails(c) \/ Poll(c)
        PROVE  NoLitter'
    BY <2>3 DEF Check, SpawnFails, Poll
  <2>4. CASE UNCHANGED startVars
    BY <2>4 DEF startVars
  <2> QED BY <2>1, <2>2, <2>3, <2>4 DEF StartNext
<1> QED BY <1>1, <1>2, StartTypes, PTL DEF StartSpec

-----------------------------------------------------------------------------
\* At most one daemon is starting or stopping.
OneAtATime ==
  \A d, e \in Daemons : stage[d] \notin Settled /\ stage[e] \notin Settled => d = e

\* From Bind to Remove a daemon owns the path ...
OwnsPath ==
  \A d \in Daemons : stage[d] \in {"listen", "run", "hangup", "remove"} => path = d

\* ... and what a starting daemon learned from its probe stays true.
ProbeStillHolds ==
  \A d \in Daemons :
    /\ stage[d] \in {"unlink", "bind"} => \A e \in Daemons : ~Listening(e)
    /\ stage[d] = "bind" => path = NoFile

Orderly == OneAtATime /\ OwnsPath /\ ProbeStillHolds

\* An orderly state has one reachable daemon at most.
LEMMA OrderlySuffices ==
  StartTypeOK /\ (calm => Orderly) => OneReachableDaemon
  BY DEF StartTypeOK, Orderly, OwnsPath, OneReachableDaemon, SingleInstance, Listening

\* A step of a daemon that leaves calm set leaves the state orderly.
LEMMA DaemonStaysOrderly ==
  ASSUME StartTypeOK, Orderly, calm', NEW d \in Daemons,
         Start(d) \/ DaemonStep(d) \/ LoopEnds(d) \/ Kill(d)
  PROVE  Orderly'
<1> USE StartAssumption
    DEF StartTypeOK, Orderly, OneAtATime, OwnsPath, ProbeStillHolds, Settled, Listening, Enter
<1>1. CASE Start(d)
  BY <1>1 DEF Start, Disturb
<1>2. CASE Probe(d)
  BY <1>2 DEF Probe, Answers
<1>3. CASE Unlink(d)
  BY <1>3 DEF Unlink
<1>4. CASE Bind(d)
  BY <1>4 DEF Bind
<1>5. CASE Listen(d)
  BY <1>5 DEF Listen
<1>6. CASE CloseListener(d)
  BY <1>6 DEF CloseListener
<1>7. CASE Remove(d)
  BY <1>7 DEF Remove
<1>8. CASE LoopEnds(d)
  BY <1>8 DEF LoopEnds, Disturb
<1>9. CASE Kill(d)
  BY <1>9 DEF Kill
<1> QED BY <1>1, <1>2, <1>3, <1>4, <1>5, <1>6, <1>7, <1>8, <1>9 DEF DaemonStep

\* calm is never set again.
LEMMA CalmEnds == StartTypeOK /\ [StartNext]_startVars /\ calm' => calm
<1> SUFFICES ASSUME StartTypeOK, [StartNext]_startVars, calm' PROVE calm
  OBVIOUS
<1> USE DEF StartTypeOK
<1>1. ASSUME NEW d \in Daemons,
             Start(d) \/ DaemonStep(d) \/ LoopEnds(d) \/ Kill(d)
               \/ DaemonizeFails(d) \/ InitFails(d)
      PROVE  calm
  BY <1>1 DEF Start, DaemonStep, Probe, Unlink, Bind, Listen, CloseListener,
              Remove, LoopEnds, Kill, DaemonizeFails, InitFails, Disturb
<1>2. ASSUME NEW c \in Clients, NEW d \in Daemons, Spawn(c, d) PROVE calm
  BY <1>2 DEF Spawn, Disturb
<1>3. ASSUME NEW c \in Clients, Check(c) \/ SpawnFails(c) \/ Poll(c) PROVE calm
  BY <1>3 DEF Check, SpawnFails, Poll
<1>4. CASE UNCHANGED startVars
  BY <1>4 DEF startVars
<1> QED BY <1>1, <1>2, <1>3, <1>4 DEF StartNext

\* Daemons that come and go one at a time are never two, and the one that runs
\* is the one clients reach (socket_in_use, unlink, bind, epi_server_shutdown).
THEOREM OneDaemon == StartSpec => []OneReachableDaemon
<1>1. StartInit => Orderly
  BY DEF StartInit, Orderly, OneAtATime, OwnsPath, ProbeStillHolds, Settled
<1>2. StartTypeOK /\ (calm => Orderly) /\ [StartNext]_startVars => (calm => Orderly)'
  <2> SUFFICES ASSUME StartTypeOK, calm => Orderly, [StartNext]_startVars, calm' PROVE Orderly'
    OBVIOUS
  <2>0. calm /\ Orderly
    BY CalmEnds
  <2>1. ASSUME NEW d \in Daemons,
               Start(d) \/ DaemonStep(d) \/ LoopEnds(d) \/ Kill(d)
        PROVE  Orderly'
    BY <2>0, <2>1, DaemonStaysOrderly
  <2>2. ASSUME NEW d \in Daemons, DaemonizeFails(d) \/ InitFails(d) PROVE Orderly'
    BY <2>2 DEF DaemonizeFails, InitFails
  <2>3. ASSUME NEW c \in Clients, NEW d \in Daemons, Spawn(c, d) PROVE Orderly'
    BY <2>3, <2>0, StartAssumption
       DEF Spawn, Enter, Disturb, StartTypeOK, Orderly, OneAtATime, OwnsPath,
           ProbeStillHolds, Settled, Listening
  <2>4. ASSUME NEW c \in Clients, Check(c) \/ SpawnFails(c) \/ Poll(c) PROVE Orderly'
    BY <2>0, <2>4 DEF Check, SpawnFails, Poll, Orderly, OneAtATime, OwnsPath, ProbeStillHolds, Listening
  <2>5. CASE UNCHANGED startVars
    BY <2>0, <2>5 DEF startVars, Orderly, OneAtATime, OwnsPath, ProbeStillHolds, Listening
  <2> QED BY <2>1, <2>2, <2>3, <2>4, <2>5 DEF StartNext
<1> QED BY <1>1, <1>2, OrderlySuffices, StartTypes, PTL DEF StartSpec
=============================================================================
