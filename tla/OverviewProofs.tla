--------------------------- MODULE OverviewProofs ---------------------------
(***************************************************************************)
(* A sync leaves the groups and layout.json as the tabs are, the overview  *)
(* shows every live session once, and a restart brings back what was on    *)
(* the screen: for any pages, windows, sessions, failed requests, crashes  *)
(* and daemons.                                                            *)
(***************************************************************************)
EXTENDS Overview, FiniteSetTheorems, FunctionTheorems, SequenceTheorems, TLAPS

-----------------------------------------------------------------------------
(* The invariant *)

TabFields == {"win", "panes", "live", "gid", "enrolled", "zoomed"}

Shape(S) ==
  /\ DOMAIN S = {"daemon", "pages", "gui", "files", "past"}
  /\ DOMAIN S.daemon = {"up", "inst", "sess", "groups", "nextS", "nextG", "before"}
  /\ DOMAIN S.pages = Pages
  /\ \A p \in Pages : DOMAIN S.pages[p] = TabFields
  /\ DOMAIN S.gui = {"running", "open", "pending", "frozen", "session", "recorded"}
  /\ DOMAIN S.files = {"layout", "groups", "of"}
  /\ DOMAIN S.past = {"shown", "era", "foreign", "missed", "saved", "faults"}

\* Ids are handed out in order, and a daemon that is down knows no session.
DaemonOk(S) ==
  /\ S.daemon.inst \in Nat \ {0} /\ S.daemon.nextS \in Nat \ {0} /\ S.daemon.nextG \in Nat \ {0}
  /\ \A s \in DOMAIN S.daemon.sess :
       /\ s \in Nat /\ 0 < s /\ s < S.daemon.nextS
       /\ DOMAIN S.daemon.sess[s] = {"alive", "group"}
  /\ \A g \in DOMAIN S.daemon.groups : g \in Nat /\ 0 < g /\ g < S.daemon.nextG
  /\ S.daemon.up \/ DOMAIN S.daemon.sess = {}

\* A tab is in an open window and has panes, or nothing is left of it; what
\* it streams is alive and streamed to nobody else.
TabOk(S, p) ==
  /\ S.pages[p].gid \in Nat
  /\ S.pages[p].win = NoWindow =>
       /\ S.pages[p].panes = {} /\ S.pages[p].gid = 0
       /\ S.pages[p].enrolled = {} /\ ~S.pages[p].zoomed
  /\ S.pages[p].win # NoWindow => S.pages[p].win \in S.gui.open /\ S.pages[p].panes # {}
  /\ S.pages[p].live \subseteq S.pages[p].panes
  /\ S.pages[p].live \subseteq Alive(S)
TabsOk(S) ==
  /\ \A p \in Pages : TabOk(S, p)
  /\ \A p, q \in Pages : p # q => S.pages[p].live \intersect S.pages[q].live = {}

GuiOk(S) ==
  /\ S.gui.open \subseteq Windows
  /\ S.gui.open # {} => S.gui.running
  /\ S.gui.session \in Nat /\ S.gui.recorded \in Nat
  /\ S.gui.session <= S.daemon.inst
  /\ S.gui.pending \in {"none", "layout", "groups"}
  /\ S.gui.frozen \/ ~S.gui.running => S.gui.pending = "none"
  /\ ~S.gui.running => ~S.gui.frozen /\ ~S.past.foreign /\ ~S.past.saved

\* The process was started with the daemon that answers.
Current(S) == S.gui.running /\ S.daemon.up /\ S.gui.session = S.daemon.inst

\* Every pane and every group is in one tab, and the panes a tab has told
\* the daemon about are members of its group.
PageArranged(S, p) ==
  /\ \A s \in S.pages[p].panes \union S.pages[p].enrolled : s \in Nat /\ s < S.daemon.nextS
  /\ S.pages[p].gid < S.daemon.nextG
  /\ \A s \in S.pages[p].panes \intersect S.pages[p].enrolled \intersect DOMAIN S.daemon.sess :
       S.daemon.sess[s].group = S.pages[p].gid
Apart(S, p, q) ==
  /\ S.pages[p].panes \intersect S.pages[q].panes = {}
  /\ S.pages[p].gid # 0 => S.pages[p].gid # S.pages[q].gid
Arranged(S) ==
  Current(S) /\ ~S.past.foreign =>
    /\ \A p \in Pages : PageArranged(S, p)
    /\ \A p, q \in Pages : p # q => Apart(S, p, q)

Basic(S) == Shape(S) /\ DaemonOk(S) /\ TabsOk(S) /\ GuiOk(S) /\ Arranged(S)

\* There is a page for every group of layout.json.
LayoutFits(S) ==
  \E f \in [Pages -> (Windows \union {NoWindow}) \X Nat] :
    \A w \in Windows : \A g \in S.files.layout[w] : \E p \in Pages : f[p] = <<w, g>>

Filed(S) ==
  /\ S.files.groups \in Nat
  /\ DOMAIN S.files.layout = Windows
  /\ \A w \in Windows : \A g \in S.files.layout[w] : g \in Nat /\ g # 0
  /\ LayoutFits(S)
  /\ Current(S) /\ S.past.saved => S.files.groups = S.daemon.inst

\* What was remembered can be restored: a tab of which a session is alive
\* has its group in the file, and the groups in the file are such tabs, with
\* their sessions as members.
Restorable(S) ==
  /\ \A w \in Windows : \A t \in S.past.shown[w] :
       /\ \A s \in t : s \in Nat /\ s < S.daemon.nextS
       /\ t \intersect Alive(S) # {} =>
            \E g \in S.files.layout[w] :
              g \in DOMAIN S.daemon.groups /\ S.daemon.groups[g] = t
  /\ \A w \in Windows : \A g \in S.files.layout[w] \intersect DOMAIN S.daemon.groups :
       /\ S.daemon.groups[g] \in S.past.shown[w]
       /\ \A s \in S.daemon.groups[g] \intersect DOMAIN S.daemon.sess :
            S.daemon.sess[s].group = g
  /\ \A v, w \in Windows : v # w => S.files.layout[v] \intersect S.files.layout[w] = {}

EraOk(S) ==
  S.past.era # 0 =>
    /\ S.past.era \in Nat /\ S.past.era <= S.daemon.inst
    /\ S.files.groups = S.past.era
    /\ S.past.era = S.daemon.inst /\ S.daemon.up => Restorable(S)

\* What holds also within a handler.
Sound(S) == Basic(S) /\ Filed(S) /\ EraOk(S)

\* The group of the tab holds just its arrangement.
Synced(S, p) ==
  /\ S.pages[p].gid \in DOMAIN S.daemon.groups
  /\ S.daemon.groups[S.pages[p].gid] = S.pages[p].panes
  /\ \A s \in S.pages[p].panes : S.daemon.sess[s].group = S.pages[p].gid
AllSynced(S) == \A p \in Exists(S) : ~S.pages[p].zoomed => Synced(S, p)

Settled(S) == S.gui.pending = "none" /\ ~S.gui.frozen
SyncOk(S) == Orderly(S) /\ Settled(S) /\ ~S.past.missed => AllSynced(S)

LayoutOf(S) == [w \in Windows |-> GroupIds(S, w)]
ListOk(S) ==
  S.gui.running /\ S.past.saved /\ ~S.gui.frozen /\ S.gui.pending # "layout" =>
    S.files.layout = LayoutOf(S)

Opened(S) == S.gui.running => S.gui.open # {}

Inv(S) == Sound(S) /\ Opened(S) /\ ListOk(S) /\ SyncOk(S)

-----------------------------------------------------------------------------
(* What the requests change *)

\* All of a tab but what it streams.
SameTab(r, t) ==
  /\ t.win = r.win /\ t.panes = r.panes /\ t.gid = r.gid
  /\ t.enrolled = r.enrolled /\ t.zoomed = r.zoomed

\* CREATE: a session of the next id, alive and in no group.
LEMMA CreateEffect ==
  ASSUME NEW S, Shape(S), NEW T, T = CreateSession(S)
  PROVE  /\ Shape(T)
         /\ T.pages = S.pages /\ T.gui = S.gui /\ T.files = S.files /\ T.past = S.past
         /\ T.daemon.up = S.daemon.up /\ T.daemon.inst = S.daemon.inst
         /\ T.daemon.groups = S.daemon.groups /\ T.daemon.nextG = S.daemon.nextG
         /\ T.daemon.nextS = S.daemon.nextS + 1
         /\ DOMAIN T.daemon.sess = DOMAIN S.daemon.sess \union {S.daemon.nextS}
         /\ \A s \in DOMAIN S.daemon.sess : s # S.daemon.nextS => T.daemon.sess[s] = S.daemon.sess[s]
         /\ T.daemon.sess[S.daemon.nextS] = [alive |-> TRUE, group |-> 0]
  <1>1. Shape(T)  BY DEF Shape, CreateSession
  <1>2. T.pages = S.pages /\ T.gui = S.gui /\ T.files = S.files /\ T.past = S.past
    BY DEF Shape, CreateSession
  <1>3. /\ T.daemon.up = S.daemon.up /\ T.daemon.inst = S.daemon.inst
         /\ T.daemon.groups = S.daemon.groups /\ T.daemon.nextG = S.daemon.nextG
         /\ T.daemon.nextS = S.daemon.nextS + 1
    BY DEF Shape, CreateSession
  <1>4. T.daemon.sess = With(S.daemon.sess, S.daemon.nextS, [alive |-> TRUE, group |-> 0])
    BY DEF Shape, CreateSession
  <1> QED BY <1>1, <1>2, <1>3, <1>4 DEF With

\* ATTACH: the page streams the sessions, and no other page does.
LEMMA AttachEffect ==
  ASSUME NEW S, Shape(S), NEW p \in Pages, NEW ss, NEW T, T = AttachSessions(S, p, ss)
  PROVE  /\ Shape(T)
         /\ T.daemon = S.daemon /\ T.gui = S.gui /\ T.files = S.files /\ T.past = S.past
         /\ \A q \in Pages : SameTab(S.pages[q], T.pages[q])
         /\ T.pages[p].live = S.pages[p].live \union ss
         /\ \A q \in Pages \ {p} : T.pages[q].live = S.pages[q].live \ ss
  <1>1. T.pages = [q \in Pages |-> [S.pages[q] EXCEPT
                     !.live = IF q = p THEN S.pages[q].live \union ss ELSE S.pages[q].live \ ss]]
    BY DEF Shape, AttachSessions
  <1>2. T.daemon = S.daemon /\ T.gui = S.gui /\ T.files = S.files /\ T.past = S.past /\ DOMAIN T = DOMAIN S
    BY DEF Shape, AttachSessions
  <1>3. \A q \in Pages : T.pages[q] = [S.pages[q] EXCEPT
                     !.live = IF q = p THEN S.pages[q].live \union ss ELSE S.pages[q].live \ ss]
    BY <1>1
  <1>4. T.pages[p] = [S.pages[p] EXCEPT !.live = S.pages[p].live \union ss]  BY <1>3
  <1>5. \A q \in Pages \ {p} : T.pages[q] = [S.pages[q] EXCEPT !.live = S.pages[q].live \ ss]
    BY <1>3
  <1>6. /\ T.pages[p].live = S.pages[p].live \union ss
        /\ SameTab(S.pages[p], T.pages[p]) /\ DOMAIN T.pages[p] = DOMAIN S.pages[p]
    BY <1>4 DEF Shape, SameTab, TabFields
  <1>7. ASSUME NEW q \in Pages \ {p}
        PROVE  /\ T.pages[q].live = S.pages[q].live \ ss
               /\ SameTab(S.pages[q], T.pages[q]) /\ DOMAIN T.pages[q] = DOMAIN S.pages[q]
    <2>1. T.pages[q] = [S.pages[q] EXCEPT !.live = S.pages[q].live \ ss]  BY <1>5
    <2>2. DOMAIN S.pages[q] = TabFields  BY DEF Shape
    <2> QED BY ONLY <2>1, <2>2 DEF SameTab, TabFields
  <1> QED BY <1>1, <1>2, <1>6, <1>7 DEF Shape

\* A group goes with its last member, and nothing else.
LEMMA CollectedEffect ==
  ASSUME NEW S, NEW U, Shape(U), U.daemon.groups = S.daemon.groups, NEW T, T = Collected(S, U)
  PROVE  /\ Shape(T)
         /\ T.pages = U.pages /\ T.gui = U.gui /\ T.files = U.files /\ T.past = U.past
         /\ T.daemon.up = U.daemon.up /\ T.daemon.inst = U.daemon.inst
         /\ T.daemon.nextS = U.daemon.nextS /\ T.daemon.nextG = U.daemon.nextG
         /\ T.daemon.sess = U.daemon.sess
         /\ \A g : MembersOf(T, g) = MembersOf(U, g)
         /\ DOMAIN T.daemon.groups = {g \in DOMAIN S.daemon.groups :
                                        MembersOf(S, g) = {} \/ MembersOf(U, g) # {}}
         /\ \A g \in DOMAIN T.daemon.groups : T.daemon.groups[g] = S.daemon.groups[g]
  <1> DEFINE kept == {g \in DOMAIN S.daemon.groups : MembersOf(S, g) = {} \/ MembersOf(U, g) # {}}
  <1>1. T = [U EXCEPT !.daemon.groups = Restrict(@, kept)]  BY DEF Collected
  <1> HIDE DEF kept
  <1>2. /\ Shape(T)
        /\ T.pages = U.pages /\ T.gui = U.gui /\ T.files = U.files /\ T.past = U.past
        /\ T.daemon.up = U.daemon.up /\ T.daemon.inst = U.daemon.inst
        /\ T.daemon.nextS = U.daemon.nextS /\ T.daemon.nextG = U.daemon.nextG
        /\ T.daemon.sess = U.daemon.sess
        /\ T.daemon.groups = Restrict(U.daemon.groups, kept)
    BY <1>1 DEF Shape
  <1>3. DOMAIN T.daemon.groups = kept /\ \A g \in kept : T.daemon.groups[g] = S.daemon.groups[g]
    BY <1>2 DEF Restrict
  <1>4. \A g : MembersOf(T, g) = MembersOf(U, g)  BY <1>2 DEF MembersOf
  <1> QED  BY <1>2, <1>3, <1>4 DEF kept

\* KILL: the sessions, what is streamed of them, and the groups they were
\* the last members of.
LEMMA KillEffect ==
  ASSUME NEW S, Shape(S), NEW ks, NEW T, T = Kill(S, ks)
  PROVE  /\ Shape(T)
         /\ T.gui = S.gui /\ T.files = S.files /\ T.past = S.past
         /\ T.daemon.up = S.daemon.up /\ T.daemon.inst = S.daemon.inst
         /\ T.daemon.nextS = S.daemon.nextS /\ T.daemon.nextG = S.daemon.nextG
         /\ DOMAIN T.daemon.sess = DOMAIN S.daemon.sess \ ks
         /\ \A s \in DOMAIN S.daemon.sess \ ks : T.daemon.sess[s] = S.daemon.sess[s]
         /\ DOMAIN T.daemon.groups = {g \in DOMAIN S.daemon.groups :
                                        MembersOf(S, g) = {} \/ MembersOf(T, g) # {}}
         /\ \A g \in DOMAIN T.daemon.groups : T.daemon.groups[g] = S.daemon.groups[g]
         /\ \A q \in Pages : SameTab(S.pages[q], T.pages[q])
         /\ \A q \in Pages : T.pages[q].live = S.pages[q].live \ ks
  <1> DEFINE U == [S EXCEPT
                     !.daemon.sess = Restrict(@, DOMAIN @ \ ks),
                     !.pages = [q \in Pages |-> [S.pages[q] EXCEPT !.live = @ \ ks]]]
  <1>1. T = Collected(S, U)  BY DEF Kill
  <1>2. /\ DOMAIN U = DOMAIN S /\ DOMAIN U.daemon = DOMAIN S.daemon
        /\ U.gui = S.gui /\ U.files = S.files /\ U.past = S.past
        /\ U.daemon.up = S.daemon.up /\ U.daemon.inst = S.daemon.inst
        /\ U.daemon.nextS = S.daemon.nextS /\ U.daemon.nextG = S.daemon.nextG
        /\ U.daemon.groups = S.daemon.groups
        /\ U.daemon.sess = Restrict(S.daemon.sess, DOMAIN S.daemon.sess \ ks)
        /\ U.pages = [q \in Pages |-> [S.pages[q] EXCEPT !.live = @ \ ks]]
    BY DEF Shape
  <1> HIDE DEF U
  <1>3. ASSUME NEW q \in Pages
        PROVE  /\ SameTab(S.pages[q], U.pages[q]) /\ DOMAIN U.pages[q] = TabFields
               /\ U.pages[q].live = S.pages[q].live \ ks
    <2>1. U.pages[q] = [S.pages[q] EXCEPT !.live = S.pages[q].live \ ks]  BY <1>2
    <2>2. DOMAIN S.pages[q] = TabFields  BY DEF Shape
    <2> QED  BY ONLY <2>1, <2>2 DEF SameTab, TabFields
  <1>4. DOMAIN U.pages = Pages  BY <1>2
  <1>5. Shape(U)  BY <1>2, <1>3, <1>4 DEF Shape
  <1>6. /\ DOMAIN U.daemon.sess = DOMAIN S.daemon.sess \ ks
        /\ \A s \in DOMAIN S.daemon.sess \ ks : U.daemon.sess[s] = S.daemon.sess[s]
    BY <1>2 DEF Restrict
  <1>7. /\ Shape(T)
        /\ T.pages = U.pages /\ T.gui = U.gui /\ T.files = U.files /\ T.past = U.past
        /\ T.daemon.up = U.daemon.up /\ T.daemon.inst = U.daemon.inst
        /\ T.daemon.nextS = U.daemon.nextS /\ T.daemon.nextG = U.daemon.nextG
        /\ T.daemon.sess = U.daemon.sess
        /\ \A h : MembersOf(T, h) = MembersOf(U, h)
        /\ DOMAIN T.daemon.groups = {h \in DOMAIN S.daemon.groups :
                                        MembersOf(S, h) = {} \/ MembersOf(U, h) # {}}
        /\ \A h \in DOMAIN T.daemon.groups : T.daemon.groups[h] = S.daemon.groups[h]
    BY <1>1, <1>2, <1>5, CollectedEffect
  <1>8. DOMAIN T.daemon.groups = {g \in DOMAIN S.daemon.groups :
                                    MembersOf(S, g) = {} \/ MembersOf(T, g) # {}}
    BY <1>7
  <1>9. \A q \in Pages : SameTab(S.pages[q], T.pages[q]) /\ T.pages[q].live = S.pages[q].live \ ks
    BY <1>3, <1>7
  <1>10. /\ DOMAIN T.daemon.sess = DOMAIN S.daemon.sess \ ks
         /\ \A s \in DOMAIN S.daemon.sess \ ks : T.daemon.sess[s] = S.daemon.sess[s]
    BY <1>6, <1>7
  <1>11. /\ T.gui = S.gui /\ T.files = S.files /\ T.past = S.past
         /\ T.daemon.up = S.daemon.up /\ T.daemon.inst = S.daemon.inst
         /\ T.daemon.nextS = S.daemon.nextS /\ T.daemon.nextG = S.daemon.nextG
    BY <1>2, <1>7
  <1> QED  BY <1>7, <1>8, <1>9, <1>10, <1>11

\* GROUP_ADD: members move from group to group.
LEMMA GroupAddEffect ==
  ASSUME NEW S, Shape(S), DaemonOk(S), NEW g, NEW ss, NEW T, T = GroupAdd(S, g, ss)
  PROVE  /\ Shape(T)
         /\ T.pages = S.pages /\ T.gui = S.gui /\ T.files = S.files /\ T.past = S.past
         /\ T.daemon.up = S.daemon.up /\ T.daemon.inst = S.daemon.inst
         /\ T.daemon.nextS = S.daemon.nextS /\ T.daemon.nextG = S.daemon.nextG
         /\ DOMAIN T.daemon.sess = DOMAIN S.daemon.sess
         /\ \A s \in DOMAIN S.daemon.sess :
              /\ T.daemon.sess[s].alive = S.daemon.sess[s].alive
              /\ DOMAIN T.daemon.sess[s] = {"alive", "group"}
         /\ \A s \in DOMAIN S.daemon.sess \intersect ss : T.daemon.sess[s].group = g
         /\ \A s \in DOMAIN S.daemon.sess \ ss : T.daemon.sess[s].group = S.daemon.sess[s].group
         /\ DOMAIN T.daemon.groups = {h \in DOMAIN S.daemon.groups :
                                        MembersOf(S, h) = {} \/ MembersOf(T, h) # {}}
         /\ \A h \in DOMAIN T.daemon.groups : T.daemon.groups[h] = S.daemon.groups[h]
  <1> DEFINE f == [s \in DOMAIN S.daemon.sess |->
                     IF s \in ss THEN [S.daemon.sess[s] EXCEPT !.group = g] ELSE S.daemon.sess[s]]
             U == [S EXCEPT !.daemon.sess = f]
  <1>1. T = Collected(S, U)  BY DEF GroupAdd
  <1>2. ASSUME NEW s \in DOMAIN S.daemon.sess \intersect ss
        PROVE  f[s].group = g /\ f[s].alive = S.daemon.sess[s].alive /\ DOMAIN f[s] = {"alive", "group"}
    <2>1. f[s] = [S.daemon.sess[s] EXCEPT !.group = g]  OBVIOUS
    <2>2. DOMAIN S.daemon.sess[s] = {"alive", "group"}  BY DEF DaemonOk
    <2> QED  BY ONLY <2>1, <2>2
  <1>3. ASSUME NEW s \in DOMAIN S.daemon.sess \ ss
        PROVE  f[s] = S.daemon.sess[s] /\ DOMAIN f[s] = {"alive", "group"}
    BY DEF DaemonOk
  <1>4. DOMAIN f = DOMAIN S.daemon.sess  OBVIOUS
  <1> HIDE DEF f
  <1>5. /\ Shape(U)
        /\ U.pages = S.pages /\ U.gui = S.gui /\ U.files = S.files /\ U.past = S.past
        /\ U.daemon.up = S.daemon.up /\ U.daemon.inst = S.daemon.inst
        /\ U.daemon.nextS = S.daemon.nextS /\ U.daemon.nextG = S.daemon.nextG
        /\ U.daemon.groups = S.daemon.groups /\ U.daemon.sess = f
    BY DEF Shape
  <1> HIDE DEF U
  <1>6. /\ Shape(T)
        /\ T.pages = U.pages /\ T.gui = U.gui /\ T.files = U.files /\ T.past = U.past
        /\ T.daemon.up = U.daemon.up /\ T.daemon.inst = U.daemon.inst
        /\ T.daemon.nextS = U.daemon.nextS /\ T.daemon.nextG = U.daemon.nextG
        /\ T.daemon.sess = U.daemon.sess
        /\ \A h : MembersOf(T, h) = MembersOf(U, h)
        /\ DOMAIN T.daemon.groups = {h \in DOMAIN S.daemon.groups :
                                        MembersOf(S, h) = {} \/ MembersOf(U, h) # {}}
        /\ \A h \in DOMAIN T.daemon.groups : T.daemon.groups[h] = S.daemon.groups[h]
    BY <1>1, <1>5, CollectedEffect
  <1> QED  BY <1>2, <1>3, <1>4, <1>5, <1>6

\* KILL leaves the state sound.
LEMMA KillSound ==
  ASSUME NEW S, Sound(S), NEW ks
  PROVE  Sound(Kill(S, ks))
  <1> DEFINE T == Kill(S, ks)
  <1>0. Shape(S) /\ DaemonOk(S) /\ TabsOk(S) /\ GuiOk(S) /\ Arranged(S) /\ Filed(S) /\ EraOk(S)
    BY DEF Sound, Basic
  <1>1. /\ Shape(T)
        /\ T.gui = S.gui /\ T.files = S.files /\ T.past = S.past
        /\ T.daemon.up = S.daemon.up /\ T.daemon.inst = S.daemon.inst
        /\ T.daemon.nextS = S.daemon.nextS /\ T.daemon.nextG = S.daemon.nextG
        /\ DOMAIN T.daemon.sess = DOMAIN S.daemon.sess \ ks
        /\ \A s \in DOMAIN S.daemon.sess \ ks : T.daemon.sess[s] = S.daemon.sess[s]
        /\ DOMAIN T.daemon.groups = {g \in DOMAIN S.daemon.groups :
                                       MembersOf(S, g) = {} \/ MembersOf(T, g) # {}}
        /\ \A g \in DOMAIN T.daemon.groups : T.daemon.groups[g] = S.daemon.groups[g]
        /\ \A q \in Pages : SameTab(S.pages[q], T.pages[q])
        /\ \A q \in Pages : T.pages[q].live = S.pages[q].live \ ks
    BY <1>0, KillEffect
  <1> HIDE DEF T
  <1>2. Alive(T) = Alive(S) \ ks  BY <1>1 DEF Alive
  <1>3. DaemonOk(T)  BY <1>0, <1>1 DEF DaemonOk
  <1>4. TabsOk(T)
    <2>1. \A q \in Pages : TabOk(T, q)  BY <1>0, <1>1, <1>2 DEF TabsOk, TabOk, SameTab
    <2>2. \A p, q \in Pages : p # q => T.pages[p].live \intersect T.pages[q].live = {}
      BY <1>0, <1>1 DEF TabsOk
    <2> QED  BY <2>1, <2>2 DEF TabsOk
  <1>5. GuiOk(T)  BY <1>0, <1>1 DEF GuiOk
  <1>6. Current(T) <=> Current(S)  BY <1>1 DEF Current
  <1>7. Arranged(T)
    <2> SUFFICES ASSUME Current(T), ~T.past.foreign
                 PROVE  /\ \A p \in Pages : PageArranged(T, p)
                        /\ \A p, q \in Pages : p # q => Apart(T, p, q)
      BY DEF Arranged
    <2>1. /\ \A p \in Pages : PageArranged(S, p)
          /\ \A p, q \in Pages : p # q => Apart(S, p, q)
      BY <1>0, <1>1, <1>6 DEF Arranged
    <2>2. \A p \in Pages : PageArranged(T, p)  BY <2>1, <1>1 DEF PageArranged, SameTab
    <2>3. \A p, q \in Pages : p # q => Apart(T, p, q)  BY <2>1, <1>1 DEF Apart, SameTab
    <2> QED  BY <2>2, <2>3
  <1>8. Filed(T)  BY <1>0, <1>1, <1>6 DEF Filed, LayoutFits
  <1>9. EraOk(T)
    <2> SUFFICES ASSUME S.past.era # 0, S.past.era = S.daemon.inst, S.daemon.up PROVE Restorable(T)
      BY <1>0, <1>1 DEF EraOk
    <2>1. Restorable(S)  BY <1>0 DEF EraOk
    <2>2. ASSUME NEW w \in Windows, NEW t \in T.past.shown[w], t \intersect Alive(T) # {}
          PROVE  \E g \in T.files.layout[w] : g \in DOMAIN T.daemon.groups /\ T.daemon.groups[g] = t
      <3>1. PICK s \in t : s \in Alive(S) /\ s \notin ks  BY <2>2, <1>2
      <3>2. PICK g \in S.files.layout[w] : g \in DOMAIN S.daemon.groups /\ S.daemon.groups[g] = t
        BY <2>1, <2>2, <3>1, <1>1 DEF Restorable
      <3>3. s \in DOMAIN S.daemon.sess  BY <3>1 DEF Alive
      <3>4. S.daemon.sess[s].group = g  BY <2>1, <3>1, <3>2, <3>3 DEF Restorable
      <3>5. s \in MembersOf(T, g)  BY <3>1, <3>3, <3>4, <1>1 DEF MembersOf
      <3> QED  BY <3>2, <3>5, <1>1
    <2>3. \A w \in Windows : \A g \in T.files.layout[w] \intersect DOMAIN T.daemon.groups :
            /\ T.daemon.groups[g] \in T.past.shown[w]
            /\ \A s \in T.daemon.groups[g] \intersect DOMAIN T.daemon.sess :
                 T.daemon.sess[s].group = g
      BY <2>1, <1>1 DEF Restorable
    <2> QED  BY <2>1, <2>2, <2>3, <1>1, SMTT(30) DEF Restorable
  <1> QED  BY <1>1, <1>3, <1>4, <1>5, <1>7, <1>8, <1>9 DEF Sound, Basic, T

\* A kill from the overview leaves a sync complete.
LEMMA KillInv ==
  ASSUME NEW S, Inv(S), NEW ks
  PROVE  Inv(Kill(S, ks))
  <1> DEFINE T == Kill(S, ks)
  <1>0. Sound(S) /\ Shape(S) /\ TabsOk(S) /\ Opened(S) /\ ListOk(S) /\ SyncOk(S)
    BY DEF Inv, Sound, Basic
  <1>1. /\ T.gui = S.gui /\ T.files = S.files /\ T.past = S.past
        /\ T.daemon.up = S.daemon.up /\ T.daemon.inst = S.daemon.inst
        /\ DOMAIN T.daemon.sess = DOMAIN S.daemon.sess \ ks
        /\ \A s \in DOMAIN S.daemon.sess \ ks : T.daemon.sess[s] = S.daemon.sess[s]
        /\ DOMAIN T.daemon.groups = {g \in DOMAIN S.daemon.groups :
                                       MembersOf(S, g) = {} \/ MembersOf(T, g) # {}}
        /\ \A g \in DOMAIN T.daemon.groups : T.daemon.groups[g] = S.daemon.groups[g]
        /\ \A q \in Pages : SameTab(S.pages[q], T.pages[q])
        /\ \A q \in Pages : T.pages[q].live = S.pages[q].live \ ks
    BY <1>0, KillEffect
  <1>2. Sound(T)  BY <1>0, KillSound
  <1> HIDE DEF T
  <1>3. Opened(T)  BY <1>0, <1>1 DEF Opened
  <1>4. \A w \in Windows : GroupIds(T, w) = GroupIds(S, w)  BY <1>1 DEF GroupIds, SameTab
  <1>5. LayoutOf(T) = LayoutOf(S)  BY <1>4 DEF LayoutOf
  <1>6. ListOk(T)  BY <1>0, <1>1, <1>5 DEF ListOk
  <1>7. SyncOk(T)
    <2> SUFFICES ASSUME Orderly(T), Settled(T), ~T.past.missed,
                        NEW p \in Exists(T), ~T.pages[p].zoomed
                 PROVE  Synced(T, p)
      BY DEF SyncOk, AllSynced
    <2>1. ASSUME NEW q \in Pages
          PROVE  S.pages[q].live = S.pages[q].panes /\ S.pages[q].panes \intersect ks = {}
      <3>1. S.pages[q].live \ ks = S.pages[q].panes  BY <1>1 DEF Orderly, SameTab
      <3>2. S.pages[q].live \subseteq S.pages[q].panes  BY <1>0 DEF TabsOk, TabOk
      <3> QED  BY <3>1, <3>2
    <2>2. Orderly(S) /\ Settled(S) /\ ~S.past.missed  BY <1>1, <2>1 DEF Orderly, Settled
    <2>3. p \in Exists(S) /\ ~S.pages[p].zoomed /\ p \in Pages  BY <1>1 DEF Exists, SameTab
    <2>4. Synced(S, p)  BY <1>0, <2>2, <2>3 DEF SyncOk, AllSynced
    <2>5. S.pages[p].panes # {} /\ S.pages[p].panes \subseteq DOMAIN S.daemon.sess
      BY <1>0, <2>1, <2>3 DEF TabsOk, TabOk, Exists, Alive
    <2>6. S.pages[p].panes \subseteq MembersOf(T, S.pages[p].gid)
      <3> SUFFICES ASSUME NEW s \in S.pages[p].panes PROVE s \in MembersOf(T, S.pages[p].gid)
        OBVIOUS
      <3>1. s \in DOMAIN S.daemon.sess \ ks  BY <2>1, <2>3, <2>5
      <3>2. T.daemon.sess[s].group = S.pages[p].gid  BY <3>1, <1>1, <2>4 DEF Synced
      <3> QED  BY <3>1, <3>2, <1>1 DEF MembersOf
    <2>7. S.pages[p].gid \in DOMAIN T.daemon.groups  BY <1>1, <2>4, <2>5, <2>6 DEF Synced
    <2> QED  BY <1>1, <2>1, <2>3, <2>4, <2>5, <2>7 DEF Synced, SameTab
  <1> QED  BY <1>2, <1>3, <1>6, <1>7 DEF Inv, T

-----------------------------------------------------------------------------
(* Tabs, windows and panes *)

\* What the daemon and the files are said to be depends on them alone.
LEMMA Framed ==
  ASSUME NEW S, Sound(S), NEW T, T.daemon = S.daemon, T.files = S.files,
         T.past.era = S.past.era, T.past.shown = S.past.shown,
         Current(T) /\ T.past.saved => Current(S) /\ S.past.saved
  PROVE  DaemonOk(T) /\ Filed(T) /\ EraOk(T) /\ Alive(T) = Alive(S)
  <1>0. DaemonOk(S) /\ Filed(S) /\ EraOk(S)  BY DEF Sound, Basic
  <1>1. DaemonOk(T)  BY <1>0 DEF DaemonOk
  <1>2. Filed(T)  BY <1>0 DEF Filed, LayoutFits
  <1>3. Alive(T) = Alive(S)  BY DEF Alive
  <1>4. Restorable(S) => Restorable(T)  BY <1>3 DEF Restorable
  <1>5. EraOk(T)  BY <1>0, <1>4 DEF EraOk
  <1> QED  BY <1>1, <1>2, <1>3, <1>5

\* Only the fields of gui but running, open and session differ.
LEMMA PendingSound ==
  ASSUME NEW S, Sound(S), S.gui.running, ~S.gui.frozen, NEW x \in {"layout", "groups"}
  PROVE  Sound([S EXCEPT !.gui.pending = x])
  <1> DEFINE T == [S EXCEPT !.gui.pending = x]
  <1>0. Shape(S) /\ TabsOk(S) /\ GuiOk(S) /\ Arranged(S)  BY DEF Sound, Basic
  <1>1. /\ Shape(T) /\ T.daemon = S.daemon /\ T.pages = S.pages /\ T.files = S.files /\ T.past = S.past
        /\ T.gui.running = S.gui.running /\ T.gui.open = S.gui.open /\ T.gui.frozen = S.gui.frozen
        /\ T.gui.session = S.gui.session /\ T.gui.recorded = S.gui.recorded /\ T.gui.pending = x
    BY <1>0 DEF Shape
  <1> HIDE DEF T
  <1>2. Current(T) <=> Current(S)  BY <1>1 DEF Current
  <1>3. DaemonOk(T) /\ Filed(T) /\ EraOk(T) /\ Alive(T) = Alive(S)  BY <1>1, <1>2, Framed
  <1>4. TabsOk(T)  BY <1>0, <1>1, <1>3 DEF TabsOk, TabOk
  <1>5. GuiOk(T)  BY <1>0, <1>1 DEF GuiOk
  <1>6. Arranged(T)  BY <1>0, <1>1, <1>2 DEF Arranged, PageArranged, Apart
  <1> QED  BY <1>1, <1>3, <1>4, <1>5, <1>6 DEF Sound, Basic, T

\* epimone_layout_schedule_save: what the handler has changed waits for the
\* next save, or the process has frozen what it saved.
LEMMA ScheduleSaveInv ==
  ASSUME NEW S, Sound(S), S.gui.running, S.gui.open # {}
  PROVE  Inv(ScheduleSave(S))
  <1> DEFINE T == ScheduleSave(S)
  <1>0. Shape(S)  BY DEF Sound, Basic
  <1>1. T.gui.running = S.gui.running /\ T.gui.open = S.gui.open
    BY <1>0 DEF Shape, ScheduleSave
  <1>2. T.gui.frozen \/ T.gui.pending = "layout"  BY <1>0 DEF Shape, ScheduleSave
  <1>3. Sound(T)
    <2>1. CASE S.gui.frozen  BY <2>1 DEF ScheduleSave
    <2>2. CASE ~S.gui.frozen  BY <2>2, PendingSound DEF ScheduleSave
    <2> QED  BY <2>1, <2>2
  <1> HIDE DEF T
  <1>4. Opened(T)  BY <1>1 DEF Opened
  <1>5. ListOk(T)  BY <1>2 DEF ListOk
  <1>6. SyncOk(T)  BY <1>2 DEF SyncOk, Settled
  <1> QED  BY <1>3, <1>4, <1>5, <1>6 DEF Inv, T

\* epimone_layout_schedule_group_save
LEMMA ScheduleGroupSaveInv ==
  ASSUME NEW S, Sound(S), S.gui.running, Opened(S), ListOk(S)
  PROVE  Inv(ScheduleGroupSave(S))
  <1> DEFINE T == ScheduleGroupSave(S)
  <1>0. Shape(S)  BY DEF Sound, Basic
  <1>1. /\ T.gui.running = S.gui.running /\ T.gui.open = S.gui.open /\ T.gui.frozen = S.gui.frozen
        /\ T.pages = S.pages /\ T.files = S.files /\ T.past = S.past
    BY <1>0 DEF Shape, ScheduleGroupSave
  <1>2. T.gui.frozen \/ T.gui.pending # "none"  BY <1>0 DEF Shape, ScheduleGroupSave
  <1>3. T.gui.frozen \/ (S.gui.pending = "layout" => T.gui.pending = "layout")
    BY <1>0 DEF Shape, ScheduleGroupSave
  <1>4. Sound(T)
    <2>1. CASE S.gui.frozen \/ S.gui.pending # "none"  BY <2>1 DEF ScheduleGroupSave
    <2>2. CASE ~(S.gui.frozen \/ S.gui.pending # "none")
      BY <2>2, PendingSound DEF ScheduleGroupSave
    <2> QED  BY <2>1, <2>2
  <1> HIDE DEF T
  <1>5. Opened(T)  BY <1>1 DEF Opened
  <1>6. LayoutOf(T) = LayoutOf(S)  BY <1>1 DEF LayoutOf, GroupIds
  <1>7. ListOk(T)  BY <1>1, <1>3, <1>6 DEF ListOk
  <1>8. SyncOk(T)  BY <1>2 DEF SyncOk, Settled
  <1> QED  BY <1>4, <1>5, <1>7, <1>8 DEF Inv, T

\* A tab that loses panes, or all that it was.
Shrunk(r, t) ==
  /\ t.panes \subseteq r.panes /\ t.live \subseteq r.live /\ t.enrolled \subseteq r.enrolled
  /\ t.gid = r.gid \/ (t.gid = 0 /\ t.panes = {})

\* Tabs may lose panes, go, move to other windows and be zoomed.
LEMMA ShrinkSound ==
  ASSUME NEW S, Sound(S), NEW T, Shape(T), T.daemon = S.daemon, T.files = S.files,
         T.past.era = S.past.era, T.past.shown = S.past.shown,
         Current(T) => /\ Current(S)
                       /\ T.past.foreign = S.past.foreign /\ T.past.saved = S.past.saved,
         GuiOk(T), \A q \in Pages : TabOk(T, q), \A q \in Pages : Shrunk(S.pages[q], T.pages[q])
  PROVE  Sound(T)
  <1>0. TabsOk(S) /\ Arranged(S)  BY DEF Sound, Basic
  <1>1. DaemonOk(T) /\ Filed(T) /\ EraOk(T)  BY Framed
  <1>2. TabsOk(T)  BY <1>0 DEF TabsOk, Shrunk
  <1>3. Arranged(T)
    <2> SUFFICES ASSUME Current(T), ~T.past.foreign
                 PROVE  /\ \A p \in Pages : PageArranged(T, p)
                        /\ \A p, q \in Pages : p # q => Apart(T, p, q)
      BY DEF Arranged
    <2>1. /\ \A p \in Pages : PageArranged(S, p)
          /\ \A p, q \in Pages : p # q => Apart(S, p, q)
      BY <1>0 DEF Arranged
    <2>2. S.daemon.nextG \in Nat /\ 0 < S.daemon.nextG  BY DEF Sound, Basic, DaemonOk
    <2>3. ASSUME NEW p \in Pages PROVE PageArranged(T, p)
      <3>1. PageArranged(S, p) /\ Shrunk(S.pages[p], T.pages[p])  BY <2>1
      <3>2. CASE T.pages[p].gid = S.pages[p].gid  BY <3>1, <3>2 DEF PageArranged, Shrunk
      <3>3. CASE T.pages[p].gid = 0 /\ T.pages[p].panes = {}
        BY <3>1, <3>3, <2>2 DEF PageArranged, Shrunk
      <3> QED  BY <3>1, <3>2, <3>3 DEF Shrunk
    <2>4. ASSUME NEW p \in Pages, NEW q \in Pages, p # q PROVE Apart(T, p, q)
      <3>1. Apart(S, p, q) /\ Shrunk(S.pages[p], T.pages[p]) /\ Shrunk(S.pages[q], T.pages[q])
        BY <2>1, <2>4
      <3> QED  BY <3>1 DEF Apart, Shrunk
    <2> QED  BY <2>3, <2>4
  <1> QED  BY <1>1, <1>2, <1>3 DEF Sound, Basic

\* A tab that shows all its panes again, or one of them only.
LEMMA ZoomSound ==
  ASSUME NEW S, Sound(S), S.gui.running, NEW p \in Exists(S), NEW z
  PROVE  LET T == [S EXCEPT !.pages[p].zoomed = z] IN
         /\ Sound(T) /\ LayoutOf(T) = LayoutOf(S)
         /\ T.daemon = S.daemon /\ T.files = S.files /\ T.past = S.past /\ T.gui = S.gui
         /\ \A q \in Pages : /\ T.pages[q].win = S.pages[q].win
                             /\ T.pages[q].panes = S.pages[q].panes
                             /\ T.pages[q].live = S.pages[q].live
                             /\ T.pages[q].gid = S.pages[q].gid
                             /\ T.pages[q].enrolled = S.pages[q].enrolled
         /\ T.pages[p].zoomed = z
         /\ \A q \in Pages \ {p} : T.pages[q] = S.pages[q]
  <1> DEFINE T == [S EXCEPT !.pages[p].zoomed = z]
  <1>0. Shape(S) /\ TabsOk(S) /\ GuiOk(S) /\ p \in Pages  BY DEF Sound, Basic, Exists
  <1>1. /\ Shape(T) /\ T.daemon = S.daemon /\ T.files = S.files /\ T.past = S.past /\ T.gui = S.gui
        /\ T.pages[p] = [S.pages[p] EXCEPT !.zoomed = z]
        /\ \A q \in Pages \ {p} : T.pages[q] = S.pages[q]
    BY <1>0 DEF Shape, TabFields
  <1>2. DOMAIN S.pages[p] = TabFields  BY <1>0 DEF Shape
  <1> HIDE DEF T
  <1>3. /\ T.pages[p].win = S.pages[p].win /\ T.pages[p].panes = S.pages[p].panes
        /\ T.pages[p].live = S.pages[p].live /\ T.pages[p].gid = S.pages[p].gid
        /\ T.pages[p].enrolled = S.pages[p].enrolled /\ T.pages[p].zoomed = z
    BY ONLY <1>1, <1>2 DEF TabFields
  <1>4. \A q \in Pages : /\ T.pages[q].win = S.pages[q].win
                         /\ T.pages[q].panes = S.pages[q].panes
                         /\ T.pages[q].live = S.pages[q].live
                         /\ T.pages[q].gid = S.pages[q].gid
                         /\ T.pages[q].enrolled = S.pages[q].enrolled
    BY <1>1, <1>3
  <1>5. \A q \in Pages : TabOk(T, q) /\ Shrunk(S.pages[q], T.pages[q])
    <2> SUFFICES ASSUME NEW q \in Pages PROVE TabOk(T, q) /\ Shrunk(S.pages[q], T.pages[q])
      OBVIOUS
    <2>1. TabOk(S, q)  BY <1>0 DEF TabsOk
    <2>2. q = p => S.pages[q].win # NoWindow  BY DEF Exists
    <2>3. Alive(T) = Alive(S)  BY <1>1 DEF Alive
    <2>4. TabOk(T, q)  BY <2>1, <2>2, <2>3, <1>1, <1>4 DEF TabOk
    <2> QED  BY <2>4, <1>4 DEF Shrunk
  <1>6. GuiOk(T)  BY <1>0, <1>1 DEF GuiOk
  <1>7. Current(T) => Current(S)  BY <1>1 DEF Current
  <1>8. Sound(T)  BY <1>1, <1>5, <1>6, <1>7, ShrinkSound
  <1>9. \A w \in Windows : GroupIds(T, w) = GroupIds(S, w)  BY <1>4 DEF GroupIds
  <1>10. LayoutOf(T) = LayoutOf(S)  BY <1>9 DEF LayoutOf
  <1> QED  BY <1>1, <1>3, <1>4, <1>8, <1>10 DEF T

\* Unzoom, on its way to another change.
LEMMA UnzoomSound ==
  ASSUME NEW S, Sound(S), S.gui.running, NEW p \in Exists(S)
  PROVE  LET T == Unzoom(S, p) IN
         /\ Sound(T)
         /\ T.daemon = S.daemon /\ T.files = S.files /\ T.past = S.past
         /\ T.gui.running = S.gui.running /\ T.gui.open = S.gui.open
         /\ T.gui.frozen = S.gui.frozen /\ T.gui.session = S.gui.session
         /\ \A q \in Pages : /\ T.pages[q].win = S.pages[q].win
                             /\ T.pages[q].panes = S.pages[q].panes
                             /\ T.pages[q].live = S.pages[q].live
                             /\ T.pages[q].gid = S.pages[q].gid
                             /\ T.pages[q].enrolled = S.pages[q].enrolled
         /\ \A q \in Pages \ {p} : T.pages[q] = S.pages[q]
  <1> DEFINE T == Unzoom(S, p)
             Z == [S EXCEPT !.pages[p].zoomed = FALSE]
  <1>1. CASE ~S.pages[p].zoomed  BY <1>1 DEF Unzoom
  <1>2. CASE S.pages[p].zoomed
    <2>1. T = ScheduleGroupSave(Z)  BY <1>2 DEF Unzoom
    <2>2. /\ Sound(Z)
          /\ Z.daemon = S.daemon /\ Z.files = S.files /\ Z.past = S.past /\ Z.gui = S.gui
          /\ \A q \in Pages : /\ Z.pages[q].win = S.pages[q].win
                              /\ Z.pages[q].panes = S.pages[q].panes
                              /\ Z.pages[q].live = S.pages[q].live
                              /\ Z.pages[q].gid = S.pages[q].gid
                              /\ Z.pages[q].enrolled = S.pages[q].enrolled
          /\ \A q \in Pages \ {p} : Z.pages[q] = S.pages[q]
      BY ZoomSound
    <2> HIDE DEF Z
    <2>3. Shape(Z)  BY <2>2 DEF Sound, Basic
    <2>4. /\ T.daemon = Z.daemon /\ T.pages = Z.pages /\ T.files = Z.files /\ T.past = Z.past
          /\ T.gui.running = Z.gui.running /\ T.gui.open = Z.gui.open
          /\ T.gui.frozen = Z.gui.frozen /\ T.gui.session = Z.gui.session
      BY <2>1, <2>3 DEF Shape, ScheduleGroupSave
    <2>5. Sound(T)
      <3>1. CASE Z.gui.frozen \/ Z.gui.pending # "none"  BY <2>1, <2>2, <3>1 DEF ScheduleGroupSave
      <3>2. CASE ~(Z.gui.frozen \/ Z.gui.pending # "none")
        BY <2>1, <2>2, <3>2, PendingSound DEF ScheduleGroupSave
      <3> QED  BY <3>1, <3>2
    <2> QED  BY <2>2, <2>4, <2>5
  <1> QED  BY <1>1, <1>2

\* Unzoom, for itself.
LEMMA UnzoomInv ==
  ASSUME NEW S, Inv(S), S.gui.running, NEW p \in Exists(S)
  PROVE  Inv(Unzoom(S, p))
  <1> DEFINE Z == [S EXCEPT !.pages[p].zoomed = FALSE]
  <1>1. CASE ~S.pages[p].zoomed  BY <1>1 DEF Unzoom
  <1>2. CASE S.pages[p].zoomed
    <2>1. Unzoom(S, p) = ScheduleGroupSave(Z)  BY <1>2 DEF Unzoom
    <2>2. Sound(S) /\ Opened(S) /\ ListOk(S)  BY DEF Inv
    <2>3. Sound(Z) /\ LayoutOf(Z) = LayoutOf(S) /\ Z.files = S.files /\ Z.past = S.past /\ Z.gui = S.gui
      BY <2>2, ZoomSound
    <2> HIDE DEF Z
    <2>4. Opened(Z) /\ ListOk(Z)  BY <2>2, <2>3 DEF Opened, ListOk
    <2> QED  BY <2>1, <2>3, <2>4, ScheduleGroupSaveInv
  <1> QED  BY <1>1, <1>2

\* A pane goes and others stay.
LEMMA PaneGoneSound ==
  ASSUME NEW S, Sound(S), NEW p \in Exists(S), NEW s, S.pages[p].panes # {s}
  PROVE  LET T == [S EXCEPT !.pages[p].panes = @ \ {s}, !.pages[p].live = @ \ {s}] IN
         Sound(T) /\ T.gui = S.gui
  <1> DEFINE T == [S EXCEPT !.pages[p].panes = @ \ {s}, !.pages[p].live = @ \ {s}]
  <1>0. Shape(S) /\ TabsOk(S) /\ GuiOk(S) /\ p \in Pages /\ S.pages[p].win # NoWindow
    BY DEF Sound, Basic, Exists
  <1>1. /\ DOMAIN T = DOMAIN S /\ DOMAIN T.pages = Pages
        /\ T.daemon = S.daemon /\ T.files = S.files /\ T.past = S.past /\ T.gui = S.gui
        /\ T.pages[p] = [S.pages[p] EXCEPT !.panes = @ \ {s}, !.live = @ \ {s}]
        /\ \A q \in Pages \ {p} : T.pages[q] = S.pages[q]
    BY <1>0 DEF Shape, TabFields
  <1>2. DOMAIN S.pages[p] = TabFields  BY <1>0 DEF Shape
  <1> HIDE DEF T
  <1>3. /\ T.pages[p].win = S.pages[p].win /\ T.pages[p].panes = S.pages[p].panes \ {s}
        /\ T.pages[p].live = S.pages[p].live \ {s} /\ T.pages[p].gid = S.pages[p].gid
        /\ T.pages[p].enrolled = S.pages[p].enrolled /\ DOMAIN T.pages[p] = TabFields
    BY ONLY <1>1, <1>2 DEF TabFields
  <1>4. Shape(T)  BY <1>0, <1>1, <1>3 DEF Shape
  <1>5. \A q \in Pages : Shrunk(S.pages[q], T.pages[q])  BY <1>1, <1>3 DEF Shrunk
  <1>6. \A q \in Pages : TabOk(T, q)
    <2> SUFFICES ASSUME NEW q \in Pages PROVE TabOk(T, q)
      OBVIOUS
    <2>1. TabOk(S, q) /\ Alive(T) = Alive(S)  BY <1>0, <1>1 DEF TabsOk, Alive
    <2>2. CASE q # p  BY <2>1, <2>2, <1>1 DEF TabOk
    <2>3. CASE q = p  BY <2>1, <2>3, <1>0, <1>1, <1>3 DEF TabOk
    <2> QED  BY <2>2, <2>3
  <1>7. GuiOk(T)  BY <1>0, <1>1 DEF GuiOk
  <1>8. Current(T) => Current(S)  BY <1>1 DEF Current
  <1>9. Sound(T)  BY <1>1, <1>4, <1>5, <1>6, <1>7, <1>8, ShrinkSound
  <1> QED  BY <1>1, <1>9 DEF T

\* Nothing is left of a tab.
Gone(t) == t = NoPageRecord

\* Tabs go; the window may be gone with them, or keep the others.
LEMMA PagesGoneSound ==
  ASSUME NEW S, Sound(S), NEW T, Shape(T), T.daemon = S.daemon, T.files = S.files,
         T.past.era = S.past.era, T.past.shown = S.past.shown,
         Current(T) => /\ Current(S)
                       /\ T.past.foreign = S.past.foreign /\ T.past.saved = S.past.saved,
         GuiOk(T),
         \A q \in Pages : \/ Gone(T.pages[q])
                          \/ /\ T.pages[q] = S.pages[q]
                             /\ S.pages[q].win \in S.gui.open => S.pages[q].win \in T.gui.open
  PROVE  Sound(T)
  <1>0. TabsOk(S)  BY DEF Sound, Basic
  <1>1. ASSUME NEW q \in Pages PROVE TabOk(T, q) /\ Shrunk(S.pages[q], T.pages[q])
    <2>1. TabOk(S, q) /\ Alive(T) = Alive(S)  BY <1>0 DEF TabsOk, Alive
    <2>2. CASE Gone(T.pages[q])
      <3>1. /\ T.pages[q].win = NoWindow /\ T.pages[q].panes = {} /\ T.pages[q].live = {}
            /\ T.pages[q].gid = 0 /\ T.pages[q].enrolled = {} /\ ~T.pages[q].zoomed
        BY <2>2 DEF Gone, NoPageRecord
      <3> QED  BY <3>1 DEF TabOk, Shrunk
    <2>3. CASE /\ T.pages[q] = S.pages[q]
               /\ S.pages[q].win \in S.gui.open => S.pages[q].win \in T.gui.open
      BY <2>1, <2>3 DEF TabOk, Shrunk
    <2> QED  BY <2>2, <2>3
  <1> QED  BY <1>1, ShrinkSound

\* The process goes on with the windows that are left, frozen, or ends.
LEMMA EndProcessInv ==
  ASSUME NEW S, Sound(S), NEW U, Shape(U), U.daemon = S.daemon, U.files = S.files, U.past = S.past,
         U.gui.open \subseteq S.gui.open, U.gui.running = S.gui.running,
         U.gui.pending = S.gui.pending, U.gui.frozen = S.gui.frozen,
         U.gui.session = S.gui.session, U.gui.recorded = S.gui.recorded,
         \A q \in Pages : \/ Gone(U.pages[q])
                          \/ /\ U.pages[q] = S.pages[q]
                             /\ S.pages[q].win \in S.gui.open => S.pages[q].win \in U.gui.open,
         U.gui.frozen \/ U.gui.open = {}
  PROVE  Inv(EndProcess(U))
  <1>0. GuiOk(S) /\ DaemonOk(S)  BY DEF Sound, Basic
  <1>1. CASE U.gui.open # {}
    <2>1. EndProcess(U) = U  BY <1>1 DEF EndProcess
    <2>2. GuiOk(U)  BY <1>0, <1>1 DEF GuiOk
    <2>3. Current(U) => Current(S)  BY DEF Current
    <2>4. Sound(U)  BY <2>2, <2>3, PagesGoneSound
    <2>5. U.gui.frozen  BY <1>1
    <2>6. Opened(U) /\ ListOk(U) /\ SyncOk(U)  BY <1>1, <2>5 DEF Opened, ListOk, SyncOk, Settled
    <2> QED  BY <2>1, <2>4, <2>6 DEF Inv
  <1>2. CASE U.gui.open = {}
    <2> DEFINE T == EndProcess(U)
    <2>1. T = [U EXCEPT !.gui = NoGui, !.past.foreign = FALSE, !.past.missed = FALSE,
                        !.past.saved = FALSE]
      BY <1>2 DEF EndProcess
    <2> HIDE DEF T
    <2>2. /\ Shape(T) /\ T.daemon = U.daemon /\ T.pages = U.pages /\ T.files = U.files
          /\ T.gui = NoGui /\ ~T.past.foreign /\ ~T.past.missed /\ ~T.past.saved
          /\ T.past.era = U.past.era /\ T.past.shown = U.past.shown
      BY <2>1 DEF Shape, NoGui
    <2>3. ~T.gui.running /\ ~T.gui.frozen /\ T.gui.pending = "none" /\ T.gui.open = {}
          /\ T.gui.session = 0 /\ T.gui.recorded = 0
      BY <2>2 DEF NoGui
    <2>4. GuiOk(T)  BY <1>0, <2>2, <2>3 DEF GuiOk, DaemonOk
    <2>5. ~Current(T)  BY <2>3 DEF Current
    <2>6. \A q \in Pages : S.pages[q].win \in S.gui.open => Gone(U.pages[q])  BY <1>2
    <2>7. Sound(T)  BY <1>2, <2>2, <2>3, <2>4, <2>5, <2>6, PagesGoneSound
    <2>8. Opened(T) /\ ListOk(T) /\ SyncOk(T)
      BY <2>3 DEF Opened, ListOk, SyncOk, Orderly
    <2> QED  BY <2>7, <2>8 DEF Inv, T
  <1> QED  BY <1>1, <1>2

\* A window goes with its tabs, once the process has frozen what it saved.
LEMMA DropWindowInv ==
  ASSUME NEW S, Sound(S), S.gui.frozen, NEW w
  PROVE  Inv(DropWindow(S, w))
  <1> DEFINE U == [S EXCEPT
                     !.pages = [p \in Pages |-> IF S.pages[p].win = w THEN NoPageRecord ELSE S.pages[p]],
                     !.gui.open = @ \ {w}]
  <1>0. Shape(S)  BY DEF Sound, Basic
  <1>1. DropWindow(S, w) = EndProcess(U)  BY DEF DropWindow
  <1>2. DOMAIN NoPageRecord = TabFields  BY DEF NoPageRecord, TabFields
  <1>3. /\ DOMAIN U = DOMAIN S /\ U.daemon = S.daemon /\ U.files = S.files /\ U.past = S.past
        /\ U.gui.open = S.gui.open \ {w} /\ U.gui.running = S.gui.running
        /\ U.gui.pending = S.gui.pending /\ U.gui.frozen = S.gui.frozen
        /\ U.gui.session = S.gui.session /\ U.gui.recorded = S.gui.recorded
        /\ DOMAIN U.gui = DOMAIN S.gui
        /\ U.pages = [p \in Pages |-> IF S.pages[p].win = w THEN NoPageRecord ELSE S.pages[p]]
    BY <1>0 DEF Shape
  <1> HIDE DEF U
  <1>4. \A q \in Pages : IF S.pages[q].win = w THEN U.pages[q] = NoPageRecord
                         ELSE U.pages[q] = S.pages[q]
    BY <1>3
  <1>5. Shape(U)  BY <1>0, <1>2, <1>3, <1>4 DEF Shape
  <1>6. \A q \in Pages : \/ Gone(U.pages[q])
                         \/ /\ U.pages[q] = S.pages[q]
                            /\ S.pages[q].win \in S.gui.open => S.pages[q].win \in U.gui.open
    BY <1>3, <1>4 DEF Gone
  <1>7. U.gui.open \subseteq S.gui.open /\ U.gui.frozen  BY <1>3
  <1>8. Inv(EndProcess(U))  BY <1>3, <1>5, <1>6, <1>7, EndProcessInv
  <1> QED  BY <1>1, <1>8

\* The process vanishes.
LEMMA VanishInv ==
  ASSUME NEW S, Sound(S)
  PROVE  Inv(Vanish(S))
  <1> DEFINE U == [S EXCEPT !.pages = [p \in Pages |-> NoPageRecord], !.gui.open = {}]
  <1>0. Shape(S)  BY DEF Sound, Basic
  <1>1. Vanish(S) = EndProcess(U)  BY DEF Vanish
  <1>2. DOMAIN NoPageRecord = TabFields  BY DEF NoPageRecord, TabFields
  <1>3. /\ DOMAIN U = DOMAIN S /\ U.daemon = S.daemon /\ U.files = S.files /\ U.past = S.past
        /\ U.gui.open = {} /\ U.gui.running = S.gui.running
        /\ U.gui.pending = S.gui.pending /\ U.gui.frozen = S.gui.frozen
        /\ U.gui.session = S.gui.session /\ U.gui.recorded = S.gui.recorded
        /\ DOMAIN U.gui = DOMAIN S.gui
        /\ U.pages = [p \in Pages |-> NoPageRecord]
    BY <1>0 DEF Shape
  <1> HIDE DEF U
  <1>4. \A q \in Pages : Gone(U.pages[q])  BY <1>3 DEF Gone
  <1>5. Shape(U)  BY <1>0, <1>2, <1>3 DEF Shape
  <1>6. U.gui.open \subseteq S.gui.open  BY <1>3
  <1>8. Inv(EndProcess(U))  BY <1>3, <1>4, <1>5, <1>6, EndProcessInv
  <1> QED  BY <1>1, <1>8

\* CREATE hands out an id that no pane and no blob knows.
LEMMA CreateSound ==
  ASSUME NEW S, Sound(S), S.daemon.up
  PROVE  Sound(CreateSession(S))
  <1> DEFINE T == CreateSession(S)
             n == S.daemon.nextS
  <1>0. Shape(S) /\ DaemonOk(S) /\ TabsOk(S) /\ GuiOk(S) /\ Arranged(S) /\ Filed(S) /\ EraOk(S)
    BY DEF Sound, Basic
  <1>1. /\ Shape(T)
        /\ T.pages = S.pages /\ T.gui = S.gui /\ T.files = S.files /\ T.past = S.past
        /\ T.daemon.up = S.daemon.up /\ T.daemon.inst = S.daemon.inst
        /\ T.daemon.groups = S.daemon.groups /\ T.daemon.nextG = S.daemon.nextG
        /\ T.daemon.nextS = n + 1
        /\ DOMAIN T.daemon.sess = DOMAIN S.daemon.sess \union {n}
        /\ \A s \in DOMAIN S.daemon.sess : s # n => T.daemon.sess[s] = S.daemon.sess[s]
        /\ T.daemon.sess[n] = [alive |-> TRUE, group |-> 0]
    BY <1>0, CreateEffect
  <1> HIDE DEF T
  <1>2. n \in Nat /\ 0 < n /\ n \notin DOMAIN S.daemon.sess  BY <1>0 DEF DaemonOk
  <1>3. Alive(T) = Alive(S) \union {n}  BY <1>1, <1>2 DEF Alive
  <1>4. DaemonOk(T)
    <2>1. \A s \in DOMAIN T.daemon.sess : /\ s \in Nat /\ 0 < s /\ s < T.daemon.nextS
                                          /\ DOMAIN T.daemon.sess[s] = {"alive", "group"}
      <3> SUFFICES ASSUME NEW s \in DOMAIN T.daemon.sess
                   PROVE  /\ s \in Nat /\ 0 < s /\ s < T.daemon.nextS
                          /\ DOMAIN T.daemon.sess[s] = {"alive", "group"}
        OBVIOUS
      <3>1. CASE s = n  BY <3>1, <1>1, <1>2
      <3>2. CASE s # n  BY <3>2, <1>0, <1>1, <1>2 DEF DaemonOk
      <3> QED  BY <3>1, <3>2
    <2> QED  BY <2>1, <1>0, <1>1, <1>2 DEF DaemonOk
  <1>5. TabsOk(T)  BY <1>0, <1>1, <1>3 DEF TabsOk, TabOk
  <1>6. GuiOk(T)  BY <1>0, <1>1 DEF GuiOk
  <1>7. Current(T) <=> Current(S)  BY <1>1 DEF Current
  <1>8. Arranged(T)
    <2> SUFFICES ASSUME Current(T), ~T.past.foreign
                 PROVE  /\ \A p \in Pages : PageArranged(T, p)
                        /\ \A p, q \in Pages : p # q => Apart(T, p, q)
      BY DEF Arranged
    <2>1. /\ \A p \in Pages : PageArranged(S, p)
          /\ \A p, q \in Pages : p # q => Apart(S, p, q)
      BY <1>0, <1>1, <1>7 DEF Arranged
    <2>2. ASSUME NEW p \in Pages PROVE PageArranged(T, p)
      <3>1. \A s \in S.pages[p].panes : s \in Nat /\ s < n /\ s # n
        BY <2>1, <1>2 DEF PageArranged
      <3> QED  BY <3>1, <2>1, <1>1, <1>2 DEF PageArranged
    <2>3. \A p, q \in Pages : p # q => Apart(T, p, q)  BY <2>1, <1>1 DEF Apart
    <2> QED  BY <2>2, <2>3
  <1>9. Filed(T)  BY <1>0, <1>1, <1>7 DEF Filed, LayoutFits
  <1>10. EraOk(T)
    <2> SUFFICES ASSUME S.past.era # 0, S.past.era = S.daemon.inst, S.daemon.up PROVE Restorable(T)
      BY <1>0, <1>1 DEF EraOk
    <2>1. Restorable(S)  BY <1>0 DEF EraOk
    <2>2. \A w \in Windows : \A t \in S.past.shown[w] :
            /\ \A s \in t : s \in Nat /\ s < n /\ s < n + 1
            /\ n \notin t
      BY <2>1, <1>2 DEF Restorable
    <2>3. \A w \in Windows : \A t \in S.past.shown[w] : t \intersect Alive(T) = t \intersect Alive(S)
      BY <2>2, <1>3
    <2>4. ASSUME NEW w \in Windows, NEW g \in S.files.layout[w] \intersect DOMAIN S.daemon.groups
          PROVE  /\ T.daemon.groups[g] \in T.past.shown[w]
                 /\ \A s \in T.daemon.groups[g] \intersect DOMAIN T.daemon.sess :
                      T.daemon.sess[s].group = g
      <3>1. S.daemon.groups[g] \in S.past.shown[w]  BY <2>1 DEF Restorable
      <3>2. n \notin S.daemon.groups[g]  BY <3>1, <2>2
      <3>3. \A s \in S.daemon.groups[g] \intersect DOMAIN S.daemon.sess : S.daemon.sess[s].group = g
        BY <2>1 DEF Restorable
      <3> QED  BY <3>1, <3>2, <3>3, <1>1
    <2> QED  BY <2>1, <2>2, <2>3, <2>4, <1>1 DEF Restorable
  <1> QED  BY <1>1, <1>4, <1>5, <1>6, <1>8, <1>9, <1>10 DEF Sound, Basic, T

\* A page that is not in use is taken for the next tab.
LEMMA FreshPageUnused ==
  ASSUME NEW S, HasFreshPage(S)
  PROVE  FreshPage(S) \in Pages /\ S.pages[FreshPage(S)].win = NoWindow
  BY DEF HasFreshPage, FreshPage

\* A tab is put into a window, not yet attached.
LEMMA PutPageEffect ==
  ASSUME NEW S, Shape(S), NEW p \in Pages, NEW w, NEW ss, NEW T, T = PutPage(S, p, w, ss)
  PROVE  /\ Shape(T)
         /\ T.daemon = S.daemon /\ T.gui = S.gui /\ T.files = S.files /\ T.past = S.past
         /\ T.pages[p].win = w /\ T.pages[p].panes = ss /\ T.pages[p].live = {}
         /\ T.pages[p].gid = 0 /\ T.pages[p].enrolled = {} /\ ~T.pages[p].zoomed
         /\ \A q \in Pages \ {p} : T.pages[q] = S.pages[q]
  <1> DEFINE r == [NoPageRecord EXCEPT !.win = w, !.panes = ss]
  <1>1. /\ DOMAIN r = TabFields
        /\ r.win = w /\ r.panes = ss /\ r.live = {} /\ r.gid = 0 /\ r.enrolled = {} /\ ~r.zoomed
    BY DEF NoPageRecord, TabFields
  <1>2. T = [S EXCEPT !.pages[p] = r]  BY DEF PutPage
  <1> HIDE DEF r
  <1>3. /\ DOMAIN T = DOMAIN S /\ DOMAIN T.pages = Pages /\ T.pages[p] = r
        /\ T.daemon = S.daemon /\ T.gui = S.gui /\ T.files = S.files /\ T.past = S.past
        /\ \A q \in Pages \ {p} : T.pages[q] = S.pages[q]
    BY <1>2 DEF Shape
  <1>4. Shape(T)  BY <1>1, <1>3 DEF Shape
  <1> QED  BY <1>1, <1>3, <1>4

\* epimone_window_add_tab
LEMMA AddTabSound ==
  ASSUME NEW S, Sound(S), S.gui.running, S.daemon.up, NEW w \in S.gui.open, HasFreshPage(S)
  PROVE  LET T == AddTab(S, w) IN
         /\ Inv(T) /\ T.gui.running /\ T.gui.open = S.gui.open
         /\ \A q \in Pages : T.pages[q].gid = S.pages[q].gid
  <1> DEFINE p == FreshPage(S)
             n == S.daemon.nextS
             C == CreateSession(S)
             P == PutPage(C, p, w, {n})
             A == AttachSessions(P, p, {n})
  <1>1. p \in Pages /\ S.pages[p].win = NoWindow  BY FreshPageUnused
  <1>2. Sound(C)  BY CreateSound
  <1>3. Shape(S) /\ Shape(C) /\ GuiOk(S) /\ TabsOk(S) /\ Arranged(S) /\ DaemonOk(S)
    BY <1>2 DEF Sound, Basic
  <1>4. /\ C.pages = S.pages /\ C.gui = S.gui /\ C.files = S.files /\ C.past = S.past
        /\ C.daemon.up = S.daemon.up /\ C.daemon.inst = S.daemon.inst
        /\ C.daemon.groups = S.daemon.groups /\ C.daemon.nextG = S.daemon.nextG
        /\ C.daemon.nextS = n + 1
        /\ DOMAIN C.daemon.sess = DOMAIN S.daemon.sess \union {n}
        /\ C.daemon.sess[n] = [alive |-> TRUE, group |-> 0]
    BY <1>3, CreateEffect
  <1>5. n \in Alive(C) /\ n \in Nat  BY <1>3, <1>4 DEF Alive, DaemonOk
  <1> HIDE DEF C, p
  <1>6. /\ Shape(P)
        /\ P.daemon = C.daemon /\ P.gui = C.gui /\ P.files = C.files /\ P.past = C.past
        /\ P.pages[p].win = w /\ P.pages[p].panes = {n} /\ P.pages[p].live = {}
        /\ P.pages[p].gid = 0 /\ P.pages[p].enrolled = {} /\ ~P.pages[p].zoomed
        /\ \A q \in Pages \ {p} : P.pages[q] = C.pages[q]
    BY <1>1, <1>3, PutPageEffect
  <1> HIDE DEF P
  <1>7. /\ Shape(A)
        /\ A.daemon = P.daemon /\ A.gui = P.gui /\ A.files = P.files /\ A.past = P.past
        /\ \A q \in Pages : SameTab(P.pages[q], A.pages[q])
        /\ A.pages[p].live = P.pages[p].live \union {n}
        /\ \A q \in Pages \ {p} : A.pages[q].live = P.pages[q].live \ {n}
    BY <1>1, <1>6, AttachEffect
  <1> HIDE DEF A
  <1>8. Current(A) <=> Current(C)  BY <1>6, <1>7 DEF Current
  <1>9. DaemonOk(A) /\ Filed(A) /\ EraOk(A) /\ Alive(A) = Alive(C)
    <2>1. /\ A.daemon = C.daemon /\ A.files = C.files /\ A.past = C.past  BY <1>6, <1>7
    <2> QED  BY <2>1, <1>2, <1>8, Framed
  <1>10. n \notin Alive(S)  BY <1>3 DEF DaemonOk, Alive
  <1>11. \A q \in Pages \ {p} : A.pages[q].live = S.pages[q].live /\ n \notin S.pages[q].live
    <2> SUFFICES ASSUME NEW q \in Pages \ {p}
                 PROVE  A.pages[q].live = S.pages[q].live /\ n \notin S.pages[q].live
      OBVIOUS
    <2>1. S.pages[q].live \subseteq Alive(S)  BY <1>3 DEF TabsOk, TabOk
    <2>2. A.pages[q].live = S.pages[q].live \ {n}  BY <1>4, <1>6, <1>7
    <2> QED  BY <2>1, <2>2, <1>10
  <1>12. TabsOk(A)
    <2>1. \A q \in Pages \ {p} : TabOk(A, q)
      <3> SUFFICES ASSUME NEW q \in Pages \ {p} PROVE TabOk(A, q)
        OBVIOUS
      <3>1. TabOk(C, q)  BY <1>2 DEF Sound, Basic, TabsOk
      <3>2. A.pages[q].live = C.pages[q].live /\ SameTab(C.pages[q], A.pages[q])
        BY <1>4, <1>6, <1>7, <1>11
      <3> QED  BY <3>1, <3>2, <1>6, <1>7, <1>9 DEF TabOk, SameTab
    <2>2. TabOk(A, p)
      <3>1. w # NoWindow  BY <1>3, LayoutConstants DEF GuiOk
      <3>2. A.pages[p].win = w /\ A.pages[p].panes = {n} /\ A.pages[p].live = {n} /\ A.pages[p].gid = 0
        BY <1>1, <1>6, <1>7 DEF SameTab
      <3>3. A.gui.open = S.gui.open  BY <1>4, <1>6, <1>7
      <3> QED  BY <3>1, <3>2, <3>3, <1>5, <1>9 DEF TabOk
    <2>3. \A q, r \in Pages : q # r => A.pages[q].live \intersect A.pages[r].live = {}
      <3>1. A.pages[p].live = {n}  BY <1>6, <1>7
      <3>2. \A q, r \in Pages : q # r => S.pages[q].live \intersect S.pages[r].live = {}
        BY <1>3 DEF TabsOk
      <3> QED  BY <3>1, <3>2, <1>11
    <2> QED  BY <2>1, <2>2, <2>3 DEF TabsOk
  <1>13. GuiOk(A)
    <2>1. A.gui = S.gui /\ A.past = S.past /\ A.daemon.inst = S.daemon.inst  BY <1>4, <1>6, <1>7
    <2> QED  BY <2>1, <1>3 DEF GuiOk
  <1>14. Arranged(A)
    <2> SUFFICES ASSUME Current(A), ~A.past.foreign
                 PROVE  /\ \A r \in Pages : PageArranged(A, r)
                        /\ \A q, r \in Pages : q # r => Apart(A, q, r)
      BY DEF Arranged
    <2>1. Current(C) /\ ~C.past.foreign /\ Current(S) /\ ~S.past.foreign
      BY <1>4, <1>6, <1>7, <1>8 DEF Current
    <2>2. /\ \A r \in Pages : PageArranged(C, r)
          /\ \A r \in Pages : PageArranged(S, r)
          /\ \A q, r \in Pages : q # r => Apart(S, q, r)
      BY <2>1, <1>2, <1>3 DEF Arranged, Sound, Basic
    <2>3. \A r \in Pages \ {p} : SameTab(C.pages[r], A.pages[r]) /\ SameTab(S.pages[r], A.pages[r])
      BY <1>4, <1>6, <1>7 DEF SameTab
    <2>4. \A r \in Pages \ {p} : PageArranged(A, r)
      BY <2>2, <2>3, <1>6, <1>7 DEF PageArranged, SameTab
    <2>5. A.pages[p].panes = {n} /\ A.pages[p].gid = 0 /\ A.pages[p].enrolled = {}
      BY <1>1, <1>6, <1>7 DEF SameTab
    <2>6. PageArranged(A, p)  BY <2>5, <1>3, <1>4, <1>5, <1>6, <1>7 DEF PageArranged, DaemonOk
    <2>7. \A r \in Pages \ {p} : n \notin A.pages[r].panes
      BY <2>2, <2>3, <1>5 DEF PageArranged, SameTab
    <2>8. ASSUME NEW q \in Pages, NEW r \in Pages, q # r PROVE Apart(A, q, r)
      <3>1. CASE q = p  BY <3>1, <2>5, <2>7, <2>8 DEF Apart
      <3>2. CASE r = p  BY <3>2, <2>5, <2>7, <2>8 DEF Apart
      <3>3. CASE q # p /\ r # p  BY <3>3, <2>2, <2>3, <2>8 DEF Apart, SameTab
      <3> QED  BY <3>1, <3>2, <3>3
    <2> QED  BY <2>4, <2>6, <2>8
  <1>15. Sound(A)  BY <1>7, <1>9, <1>12, <1>13, <1>14 DEF Sound, Basic
  <1>16. A.gui = S.gui  BY <1>4, <1>6, <1>7
  <1>17. AddTab(S, w) = ScheduleSave(A)  BY DEF AddTab, A, P, C, p
  <1>18. Inv(ScheduleSave(A))  BY <1>15, <1>16, ScheduleSaveInv
  <1>19. LET T == ScheduleSave(A) IN
         T.gui.running = A.gui.running /\ T.gui.open = A.gui.open /\ T.pages = A.pages
    BY <1>7 DEF ScheduleSave, Shape
  <1>20. S.pages[p].gid = 0  BY <1>1, <1>3 DEF TabsOk, TabOk
  <1>21. \A q \in Pages : A.pages[q].gid = S.pages[q].gid
    BY <1>1, <1>4, <1>6, <1>7, <1>20 DEF SameTab
  <1> QED  BY <1>16, <1>17, <1>18, <1>19, <1>21

WithGroup(A, p, g, ss, f) ==
  [A EXCEPT !.pages[p].gid = g, !.pages[p].enrolled = ss, !.past.foreign = f]

\* The group a tab is rebuilt from becomes its group.
LEMMA GiveGroup ==
  ASSUME NEW A, Shape(A), NEW p \in Pages, NEW g, NEW ss, NEW f,
         NEW T, T = WithGroup(A, p, g, ss, f)
  PROVE  /\ Shape(T)
         /\ T.daemon = A.daemon /\ T.gui = A.gui /\ T.files = A.files
         /\ T.past.era = A.past.era /\ T.past.shown = A.past.shown
         /\ T.past.missed = A.past.missed /\ T.past.saved = A.past.saved
         /\ T.past.foreign = f
         /\ T.pages[p].win = A.pages[p].win /\ T.pages[p].panes = A.pages[p].panes
         /\ T.pages[p].live = A.pages[p].live /\ T.pages[p].zoomed = A.pages[p].zoomed
         /\ T.pages[p].gid = g /\ T.pages[p].enrolled = ss
         /\ \A q \in Pages \ {p} : T.pages[q] = A.pages[q]
  <1>1. /\ DOMAIN T = DOMAIN A /\ DOMAIN T.pages = Pages /\ DOMAIN T.past = DOMAIN A.past
        /\ T.daemon = A.daemon /\ T.gui = A.gui /\ T.files = A.files
        /\ T.pages[p] = [A.pages[p] EXCEPT !.gid = g, !.enrolled = ss]
        /\ \A q \in Pages \ {p} : T.pages[q] = A.pages[q]
    BY DEF Shape, TabFields, WithGroup
  <1>2. /\ T.past.era = A.past.era /\ T.past.shown = A.past.shown
        /\ T.past.missed = A.past.missed /\ T.past.saved = A.past.saved
        /\ T.past.foreign = f
    BY DEF Shape, WithGroup
  <1>3. DOMAIN A.pages[p] = TabFields  BY DEF Shape
  <1>4. /\ T.pages[p].win = A.pages[p].win /\ T.pages[p].panes = A.pages[p].panes
        /\ T.pages[p].live = A.pages[p].live /\ T.pages[p].zoomed = A.pages[p].zoomed
        /\ T.pages[p].gid = g /\ T.pages[p].enrolled = ss /\ DOMAIN T.pages[p] = TabFields
    BY ONLY <1>1, <1>3 DEF TabFields
  <1>5. Shape(T)  BY <1>1, <1>4 DEF Shape
  <1> QED  BY <1>1, <1>2, <1>4, <1>5

\* The history of a rebuilt group that does not belong together any more.
IsForeign(S, g, ss) ==
  \/ S.past.foreign \/ ~(ss \subseteq MembersOf(S, g))
  \/ \E q \in Pages : S.pages[q].gid = g

\* A tab is put into a window, attached and given its group.
LEMMA BuildEffect ==
  ASSUME NEW S, Shape(S), HasFreshPage(S), NEW w, NEW g, NEW T, T = BuildGroup(S, w, g),
         NEW p, p = FreshPage(S), NEW ss, ss = Rebuilt(S, g)
  PROVE  /\ Shape(T)
         /\ T.daemon = S.daemon /\ T.gui = S.gui /\ T.files = S.files
         /\ T.past.era = S.past.era /\ T.past.shown = S.past.shown
         /\ T.past.missed = S.past.missed /\ T.past.saved = S.past.saved
         /\ T.past.foreign <=> IsForeign(S, g, ss)
         /\ T.pages[p].win = w /\ T.pages[p].panes = ss
         /\ T.pages[p].gid = g /\ T.pages[p].enrolled = ss /\ ~T.pages[p].zoomed
         /\ T.pages[p].live = ss
         /\ \A q \in Pages \ {p} : SameTab(S.pages[q], T.pages[q])
         /\ \A q \in Pages \ {p} : T.pages[q].live = S.pages[q].live \ ss
  <1>1. p \in Pages /\ S.pages[p].win = NoWindow  BY FreshPageUnused
  <1>2. PICK P : P = PutPage(S, p, w, ss)  OBVIOUS
  <1>3. /\ Shape(P)
        /\ P.daemon = S.daemon /\ P.gui = S.gui /\ P.files = S.files /\ P.past = S.past
        /\ P.pages[p].win = w /\ P.pages[p].panes = ss /\ P.pages[p].live = {}
        /\ P.pages[p].gid = 0 /\ P.pages[p].enrolled = {} /\ ~P.pages[p].zoomed
        /\ \A q \in Pages \ {p} : P.pages[q] = S.pages[q]
    BY <1>1, <1>2, PutPageEffect
  <1> DEFINE A == AttachSessions(P, p, ss)
  <1>5. /\ Shape(A)
        /\ A.daemon = P.daemon /\ A.gui = P.gui /\ A.files = P.files /\ A.past = P.past
        /\ \A q \in Pages : SameTab(P.pages[q], A.pages[q])
        /\ A.pages[p].live = P.pages[p].live \union ss
        /\ \A q \in Pages \ {p} : A.pages[q].live = P.pages[q].live \ ss
    <2>1. Shape(P)  BY <1>3
    <2>2. p \in Pages  BY <1>1
    <2> QED  BY ONLY <2>1, <2>2, AttachEffect
  <1> HIDE DEF A
  <1>6. PICK f : f = (\/ A.past.foreign \/ ~(ss \subseteq MembersOf(S, g))
                      \/ \E q \in Pages : S.pages[q].gid = g)
    OBVIOUS
  <1>7. T = WithGroup(A, p, g, ss, f)  BY <1>2, <1>6 DEF BuildGroup, WithGroup, A
  <1>8. /\ Shape(T)
        /\ T.daemon = A.daemon /\ T.gui = A.gui /\ T.files = A.files
        /\ T.past.era = A.past.era /\ T.past.shown = A.past.shown
        /\ T.past.missed = A.past.missed /\ T.past.saved = A.past.saved
        /\ T.past.foreign = f
        /\ T.pages[p].win = A.pages[p].win /\ T.pages[p].panes = A.pages[p].panes
        /\ T.pages[p].live = A.pages[p].live /\ T.pages[p].zoomed = A.pages[p].zoomed
        /\ T.pages[p].gid = g /\ T.pages[p].enrolled = ss
        /\ \A q \in Pages \ {p} : T.pages[q] = A.pages[q]
    BY ONLY <1>1, <1>5, <1>7, GiveGroup
  <1>9. T.past.foreign <=> IsForeign(S, g, ss)
    <2>1. f <=> (\/ A.past.foreign \/ ~(ss \subseteq MembersOf(S, g))
                 \/ \E q \in Pages : S.pages[q].gid = g)
      BY <1>6
    <2>2. A.past = S.past  BY <1>3, <1>5
    <2> QED  BY <2>1, <2>2, <1>8 DEF IsForeign
  <1>10. /\ T.pages[p].win = w /\ T.pages[p].panes = ss /\ T.pages[p].live = ss
         /\ ~T.pages[p].zoomed
    BY <1>1, <1>3, <1>5, <1>8 DEF SameTab
  <1>11. \A q \in Pages \ {p} : SameTab(S.pages[q], T.pages[q]) /\ T.pages[q].live = S.pages[q].live \ ss
    BY <1>3, <1>5, <1>8 DEF SameTab
  <1>12. /\ T.daemon = S.daemon /\ T.gui = S.gui /\ T.files = S.files
         /\ T.past.era = S.past.era /\ T.past.shown = S.past.shown
         /\ T.past.missed = S.past.missed /\ T.past.saved = S.past.saved
    BY <1>3, <1>5, <1>8
  <1> QED  BY <1>8, <1>9, <1>10, <1>11, <1>12

\* A group is rebuilt: what it shows was on no screen, or the restore counts
\* as foreign.
LEMMA BuildSound ==
  ASSUME NEW S, Sound(S), S.gui.running, NEW w \in S.gui.open, HasFreshPage(S), NEW g, CanBuild(S, g)
  PROVE  Sound(BuildGroup(S, w, g))
  <1> DEFINE p == FreshPage(S)
             ss == Rebuilt(S, g)
             T == BuildGroup(S, w, g)
  <1>1. Shape(S) /\ DaemonOk(S) /\ TabsOk(S) /\ GuiOk(S) /\ Arranged(S)  BY DEF Sound, Basic
  <1>2. p \in Pages /\ S.pages[p].win = NoWindow  BY FreshPageUnused
  <1>3. /\ Shape(T)
        /\ T.daemon = S.daemon /\ T.gui = S.gui /\ T.files = S.files
        /\ T.past.era = S.past.era /\ T.past.shown = S.past.shown
        /\ T.past.missed = S.past.missed /\ T.past.saved = S.past.saved
        /\ T.past.foreign <=> IsForeign(S, g, ss)
        /\ T.pages[p].win = w /\ T.pages[p].panes = ss
        /\ T.pages[p].gid = g /\ T.pages[p].enrolled = ss /\ ~T.pages[p].zoomed
        /\ T.pages[p].live = ss
        /\ \A q \in Pages \ {p} : SameTab(S.pages[q], T.pages[q])
        /\ \A q \in Pages \ {p} : T.pages[q].live = S.pages[q].live \ ss
    BY <1>1, BuildEffect
  <1>4. /\ g \in DOMAIN S.daemon.groups /\ ~OnScreen(S, MembersOf(S, g))
        /\ ss # {} /\ ss \subseteq Alive(S)
    BY DEF CanBuild, Rebuilt
  <1> HIDE DEF T, p, ss
  <1>5. Current(T) <=> Current(S)  BY <1>3 DEF Current
  <1>6. DaemonOk(T) /\ Filed(T) /\ EraOk(T) /\ Alive(T) = Alive(S)  BY <1>3, <1>5, Framed
  <1>7. g \in Nat /\ g # 0 /\ g < S.daemon.nextG  BY <1>1, <1>4 DEF DaemonOk
  <1>8. TabsOk(T)
    <2>1. \A q \in Pages \ {p} : TabOk(T, q)
      BY <1>1, <1>3, <1>6 DEF TabsOk, TabOk, SameTab
    <2>2. TabOk(T, p)
      <3>1. w # NoWindow  BY <1>1, LayoutConstants DEF GuiOk
      <3> QED  BY <3>1, <1>3, <1>4, <1>6, <1>7 DEF TabOk
    <2>3. \A q, r \in Pages : q # r => T.pages[q].live \intersect T.pages[r].live = {}
      <3>1. \A q, r \in Pages : q # r => S.pages[q].live \intersect S.pages[r].live = {}
        BY <1>1 DEF TabsOk
      <3> QED  BY <3>1, <1>3
    <2> QED  BY <2>1, <2>2, <2>3 DEF TabsOk
  <1>9. GuiOk(T)  BY <1>1, <1>3 DEF GuiOk
  <1>10. Arranged(T)
    <2> SUFFICES ASSUME Current(T), ~T.past.foreign
                 PROVE  /\ \A r \in Pages : PageArranged(T, r)
                        /\ \A q, r \in Pages : q # r => Apart(T, q, r)
      BY DEF Arranged
    <2>1. /\ Current(S) /\ ~S.past.foreign /\ ss \subseteq MembersOf(S, g)
          /\ \A q \in Pages : S.pages[q].gid # g
      BY <1>3, <1>5 DEF IsForeign
    <2>2. /\ \A r \in Pages : PageArranged(S, r)
          /\ \A q, r \in Pages : q # r => Apart(S, q, r)
      BY <2>1, <1>1 DEF Arranged
    <2>3. \A r \in Pages \ {p} : PageArranged(T, r)  BY <2>2, <1>3 DEF PageArranged, SameTab
    <2>4. PageArranged(T, p)
      <3>1. \A s \in ss : s \in Nat /\ s < S.daemon.nextS  BY <1>1, <1>4 DEF Alive, DaemonOk
      <3>2. \A s \in ss : S.daemon.sess[s].group = g  BY <2>1 DEF MembersOf
      <3> QED  BY <3>1, <3>2, <1>3, <1>7 DEF PageArranged
    <2>5. \A r \in Pages \ {p} : /\ T.pages[r].panes \intersect ss = {}
                                 /\ T.pages[r].gid # g
      BY <2>1, <1>3, <1>4 DEF OnScreen, SameTab
    <2>6. ASSUME NEW q \in Pages, NEW r \in Pages, q # r PROVE Apart(T, q, r)
      <3>1. CASE q = p  BY <3>1, <2>5, <2>6, <1>3 DEF Apart
      <3>2. CASE r = p  BY <3>2, <2>5, <2>6, <1>3 DEF Apart
      <3>3. CASE q # p /\ r # p  BY <3>3, <2>2, <2>6, <1>3 DEF Apart, SameTab
      <3> QED  BY <3>1, <3>2, <3>3
    <2> QED  BY <2>3, <2>4, <2>6
  <1> QED  BY <1>3, <1>6, <1>8, <1>9, <1>10 DEF Sound, Basic, T

WithPane(U, p, n) == [U EXCEPT !.pages[p].panes = @ \union {n}]

\* A tab shows a session that was on no screen.
LEMMA NewPaneSound ==
  ASSUME NEW U, Sound(U), NEW p \in Exists(U), NEW n \in Alive(U),
         \A q \in Pages : n \notin U.pages[q].live,
         Current(U) /\ ~U.past.foreign =>
           \A q \in Pages : n \notin U.pages[q].panes /\ n \notin U.pages[q].enrolled
  PROVE  LET T == AttachSessions(WithPane(U, p, n), p, {n}) IN Sound(T) /\ T.gui = U.gui
  <1> DEFINE P == WithPane(U, p, n)
             T == AttachSessions(P, p, {n})
  <1>0. Shape(U) /\ DaemonOk(U) /\ TabsOk(U) /\ GuiOk(U) /\ Arranged(U)
        /\ p \in Pages /\ U.pages[p].win # NoWindow
    BY DEF Sound, Basic, Exists
  <1>1. /\ DOMAIN P = DOMAIN U /\ DOMAIN P.pages = Pages
        /\ P.daemon = U.daemon /\ P.files = U.files /\ P.past = U.past /\ P.gui = U.gui
        /\ P.pages[p] = [U.pages[p] EXCEPT !.panes = @ \union {n}]
        /\ \A q \in Pages \ {p} : P.pages[q] = U.pages[q]
    BY <1>0 DEF Shape, TabFields, WithPane
  <1>2. DOMAIN U.pages[p] = TabFields  BY <1>0 DEF Shape
  <1> HIDE DEF P
  <1>3. /\ P.pages[p].win = U.pages[p].win /\ P.pages[p].panes = U.pages[p].panes \union {n}
        /\ P.pages[p].live = U.pages[p].live /\ P.pages[p].gid = U.pages[p].gid
        /\ P.pages[p].enrolled = U.pages[p].enrolled /\ P.pages[p].zoomed = U.pages[p].zoomed
        /\ DOMAIN P.pages[p] = TabFields
    BY ONLY <1>1, <1>2 DEF TabFields
  <1>4. Shape(P)  BY <1>0, <1>1, <1>3 DEF Shape
  <1>5. /\ Shape(T)
        /\ T.daemon = P.daemon /\ T.gui = P.gui /\ T.files = P.files /\ T.past = P.past
        /\ \A q \in Pages : SameTab(P.pages[q], T.pages[q])
        /\ T.pages[p].live = P.pages[p].live \union {n}
        /\ \A q \in Pages \ {p} : T.pages[q].live = P.pages[q].live \ {n}
    <2>1. p \in Pages  BY <1>0
    <2> QED  BY ONLY <2>1, <1>4, AttachEffect
  <1> HIDE DEF T
  <1>6. ASSUME NEW q \in Pages \ {p}
        PROVE  SameTab(U.pages[q], T.pages[q]) /\ T.pages[q].live = U.pages[q].live
    <2>1. P.pages[q] = U.pages[q] /\ SameTab(P.pages[q], T.pages[q])  BY <1>1, <1>5
    <2>2. T.pages[q].live = U.pages[q].live \ {n}  BY <2>1, <1>5
    <2>3. n \notin U.pages[q].live  OBVIOUS
    <2> QED  BY ONLY <2>1, <2>2, <2>3
  <1>7. /\ T.pages[p].win = U.pages[p].win /\ T.pages[p].panes = U.pages[p].panes \union {n}
        /\ T.pages[p].live = U.pages[p].live \union {n} /\ T.pages[p].gid = U.pages[p].gid
        /\ T.pages[p].enrolled = U.pages[p].enrolled
    BY <1>0, <1>3, <1>5 DEF SameTab
  <1>8. T.daemon = U.daemon /\ T.gui = U.gui /\ T.files = U.files /\ T.past = U.past
    BY <1>1, <1>5
  <1>9. Current(T) <=> Current(U)  BY <1>8 DEF Current
  <1>10. DaemonOk(T) /\ Filed(T) /\ EraOk(T) /\ Alive(T) = Alive(U)  BY <1>8, <1>9, Framed
  <1>11. TabsOk(T)
    <2>1. \A q \in Pages \ {p} : TabOk(T, q)
      <3> SUFFICES ASSUME NEW q \in Pages \ {p} PROVE TabOk(T, q)
        OBVIOUS
      <3>1. TabOk(U, q)  BY <1>0 DEF TabsOk
      <3> QED  BY <3>1, <1>6, <1>8, <1>10 DEF TabOk, SameTab
    <2>2. TabOk(T, p)
      <3>1. TabOk(U, p)  BY <1>0 DEF TabsOk
      <3> QED  BY <3>1, <1>0, <1>7, <1>8, <1>10 DEF TabOk
    <2>3. \A q, r \in Pages : q # r => T.pages[q].live \intersect T.pages[r].live = {}
      <3>1. \A q, r \in Pages : q # r => U.pages[q].live \intersect U.pages[r].live = {}
        BY <1>0 DEF TabsOk
      <3> QED  BY <3>1, <1>6, <1>7
    <2> QED  BY <2>1, <2>2, <2>3 DEF TabsOk
  <1>12. GuiOk(T)  BY <1>0, <1>8 DEF GuiOk
  <1>13. Arranged(T)
    <2> SUFFICES ASSUME Current(T), ~T.past.foreign
                 PROVE  /\ \A r \in Pages : PageArranged(T, r)
                        /\ \A q, r \in Pages : q # r => Apart(T, q, r)
      BY DEF Arranged
    <2>1. /\ \A r \in Pages : PageArranged(U, r)
          /\ \A q, r \in Pages : q # r => Apart(U, q, r)
          /\ \A r \in Pages : n \notin U.pages[r].panes /\ n \notin U.pages[r].enrolled
      BY <1>0, <1>8, <1>9 DEF Arranged
    <2>2. \A r \in Pages \ {p} : PageArranged(T, r)
      BY <2>1, <1>6, <1>8 DEF PageArranged, SameTab
    <2>3. PageArranged(T, p)
      <3>1. n \in Nat /\ n < U.daemon.nextS  BY <1>0 DEF Alive, DaemonOk
      <3>2. PageArranged(U, p) /\ n \notin U.pages[p].enrolled  BY <2>1, <1>0
      <3>3. T.pages[p].panes \intersect T.pages[p].enrolled = U.pages[p].panes \intersect U.pages[p].enrolled
        BY <3>2, <1>7
      <3> QED  BY <3>1, <3>2, <3>3, <1>7, <1>8 DEF PageArranged
    <2>4. ASSUME NEW q \in Pages, NEW r \in Pages, q # r PROVE Apart(T, q, r)
      <3>1. Apart(U, q, r) /\ n \notin U.pages[q].panes /\ n \notin U.pages[r].panes  BY <2>1, <2>4
      <3>2. T.pages[q].gid = U.pages[q].gid /\ T.pages[r].gid = U.pages[r].gid
        BY <1>6, <1>7 DEF SameTab
      <3>3. T.pages[q].panes \intersect T.pages[r].panes = {}
        <4>1. CASE q = p  BY <4>1, <3>1, <2>4, <1>6, <1>7 DEF Apart, SameTab
        <4>2. CASE r = p  BY <4>2, <3>1, <2>4, <1>6, <1>7 DEF Apart, SameTab
        <4>3. CASE q # p /\ r # p  BY <4>3, <3>1, <1>6 DEF Apart, SameTab
        <4> QED  BY <4>1, <4>2, <4>3
      <3> QED  BY <3>1, <3>2, <3>3 DEF Apart
    <2> QED  BY <2>2, <2>3, <2>4
  <1> QED  BY <1>5, <1>8, <1>10, <1>11, <1>12, <1>13 DEF Sound, Basic, T, P

\* Whatever has changed waits for the save.
LEMMA WaitingInv ==
  ASSUME NEW S, Sound(S), S.gui.open # {}, S.gui.frozen \/ S.gui.pending = "layout"
  PROVE  Inv(S)
  <1>1. Opened(S)  BY DEF Opened
  <1>2. ListOk(S)  BY DEF ListOk
  <1>3. SyncOk(S)  BY DEF SyncOk, Settled
  <1> QED  BY <1>1, <1>2, <1>3 DEF Inv

MovedPane(P, p, q, s, lives) ==
  [P EXCEPT !.pages[q].live = lives, !.pages[p].panes = @ \ {s}, !.pages[p].live = @ \ {s}]

\* A pane moves to a tab of its own.
LEMMA MovedPaneSound ==
  ASSUME NEW S, Sound(S), NEW p \in Exists(S), NEW s \in S.pages[p].panes,
         S.pages[p].panes # {s}, NEW q \in Pages, S.pages[q].win = NoWindow
  PROVE  LET T == MovedPane(PutPage(S, q, S.pages[p].win, {s}), p, q, s, S.pages[p].live \intersect {s})
         IN Sound(T) /\ T.gui = S.gui
  <1> DEFINE P == PutPage(S, q, S.pages[p].win, {s})
             lives == S.pages[p].live \intersect {s}
             T == MovedPane(P, p, q, s, lives)
  <1>0. Shape(S) /\ DaemonOk(S) /\ TabsOk(S) /\ GuiOk(S) /\ Arranged(S)
        /\ p \in Pages /\ S.pages[p].win # NoWindow /\ q # p
    BY DEF Sound, Basic, Exists
  <1>1. /\ Shape(P)
        /\ P.daemon = S.daemon /\ P.gui = S.gui /\ P.files = S.files /\ P.past = S.past
        /\ P.pages[q].win = S.pages[p].win /\ P.pages[q].panes = {s} /\ P.pages[q].live = {}
        /\ P.pages[q].gid = 0 /\ P.pages[q].enrolled = {} /\ ~P.pages[q].zoomed
        /\ \A r \in Pages \ {q} : P.pages[r] = S.pages[r]
    BY <1>0, PutPageEffect
  <1> HIDE DEF P, lives
  <1>2. /\ DOMAIN T = DOMAIN P /\ DOMAIN T.pages = Pages
        /\ T.daemon = P.daemon /\ T.files = P.files /\ T.past = P.past /\ T.gui = P.gui
        /\ T.pages[q] = [P.pages[q] EXCEPT !.live = lives]
        /\ T.pages[p] = [P.pages[p] EXCEPT !.panes = @ \ {s}, !.live = @ \ {s}]
        /\ \A r \in Pages \ {p, q} : T.pages[r] = P.pages[r]
    BY <1>0, <1>1 DEF Shape, TabFields, MovedPane
  <1>3. DOMAIN P.pages[p] = TabFields /\ DOMAIN P.pages[q] = TabFields  BY <1>0, <1>1 DEF Shape
  <1> HIDE DEF T
  <1>4. /\ T.pages[p].win = P.pages[p].win /\ T.pages[p].panes = P.pages[p].panes \ {s}
        /\ T.pages[p].live = P.pages[p].live \ {s} /\ T.pages[p].gid = P.pages[p].gid
        /\ T.pages[p].enrolled = P.pages[p].enrolled
        /\ DOMAIN T.pages[p] = TabFields
    BY ONLY <1>2, <1>3 DEF TabFields
  <1>5. /\ T.pages[q].win = P.pages[q].win /\ T.pages[q].panes = P.pages[q].panes
        /\ T.pages[q].live = lives /\ T.pages[q].gid = P.pages[q].gid
        /\ T.pages[q].enrolled = P.pages[q].enrolled
        /\ DOMAIN T.pages[q] = TabFields
    BY ONLY <1>2, <1>3 DEF TabFields
  <1>6. Shape(T)
    <2>1. ASSUME NEW r \in Pages PROVE DOMAIN T.pages[r] = TabFields
      <3>1. CASE r = p  BY <3>1, <1>4
      <3>2. CASE r = q  BY <3>2, <1>5
      <3>3. CASE r \notin {p, q}
        <4>1. DOMAIN P.pages[r] = TabFields  BY <1>1 DEF Shape
        <4>2. T.pages[r] = P.pages[r]  BY <3>3, <1>2
        <4> QED  BY <4>1, <4>2
      <3> QED  BY <3>1, <3>2, <3>3
    <2> QED  BY <2>1, <1>1, <1>2 DEF Shape
  <1>7. P.pages[p] = S.pages[p]  BY <1>0, <1>1
  <1>8. T.daemon = S.daemon /\ T.gui = S.gui /\ T.files = S.files /\ T.past = S.past
    BY <1>1, <1>2
  <1>9. Current(T) <=> Current(S)  BY <1>8 DEF Current
  <1>10. DaemonOk(T) /\ Filed(T) /\ EraOk(T) /\ Alive(T) = Alive(S)  BY <1>8, <1>9, Framed
  <1>11. \A r \in Pages \ {p, q} : T.pages[r] = S.pages[r]  BY <1>1, <1>2
  <1>12. TabsOk(T)
    <2>0. \A r \in Pages : TabOk(S, r)  BY <1>0 DEF TabsOk
    <2>1. \A r \in Pages \ {p, q} : TabOk(T, r)  BY <2>0, <1>8, <1>10, <1>11 DEF TabOk
    <2>2. TabOk(T, p)  BY <2>0, <1>0, <1>4, <1>7, <1>8, <1>10 DEF TabOk
    <2>3. TabOk(T, q)  BY <2>0, <1>0, <1>1, <1>5, <1>8, <1>10 DEF TabOk, lives
    <2>4. \A r, u \in Pages : r # u => T.pages[r].live \intersect T.pages[u].live = {}
      <3>1. \A r, u \in Pages : r # u => S.pages[r].live \intersect S.pages[u].live = {}
        BY <1>0 DEF TabsOk
      <3>2. T.pages[p].live = S.pages[p].live \ {s} /\ T.pages[q].live = S.pages[p].live \intersect {s}
        BY <1>4, <1>5, <1>7 DEF lives
      <3>3. TAKE r, u \in Pages
      <3>4. CASE r \notin {p, q} /\ u \notin {p, q}  BY <3>1, <3>4, <1>11
      <3>5. CASE r \in {p, q} /\ u \notin {p, q}  BY <3>1, <3>2, <3>5, <1>0, <1>11
      <3>6. CASE r \notin {p, q} /\ u \in {p, q}  BY <3>1, <3>2, <3>6, <1>0, <1>11
      <3>7. CASE r \in {p, q} /\ u \in {p, q}  BY <3>2, <3>7
      <3> QED  BY <3>4, <3>5, <3>6, <3>7
    <2> QED  BY <2>1, <2>2, <2>3, <2>4 DEF TabsOk
  <1>13. GuiOk(T)  BY <1>0, <1>8 DEF GuiOk
  <1>14. Arranged(T)
    <2> SUFFICES ASSUME Current(T), ~T.past.foreign
                 PROVE  /\ \A r \in Pages : PageArranged(T, r)
                        /\ \A u, r \in Pages : u # r => Apart(T, u, r)
      BY DEF Arranged
    <2>1. /\ \A r \in Pages : PageArranged(S, r)
          /\ \A u, r \in Pages : u # r => Apart(S, u, r)
      BY <1>0, <1>8, <1>9 DEF Arranged
    <2>2. \A r \in Pages \ {p, q} : PageArranged(T, r)  BY <2>1, <1>8, <1>11 DEF PageArranged
    <2>3. PageArranged(T, p)  BY <2>1, <1>0, <1>4, <1>7, <1>8 DEF PageArranged
    <2>4. PageArranged(T, q)
      <3>1. s \in Nat /\ s < S.daemon.nextS  BY <2>1, <1>0 DEF PageArranged
      <3>2. 0 < S.daemon.nextG  BY <1>0 DEF DaemonOk
      <3> QED  BY <3>1, <3>2, <1>1, <1>5, <1>8 DEF PageArranged
    <2>5. /\ T.pages[p].panes = S.pages[p].panes \ {s} /\ T.pages[p].gid = S.pages[p].gid
          /\ T.pages[q].panes = {s} /\ T.pages[q].gid = 0
      BY <1>1, <1>4, <1>5, <1>7
    <2>6. ASSUME NEW u \in Pages, NEW r \in Pages, u # r PROVE Apart(T, u, r)
      <3>1. Apart(S, u, r) /\ (r # p => Apart(S, p, r)) /\ (u # p => Apart(S, p, u))
        BY <2>1, <2>6, <1>0
      <3>2. CASE u \notin {p, q} /\ r \notin {p, q}  BY <3>1, <3>2, <1>11 DEF Apart
      <3>3. CASE u \in {p, q} /\ r \notin {p, q}  BY <3>1, <3>3, <2>5, <1>11 DEF Apart
      <3>4. CASE u \notin {p, q} /\ r \in {p, q}  BY <3>1, <3>4, <2>5, <1>11 DEF Apart
      <3>5. CASE u \in {p, q} /\ r \in {p, q}  BY <3>5, <2>5, <2>6 DEF Apart
      <3> QED  BY <3>2, <3>3, <3>4, <3>5
    <2> QED  BY <2>2, <2>3, <2>4, <2>6
  <1>15. Sound(T)  BY <1>6, <1>10, <1>12, <1>13, <1>14 DEF Sound, Basic
  <1> QED  BY <1>8, <1>15 DEF T, P, lives

-----------------------------------------------------------------------------
(* A sync, request by request *)

\* What a sync leaves alone: the screen, the files and the sessions.
SameScreen(S, T) ==
  /\ T.gui = S.gui /\ T.files = S.files /\ T.past = S.past
  /\ T.daemon.up = S.daemon.up /\ T.daemon.inst = S.daemon.inst
  /\ T.daemon.nextS = S.daemon.nextS
  /\ DOMAIN T.daemon.sess = DOMAIN S.daemon.sess
  /\ \A s \in DOMAIN S.daemon.sess : T.daemon.sess[s].alive = S.daemon.sess[s].alive
  /\ \A q \in Pages : /\ T.pages[q].win = S.pages[q].win
                      /\ T.pages[q].panes = S.pages[q].panes
                      /\ T.pages[q].live = S.pages[q].live
                      /\ T.pages[q].zoomed = S.pages[q].zoomed

\* What a sync leaves alone decides the same questions.
LEMMA SameScreenFacts ==
  ASSUME NEW S, NEW T, SameScreen(S, T)
  PROVE  /\ Alive(T) = Alive(S) /\ Exists(T) = Exists(S)
         /\ Current(T) <=> Current(S)
         /\ Orderly(T) <=> Orderly(S)
  <1>1. Alive(T) = Alive(S)  BY DEF SameScreen, Alive
  <1>2. Exists(T) = Exists(S)  BY DEF SameScreen, Exists
  <1>3. Current(T) <=> Current(S)  BY DEF SameScreen, Current
  <1>4. Orderly(T) <=> Orderly(S)  BY DEF SameScreen, Orderly
  <1> QED  BY <1>1, <1>2, <1>3, <1>4

\* What a request of a sync may change of the daemon and of the tabs.
LEMMA SameScreenBasic ==
  ASSUME NEW S, Basic(S), NEW T, SameScreen(S, T), Shape(T), Arranged(T),
         T.daemon.nextG \in Nat \ {0},
         \A s \in DOMAIN S.daemon.sess : DOMAIN T.daemon.sess[s] = {"alive", "group"},
         \A g \in DOMAIN T.daemon.groups : g \in Nat /\ 0 < g /\ g < T.daemon.nextG,
         \A q \in Pages : /\ T.pages[q].gid \in Nat
                          /\ S.pages[q].win = NoWindow => T.pages[q] = S.pages[q]
  PROVE  Basic(T)
  <1>0. DaemonOk(S) /\ TabsOk(S) /\ GuiOk(S)  BY DEF Basic
  <1>1. Alive(T) = Alive(S)  BY SameScreenFacts
  <1>2. DaemonOk(T)  BY <1>0 DEF DaemonOk, SameScreen
  <1>3. \A q \in Pages : TabOk(T, q)
    <2> SUFFICES ASSUME NEW q \in Pages PROVE TabOk(T, q)
      OBVIOUS
    <2>1. TabOk(S, q)  BY <1>0 DEF TabsOk
    <2>2. CASE S.pages[q].win = NoWindow
      <3>1. T.pages[q] = S.pages[q]  BY <2>2
      <3> QED  BY <2>1, <2>2, <3>1, <1>1 DEF TabOk
    <2>3. CASE S.pages[q].win # NoWindow  BY <2>1, <2>3, <1>1 DEF TabOk, SameScreen
    <2> QED  BY <2>2, <2>3
  <1>4. \A p, q \in Pages : p # q => T.pages[p].live \intersect T.pages[q].live = {}
    BY <1>0 DEF TabsOk, SameScreen
  <1>5. TabsOk(T)  BY <1>3, <1>4 DEF TabsOk
  <1>6. GuiOk(T)  BY <1>0 DEF GuiOk, SameScreen
  <1> QED  BY <1>2, <1>5, <1>6 DEF Basic

\* What a request for tab p leaves of the others.
Turn(S, T, p) ==
  /\ Basic(T) /\ SameScreen(S, T)
  /\ \A q \in Pages \ {p} : T.pages[q] = S.pages[q]
  /\ Orderly(S) => \A q \in Exists(S) \ {p} : Synced(S, q) => Synced(T, q)

\* The blob of the tab's group, when it has one.
BlobOk(S, p) ==
  S.pages[p].gid # 0 =>
    /\ S.pages[p].gid \in DOMAIN S.daemon.groups
    /\ S.daemon.groups[S.pages[p].gid] = S.pages[p].panes

\* A tab that has nothing to tell the daemon had its turn.
LEMMA TurnRefl ==
  ASSUME NEW S, Basic(S), NEW p
  PROVE  Turn(S, S, p)
  BY DEF Turn, SameScreen

\* Two requests for one tab are one turn.
LEMMA TurnTrans ==
  ASSUME NEW S, NEW T, NEW U, NEW p, Turn(S, T, p), Turn(T, U, p)
  PROVE  Turn(S, U, p)
  <1>1. SameScreen(S, U)  BY DEF Turn, SameScreen
  <1>2. \A q \in Pages \ {p} : U.pages[q] = S.pages[q]  BY DEF Turn
  <1>3. Exists(T) = Exists(S) /\ (Orderly(T) <=> Orderly(S))
    <2>1. SameScreen(S, T)  BY DEF Turn
    <2> QED  BY <2>1, SameScreenFacts
  <1>4. Orderly(S) => \A q \in Exists(S) \ {p} : Synced(S, q) => Synced(U, q)
    BY <1>3 DEF Turn
  <1>5. Basic(U)  BY DEF Turn
  <1> QED  BY <1>1, <1>2, <1>4, <1>5 DEF Turn

\* epimone_page_set_group_id: what the daemon was told is forgotten.
LEMMA SetGroupIdEffect ==
  ASSUME NEW S, Shape(S), NEW p \in Pages, NEW g, S.pages[p].gid # g,
         NEW T, T = SetGroupId(S, p, g)
  PROVE  /\ Shape(T) /\ T.daemon = S.daemon /\ T.gui = S.gui /\ T.files = S.files /\ T.past = S.past
         /\ T.pages[p].win = S.pages[p].win /\ T.pages[p].panes = S.pages[p].panes
         /\ T.pages[p].live = S.pages[p].live /\ T.pages[p].zoomed = S.pages[p].zoomed
         /\ T.pages[p].gid = g /\ T.pages[p].enrolled = {}
         /\ \A q \in Pages \ {p} : T.pages[q] = S.pages[q]
  <1>1. /\ DOMAIN T = DOMAIN S /\ DOMAIN T.pages = Pages
        /\ T.daemon = S.daemon /\ T.files = S.files /\ T.past = S.past /\ T.gui = S.gui
        /\ T.pages[p] = [S.pages[p] EXCEPT !.gid = g, !.enrolled = {}]
        /\ \A q \in Pages \ {p} : T.pages[q] = S.pages[q]
    BY DEF Shape, TabFields, SetGroupId
  <1>2. DOMAIN S.pages[p] = TabFields  BY DEF Shape
  <1>3. /\ T.pages[p].win = S.pages[p].win /\ T.pages[p].panes = S.pages[p].panes
        /\ T.pages[p].live = S.pages[p].live /\ T.pages[p].zoomed = S.pages[p].zoomed
        /\ T.pages[p].gid = g /\ T.pages[p].enrolled = {} /\ DOMAIN T.pages[p] = TabFields
    BY ONLY <1>1, <1>2 DEF TabFields
  <1>4. ASSUME NEW q \in Pages PROVE DOMAIN T.pages[q] = TabFields
    <2>1. DOMAIN S.pages[q] = TabFields  BY DEF Shape
    <2>2. q = p \/ T.pages[q] = S.pages[q]  BY <1>1
    <2>3. DOMAIN T.pages[p] = TabFields  BY <1>3
    <2> QED  BY ONLY <2>1, <2>2, <2>3
  <1>5. Shape(T)  BY <1>1, <1>4 DEF Shape
  <1> QED  BY <1>1, <1>3, <1>5

\* GROUP_SET: the blob is the tab's, or the tab has no group.
LEMMA UpdateBlobTurn ==
  ASSUME NEW S, Basic(S), NEW p \in Exists(S), NEW fails
  PROVE  LET T == UpdateBlob(S, p, fails) IN Turn(S, T, p) /\ BlobOk(T, p)
  <1> DEFINE T == UpdateBlob(S, p, fails)
             g == S.pages[p].gid
  <1>0. Shape(S) /\ DaemonOk(S) /\ TabsOk(S) /\ Arranged(S) /\ p \in Pages /\ S.pages[p].win # NoWindow
    BY DEF Basic, Exists
  <1>1. CASE g = 0
    <2>1. T = S  BY <1>1 DEF UpdateBlob
    <2> QED  BY <2>1, <1>1, TurnRefl DEF BlobOk
  <1>2. CASE g # 0 /\ g \in DOMAIN S.daemon.groups /\ S.daemon.up /\ <<p, "set">> \notin fails
    <2>1. T = [S EXCEPT !.daemon.groups[g] = S.pages[p].panes]  BY <1>2 DEF UpdateBlob
    <2> HIDE DEF T
    <2>2. /\ Shape(T) /\ T.pages = S.pages /\ T.gui = S.gui /\ T.files = S.files /\ T.past = S.past
          /\ T.daemon.up = S.daemon.up /\ T.daemon.inst = S.daemon.inst
          /\ T.daemon.nextS = S.daemon.nextS /\ T.daemon.nextG = S.daemon.nextG
          /\ T.daemon.sess = S.daemon.sess
          /\ DOMAIN T.daemon.groups = DOMAIN S.daemon.groups
          /\ T.daemon.groups[g] = S.pages[p].panes
          /\ \A h \in DOMAIN S.daemon.groups : h # g => T.daemon.groups[h] = S.daemon.groups[h]
      BY <2>1, <1>0, <1>2 DEF Shape
    <2>3. SameScreen(S, T)  BY <2>2 DEF SameScreen
    <2>4. Arranged(T)  BY <2>2, <1>0 DEF Arranged, Current, PageArranged, Apart
    <2>5. Basic(T)
      BY <2>2, <2>3, <2>4, <1>0, SameScreenBasic DEF DaemonOk, TabsOk, TabOk
    <2>6. Orderly(S) => \A q \in Exists(S) \ {p} : Synced(S, q) => Synced(T, q)
      <3> SUFFICES ASSUME Orderly(S), NEW q \in Exists(S) \ {p}, Synced(S, q) PROVE Synced(T, q)
        OBVIOUS
      <3>1. Apart(S, p, q)  BY <1>0 DEF Orderly, Arranged, Current, Exists
      <3>2. S.pages[q].gid # g  BY <3>1, <1>2 DEF Apart
      <3> QED  BY <3>2, <2>2 DEF Synced
    <2>7. Turn(S, T, p)  BY <2>2, <2>3, <2>5, <2>6 DEF Turn
    <2>8. BlobOk(T, p)  BY <2>2, <1>2 DEF BlobOk
    <2> QED  BY <2>7, <2>8 DEF T
  <1>3. CASE g # 0 /\ ~(g \in DOMAIN S.daemon.groups /\ S.daemon.up /\ <<p, "set">> \notin fails)
    <2>1. T = SetGroupId(S, p, 0)  BY <1>3 DEF UpdateBlob
    <2> HIDE DEF T
    <2>2. /\ Shape(T) /\ T.daemon = S.daemon /\ T.gui = S.gui /\ T.files = S.files /\ T.past = S.past
          /\ T.pages[p].win = S.pages[p].win /\ T.pages[p].panes = S.pages[p].panes
          /\ T.pages[p].live = S.pages[p].live /\ T.pages[p].zoomed = S.pages[p].zoomed
          /\ T.pages[p].gid = 0 /\ T.pages[p].enrolled = {}
          /\ \A q \in Pages \ {p} : T.pages[q] = S.pages[q]
      BY <2>1, <1>0, <1>3, SetGroupIdEffect
    <2>3. SameScreen(S, T)  BY <2>2 DEF SameScreen
    <2>4. Arranged(T)
      <3> SUFFICES ASSUME Current(T), ~T.past.foreign
                   PROVE  /\ \A r \in Pages : PageArranged(T, r)
                          /\ \A u, r \in Pages : u # r => Apart(T, u, r)
        BY DEF Arranged
      <3>1. /\ \A r \in Pages : PageArranged(S, r)
            /\ \A u, r \in Pages : u # r => Apart(S, u, r)
        BY <1>0, <2>2 DEF Arranged, Current
      <3>2. \A r \in Pages \ {p} : PageArranged(T, r)  BY <3>1, <2>2 DEF PageArranged
      <3>3. PageArranged(T, p)  BY <3>1, <2>2, <1>0 DEF PageArranged, DaemonOk
      <3>4. \A r \in Pages : T.pages[r].panes = S.pages[r].panes /\ T.pages[r].gid \in {0, S.pages[r].gid}
        BY <2>2
      <3>5. \A u, r \in Pages : u # r => Apart(T, u, r)  BY <3>1, <3>4 DEF Apart
      <3> QED  BY <3>2, <3>3, <3>5
    <2>5. Basic(T)
      BY <2>2, <2>3, <2>4, <1>0, SameScreenBasic DEF DaemonOk, TabsOk, TabOk
    <2>6. \A q \in Exists(S) \ {p} : Synced(S, q) => Synced(T, q)  BY <2>2 DEF Synced, Exists
    <2>7. Turn(S, T, p)  BY <2>2, <2>3, <2>5, <2>6 DEF Turn
    <2>8. BlobOk(T, p)  BY <2>2 DEF BlobOk
    <2> QED  BY <2>7, <2>8 DEF T
  <1> QED  BY <1>1, <1>2, <1>3

\* GROUP_NEW: a tab without a group gets one that no tab has.
LEMMA CreateGroupTurn ==
  ASSUME NEW S, Basic(S), NEW p \in Exists(S), NEW fails, BlobOk(S, p)
  PROVE  LET T == CreateGroup(S, p, fails) IN
         /\ Turn(S, T, p) /\ BlobOk(T, p)
         /\ S.daemon.up /\ <<p, "new">> \notin fails => T.pages[p].gid # 0
  <1> DEFINE T == CreateGroup(S, p, fails)
             g == S.daemon.nextG
             N == [S EXCEPT !.daemon.groups = With(@, S.daemon.nextG, S.pages[p].panes),
                            !.daemon.nextG = @ + 1]
  <1>0. Shape(S) /\ DaemonOk(S) /\ TabsOk(S) /\ Arranged(S) /\ p \in Pages /\ S.pages[p].win # NoWindow
    BY DEF Basic, Exists
  <1>1. CASE S.pages[p].gid # 0 \/ ~S.daemon.up \/ <<p, "new">> \in fails
    <2>1. T = S  BY <1>1 DEF CreateGroup
    <2> QED  BY <2>1, <1>1, TurnRefl
  <1>2. CASE ~(S.pages[p].gid # 0 \/ ~S.daemon.up \/ <<p, "new">> \in fails)
    <2>1. T = SetGroupId(N, p, g)  BY <1>2 DEF CreateGroup
    <2>2. /\ Shape(N) /\ N.pages = S.pages /\ N.gui = S.gui /\ N.files = S.files /\ N.past = S.past
          /\ N.daemon.up = S.daemon.up /\ N.daemon.inst = S.daemon.inst
          /\ N.daemon.nextS = S.daemon.nextS /\ N.daemon.nextG = g + 1
          /\ N.daemon.sess = S.daemon.sess
          /\ N.daemon.groups = With(S.daemon.groups, g, S.pages[p].panes)
      BY <1>0 DEF Shape
    <2> HIDE DEF N, T
    <2>3. g \in Nat /\ 0 < g /\ g # 0  BY <1>0 DEF DaemonOk
    <2>4. /\ DOMAIN N.daemon.groups = DOMAIN S.daemon.groups \union {g}
          /\ N.daemon.groups[g] = S.pages[p].panes
          /\ \A h \in DOMAIN S.daemon.groups : h # g => N.daemon.groups[h] = S.daemon.groups[h]
      BY <2>2 DEF With
    <2>5. N.pages[p].gid # g  BY <2>2, <2>3, <1>2
    <2>6. /\ Shape(T) /\ T.daemon = N.daemon /\ T.gui = N.gui /\ T.files = N.files /\ T.past = N.past
          /\ T.pages[p].win = N.pages[p].win /\ T.pages[p].panes = N.pages[p].panes
          /\ T.pages[p].live = N.pages[p].live /\ T.pages[p].zoomed = N.pages[p].zoomed
          /\ T.pages[p].gid = g /\ T.pages[p].enrolled = {}
          /\ \A q \in Pages \ {p} : T.pages[q] = N.pages[q]
      <3>1. Shape(N) /\ p \in Pages  BY <2>2, <1>0
      <3> QED  BY ONLY <3>1, <2>1, <2>5, SetGroupIdEffect
    <2>7. /\ T.pages[p].win = S.pages[p].win /\ T.pages[p].panes = S.pages[p].panes
          /\ T.pages[p].live = S.pages[p].live /\ T.pages[p].zoomed = S.pages[p].zoomed
          /\ \A q \in Pages \ {p} : T.pages[q] = S.pages[q]
          /\ T.gui = S.gui /\ T.files = S.files /\ T.past = S.past
      BY <2>2, <2>6
    <2>8. SameScreen(S, T)  BY <2>2, <2>6, <2>7 DEF SameScreen
    <2>9. Arranged(T)
      <3> SUFFICES ASSUME Current(T), ~T.past.foreign
                   PROVE  /\ \A r \in Pages : PageArranged(T, r)
                          /\ \A u, r \in Pages : u # r => Apart(T, u, r)
        BY DEF Arranged
      <3>1. /\ \A r \in Pages : PageArranged(S, r)
            /\ \A u, r \in Pages : u # r => Apart(S, u, r)
        BY <1>0, <2>8 DEF Arranged, Current, SameScreen
      <3>2. /\ T.daemon.nextS = S.daemon.nextS /\ T.daemon.nextG = g + 1
            /\ T.daemon.sess = S.daemon.sess
        BY <2>2, <2>6
      <3>3. ASSUME NEW r \in Pages \ {p} PROVE PageArranged(T, r)
        <4>1. PageArranged(S, r) /\ T.pages[r] = S.pages[r] /\ S.pages[r].gid \in Nat
          BY <3>1, <2>7, <1>0 DEF TabsOk, TabOk
        <4> QED  BY <4>1, <3>2, <2>3 DEF PageArranged
      <3>4. PageArranged(T, p)
        <4>1. PageArranged(S, p)  BY <3>1, <1>0
        <4> QED  BY <4>1, <3>2, <2>3, <2>6, <2>7 DEF PageArranged
      <3>5. \A r \in Pages \ {p} : S.pages[r].gid # g
        BY <3>1, <2>3, <1>0 DEF PageArranged, TabsOk, TabOk
      <3>6. ASSUME NEW u \in Pages, NEW r \in Pages, u # r PROVE Apart(T, u, r)
        <4>1. Apart(S, u, r)  BY <3>1, <3>6
        <4>2. T.pages[u].panes = S.pages[u].panes /\ T.pages[r].panes = S.pages[r].panes  BY <2>7
        <4>3. T.pages[u].gid # 0 => T.pages[u].gid # T.pages[r].gid
          <5>1. CASE u = p  BY <5>1, <3>5, <3>6, <2>6, <2>7
          <5>2. CASE r = p  BY <5>2, <3>5, <3>6, <2>6, <2>7
          <5>3. CASE u # p /\ r # p  BY <5>3, <4>1, <2>7 DEF Apart
          <5> QED  BY <5>1, <5>2, <5>3
        <4> QED  BY <4>1, <4>2, <4>3 DEF Apart
      <3> QED  BY <3>3, <3>4, <3>6
    <2>10. Basic(T)
      <3>1. T.daemon.nextG = g + 1 /\ T.daemon.sess = S.daemon.sess
            /\ DOMAIN T.daemon.groups = DOMAIN S.daemon.groups \union {g}
        BY <2>2, <2>4, <2>6
      <3>2. T.daemon.nextG \in Nat \ {0}  BY <3>1, <2>3
      <3>3. \A s \in DOMAIN S.daemon.sess : DOMAIN T.daemon.sess[s] = {"alive", "group"}
        BY <3>1, <1>0 DEF DaemonOk
      <3>4. \A h \in DOMAIN T.daemon.groups : h \in Nat /\ 0 < h /\ h < T.daemon.nextG
        BY <3>1, <2>3, <1>0 DEF DaemonOk
      <3>5. \A q \in Pages : /\ T.pages[q].gid \in Nat
                             /\ S.pages[q].win = NoWindow => T.pages[q] = S.pages[q]
        BY <2>3, <2>6, <2>7, <1>0 DEF TabsOk, TabOk
      <3>6. Shape(T)  BY <2>6
      <3> QED  BY <3>2, <3>3, <3>4, <3>5, <3>6, <2>8, <2>9, SameScreenBasic
    <2>11. \A q \in Exists(S) \ {p} : Synced(S, q) => Synced(T, q)
      <3> SUFFICES ASSUME NEW q \in Exists(S) \ {p}, Synced(S, q) PROVE Synced(T, q)
        OBVIOUS
      <3>1. T.pages[q] = S.pages[q]  BY <2>7 DEF Exists
      <3>2. S.pages[q].gid # g  BY <1>0 DEF Synced, DaemonOk
      <3> QED  BY <3>1, <3>2, <2>2, <2>4, <2>6 DEF Synced
    <2>12. Turn(S, T, p)  BY <2>7, <2>8, <2>10, <2>11 DEF Turn
    <2>13. BlobOk(T, p) /\ T.pages[p].gid # 0  BY <2>3, <2>4, <2>6, <2>7 DEF BlobOk
    <2> QED  BY <2>12, <2>13 DEF T
  <1> QED  BY <1>1, <1>2


\* A tab tells the daemon about more of its panes.
WithEnrolled(A, p, told) == [A EXCEPT !.pages[p].enrolled = @ \union told]

\* Only what the tab has told the daemon changes.
LEMMA WithEnrolledEffect ==
  ASSUME NEW A, Shape(A), NEW p \in Pages, NEW told, NEW T, T = WithEnrolled(A, p, told)
  PROVE  /\ Shape(T) /\ T.daemon = A.daemon /\ T.gui = A.gui /\ T.files = A.files /\ T.past = A.past
         /\ T.pages[p].win = A.pages[p].win /\ T.pages[p].panes = A.pages[p].panes
         /\ T.pages[p].live = A.pages[p].live /\ T.pages[p].zoomed = A.pages[p].zoomed
         /\ T.pages[p].gid = A.pages[p].gid
         /\ T.pages[p].enrolled = A.pages[p].enrolled \union told
         /\ \A q \in Pages \ {p} : T.pages[q] = A.pages[q]
  <1>1. /\ DOMAIN T = DOMAIN A /\ DOMAIN T.pages = Pages
        /\ T.daemon = A.daemon /\ T.files = A.files /\ T.past = A.past /\ T.gui = A.gui
        /\ T.pages[p] = [A.pages[p] EXCEPT !.enrolled = A.pages[p].enrolled \union told]
        /\ \A q \in Pages \ {p} : T.pages[q] = A.pages[q]
    BY DEF Shape, TabFields, WithEnrolled
  <1>2. DOMAIN A.pages[p] = TabFields  BY DEF Shape
  <1>3. /\ T.pages[p].win = A.pages[p].win /\ T.pages[p].panes = A.pages[p].panes
        /\ T.pages[p].live = A.pages[p].live /\ T.pages[p].zoomed = A.pages[p].zoomed
        /\ T.pages[p].gid = A.pages[p].gid
        /\ T.pages[p].enrolled = A.pages[p].enrolled \union told
        /\ DOMAIN T.pages[p] = TabFields
    BY ONLY <1>1, <1>2 DEF TabFields
  <1>4. ASSUME NEW q \in Pages PROVE DOMAIN T.pages[q] = TabFields
    <2>1. DOMAIN A.pages[q] = TabFields  BY DEF Shape
    <2>2. q = p \/ T.pages[q] = A.pages[q]  BY <1>1
    <2>3. DOMAIN T.pages[p] = TabFields  BY <1>3
    <2> QED  BY ONLY <2>1, <2>2, <2>3
  <1>5. Shape(T)  BY <1>1, <1>4 DEF Shape
  <1> QED  BY <1>1, <1>3, <1>5

\* GROUP_ADD of the panes the daemon has not been told about: with it the
\* tab's group holds just the tab.
LEMMA EnrolPanesTurn ==
  ASSUME NEW S, Basic(S), NEW p \in Exists(S), NEW fails, BlobOk(S, p)
  PROVE  LET T == EnrolPanes(S, p, fails) IN
         /\ Turn(S, T, p)
         /\ Orderly(S) /\ S.pages[p].gid # 0 /\ <<p, "add">> \notin fails => Synced(T, p)
  <1> DEFINE T == EnrolPanes(S, p, fails)
             g == S.pages[p].gid
             new == S.pages[p].panes \ S.pages[p].enrolled
             told == IF g \in DOMAIN S.daemon.groups /\ <<p, "add">> \notin fails
                     THEN new \intersect DOMAIN S.daemon.sess ELSE {}
             A == GroupAdd(S, g, told)
  <1>0. Shape(S) /\ DaemonOk(S) /\ TabsOk(S) /\ Arranged(S) /\ p \in Pages /\ S.pages[p].win # NoWindow
    BY DEF Basic, Exists
  <1>1. T = WithEnrolled(A, p, told)  BY DEF EnrolPanes, WithEnrolled
  <1>2. told \subseteq new \intersect DOMAIN S.daemon.sess  OBVIOUS
  <1>3. g \in DOMAIN S.daemon.groups /\ <<p, "add">> \notin fails =>
          told = new \intersect DOMAIN S.daemon.sess
    OBVIOUS
  <1> HIDE DEF told
  <1>4. /\ Shape(A)
        /\ A.pages = S.pages /\ A.gui = S.gui /\ A.files = S.files /\ A.past = S.past
        /\ A.daemon.up = S.daemon.up /\ A.daemon.inst = S.daemon.inst
        /\ A.daemon.nextS = S.daemon.nextS /\ A.daemon.nextG = S.daemon.nextG
        /\ DOMAIN A.daemon.sess = DOMAIN S.daemon.sess
        /\ \A s \in DOMAIN S.daemon.sess :
             /\ A.daemon.sess[s].alive = S.daemon.sess[s].alive
             /\ DOMAIN A.daemon.sess[s] = {"alive", "group"}
        /\ \A s \in DOMAIN S.daemon.sess \intersect told : A.daemon.sess[s].group = g
        /\ \A s \in DOMAIN S.daemon.sess \ told : A.daemon.sess[s].group = S.daemon.sess[s].group
        /\ DOMAIN A.daemon.groups = {h \in DOMAIN S.daemon.groups :
                                       MembersOf(S, h) = {} \/ MembersOf(A, h) # {}}
        /\ \A h \in DOMAIN A.daemon.groups : A.daemon.groups[h] = S.daemon.groups[h]
    BY <1>0, GroupAddEffect
  <1> HIDE DEF A
  <1>5. /\ Shape(T) /\ T.daemon = A.daemon /\ T.gui = A.gui /\ T.files = A.files /\ T.past = A.past
        /\ T.pages[p].win = A.pages[p].win /\ T.pages[p].panes = A.pages[p].panes
        /\ T.pages[p].live = A.pages[p].live /\ T.pages[p].zoomed = A.pages[p].zoomed
        /\ T.pages[p].gid = A.pages[p].gid
        /\ T.pages[p].enrolled = A.pages[p].enrolled \union told
        /\ \A q \in Pages \ {p} : T.pages[q] = A.pages[q]
    <2>1. Shape(A) /\ p \in Pages  BY <1>0, <1>4
    <2> QED  BY ONLY <2>1, <1>1, WithEnrolledEffect
  <1> HIDE DEF T
  <1>6. /\ T.pages[p].win = S.pages[p].win /\ T.pages[p].panes = S.pages[p].panes
        /\ T.pages[p].live = S.pages[p].live /\ T.pages[p].zoomed = S.pages[p].zoomed
        /\ T.pages[p].gid = g
        /\ T.pages[p].enrolled = S.pages[p].enrolled \union told
        /\ \A q \in Pages \ {p} : T.pages[q] = S.pages[q]
        /\ T.gui = S.gui /\ T.files = S.files /\ T.past = S.past
    BY <1>4, <1>5
  <1>7. SameScreen(S, T)  BY <1>4, <1>5, <1>6 DEF SameScreen
  <1>8. ASSUME Current(S), ~S.past.foreign, NEW q \in Pages \ {p}
        PROVE  S.pages[q].panes \intersect told = {}
    <2>1. Apart(S, p, q)  BY <1>8, <1>0 DEF Arranged
    <2> QED  BY <2>1, <1>2 DEF Apart
  <1>9. Arranged(T)
    <2> SUFFICES ASSUME Current(T), ~T.past.foreign
                 PROVE  /\ \A r \in Pages : PageArranged(T, r)
                        /\ \A u, r \in Pages : u # r => Apart(T, u, r)
      BY DEF Arranged
    <2>0. Current(S) /\ ~S.past.foreign  BY <1>7 DEF SameScreen, Current
    <2>1. /\ \A r \in Pages : PageArranged(S, r)
          /\ \A u, r \in Pages : u # r => Apart(S, u, r)
      BY <1>0, <2>0 DEF Arranged
    <2>2. ASSUME NEW r \in Pages \ {p} PROVE PageArranged(T, r)
      <3>1. PageArranged(S, r) /\ T.pages[r] = S.pages[r]  BY <2>1, <1>6
      <3>2. S.pages[r].panes \intersect told = {}  BY <1>8, <2>0
      <3> QED  BY <3>1, <3>2, <1>4, <1>5 DEF PageArranged
    <2>3. PageArranged(T, p)
      <3>1. PageArranged(S, p)  BY <2>1, <1>0
      <3> QED  BY <3>1, <1>2, <1>4, <1>5, <1>6 DEF PageArranged
    <2>4. \A r \in Pages : T.pages[r].panes = S.pages[r].panes /\ T.pages[r].gid = S.pages[r].gid
      BY <1>6
    <2>5. \A u, r \in Pages : u # r => Apart(T, u, r)  BY <2>1, <2>4 DEF Apart
    <2> QED  BY <2>2, <2>3, <2>5
  <1>10. Basic(T)
    <2>1. T.daemon.nextG \in Nat \ {0}  BY <1>0, <1>4, <1>5 DEF DaemonOk
    <2>2. \A s \in DOMAIN S.daemon.sess : DOMAIN T.daemon.sess[s] = {"alive", "group"}
      BY <1>4, <1>5
    <2>3. \A h \in DOMAIN T.daemon.groups : h \in Nat /\ 0 < h /\ h < T.daemon.nextG
      BY <1>0, <1>4, <1>5 DEF DaemonOk
    <2>4. \A q \in Pages : /\ T.pages[q].gid \in Nat
                           /\ S.pages[q].win = NoWindow => T.pages[q] = S.pages[q]
      BY <1>6, <1>0 DEF TabsOk, TabOk
    <2>5. Shape(T)  BY <1>5
    <2> QED  BY <2>1, <2>2, <2>3, <2>4, <2>5, <1>7, <1>9, SameScreenBasic
  <1>11. ASSUME Orderly(S), NEW q \in Exists(S)
         PROVE  S.pages[q].panes # {} /\ S.pages[q].panes \subseteq DOMAIN S.daemon.sess
    <2>1. TabOk(S, q) /\ S.pages[q].win # NoWindow  BY <1>0 DEF TabsOk, Exists
    <2>2. S.pages[q].live = S.pages[q].panes  BY <1>11 DEF Orderly, Exists
    <2> QED  BY <2>1, <2>2 DEF TabOk, Alive
  <1>12. Orderly(S) => \A q \in Exists(S) \ {p} : Synced(S, q) => Synced(T, q)
    <2> SUFFICES ASSUME Orderly(S), NEW q \in Exists(S) \ {p}, Synced(S, q) PROVE Synced(T, q)
      OBVIOUS
    <2>1. q \in Pages \ {p}  BY DEF Exists
    <2>2. S.pages[q].panes \intersect told = {}  BY <2>1, <1>8 DEF Orderly, Current
    <2>3. T.pages[q] = S.pages[q]  BY <2>1, <1>6
    <2>4. \A s \in S.pages[q].panes : A.daemon.sess[s].group = S.pages[q].gid
      BY <1>11, <2>2, <1>4 DEF Synced
    <2>5. MembersOf(A, S.pages[q].gid) # {}  BY <2>4, <1>11, <1>4 DEF MembersOf
    <2> QED  BY <2>3, <2>4, <2>5, <1>4, <1>5 DEF Synced
  <1>13. ASSUME Orderly(S), g # 0, <<p, "add">> \notin fails PROVE Synced(T, p)
    <2>1. g \in DOMAIN S.daemon.groups /\ S.daemon.groups[g] = S.pages[p].panes
      BY <1>13 DEF BlobOk
    <2>2. told = new  BY <2>1, <1>3, <1>11, <1>13
    <2>3. PageArranged(S, p)  BY <1>0, <1>13 DEF Arranged, Orderly, Current
    <2>4. \A s \in S.pages[p].panes : A.daemon.sess[s].group = g
      BY <2>2, <2>3, <1>4, <1>11, <1>13 DEF PageArranged
    <2>5. MembersOf(A, g) # {}  BY <2>4, <1>11, <1>13, <1>4 DEF MembersOf
    <2> QED  BY <2>1, <2>4, <2>5, <1>4, <1>5, <1>6 DEF Synced
  <1>14. Turn(S, T, p)  BY <1>6, <1>7, <1>10, <1>12 DEF Turn
  <1> QED  BY <1>13, <1>14 DEF T


\* sync_page_group: the tab's group, its blob and its members.
LEMMA SyncPageGroupTurn ==
  ASSUME NEW S, Basic(S), NEW p \in Pages, NEW fails
  PROVE  LET T == SyncPageGroup(S, p, fails) IN
         /\ Turn(S, T, p)
         /\ Orderly(S) /\ p \in Exists(S) /\ ~S.pages[p].zoomed
              /\ <<p, "new">> \notin fails /\ <<p, "add">> \notin fails => Synced(T, p)
  <1> DEFINE T == SyncPageGroup(S, p, fails)
             A == UpdateBlob(S, p, fails)
             B == CreateGroup(A, p, fails)
  <1>0. TabOk(S, p)  BY DEF Basic, TabsOk
  <1>1. CASE S.pages[p].zoomed \/ S.pages[p].panes = {}
    <2>1. T = S  BY <1>1 DEF SyncPageGroup
    <2> QED  BY <2>1, <1>0, <1>1, TurnRefl DEF TabOk, Exists
  <1>2. CASE ~(S.pages[p].zoomed \/ S.pages[p].panes = {})
    <2>1. T = EnrolPanes(B, p, fails)  BY <1>2 DEF SyncPageGroup
    <2>2. p \in Exists(S)  BY <1>0, <1>2 DEF TabOk, Exists
    <2>3. Turn(S, A, p) /\ BlobOk(A, p)  BY <2>2, UpdateBlobTurn
    <2> HIDE DEF A
    <2>4. Basic(A) /\ SameScreen(S, A)  BY <2>3 DEF Turn
    <2>5. /\ Exists(A) = Exists(S)
          /\ Orderly(A) <=> Orderly(S)
      BY <2>4, SameScreenFacts
    <2>6. /\ Turn(A, B, p) /\ BlobOk(B, p)
          /\ A.daemon.up /\ <<p, "new">> \notin fails => B.pages[p].gid # 0
      <3>1. p \in Exists(A)  BY <2>2, <2>5
      <3> QED  BY ONLY <3>1, <2>4, <2>3, CreateGroupTurn
    <2> HIDE DEF B
    <2>7. Basic(B) /\ SameScreen(A, B)  BY <2>6 DEF Turn
    <2>8. /\ Exists(B) = Exists(A)
          /\ Orderly(B) <=> Orderly(A)
      BY <2>7, SameScreenFacts
    <2>9. /\ Turn(B, T, p)
          /\ Orderly(B) /\ B.pages[p].gid # 0 /\ <<p, "add">> \notin fails => Synced(T, p)
      <3>1. p \in Exists(B)  BY <2>2, <2>5, <2>8
      <3>2. LET U == EnrolPanes(B, p, fails) IN
            /\ Turn(B, U, p)
            /\ Orderly(B) /\ B.pages[p].gid # 0 /\ <<p, "add">> \notin fails => Synced(U, p)
        BY ONLY <3>1, <2>7, <2>6, EnrolPanesTurn
      <3> QED  BY ONLY <3>2, <2>1
    <2> HIDE DEF T
    <2>10. Turn(S, T, p)
      <3>1. Turn(S, B, p)  BY <2>3, <2>6, TurnTrans
      <3> QED  BY <3>1, <2>9, TurnTrans
    <2>11. Orderly(S) => A.daemon.up  BY <2>5 DEF Orderly
    <2> QED  BY <2>5, <2>6, <2>8, <2>9, <2>10, <2>11 DEF T
  <1> QED  BY <1>1, <1>2

\* A set of naturals with 0 and with the successor of its members has them all.
LEMMA Ind ==
  ASSUME NEW A, 0 \in A, \A n \in A : n \in Nat => n + 1 \in A
  PROVE  Nat \subseteq A
  <1>1. SUFFICES ASSUME NEW n \in Nat, n \notin A PROVE FALSE  OBVIOUS
  <1> DEFINE B == {x \in 0..n : x \in A}
             C == {x \in 1..n : x \in A}
             f == [x \in B |-> x + 1]
  <1>2. IsFiniteSet(0..n)  BY FS_Interval
  <1>3. IsFiniteSet(B)  BY <1>2, FS_Subset
  <1>4. f \in Injection(B, C)
    <2>1. \A x \in B : x + 1 \in C  BY <1>1
    <2>2. f \in [B -> C]  BY <2>1
    <2>3. \A x, y \in B : f[x] = f[y] => x = y  OBVIOUS
    <2>4. QED BY <2>2, <2>3, Fun_IsInj
  <1>5. C = B \ {0} /\ 0 \in B  BY <1>1
  <1>6. IsFiniteSet(C) /\ Cardinality(C) = Cardinality(B) - 1
    <2> HIDE DEF B, C
    <2>1. QED BY <1>3, <1>5, FS_RemoveElement
  <1>8. Cardinality(B) \in Nat
    <2> HIDE DEF B
    <2>1. QED BY <1>3, FS_CardinalityType
  <1>7. Cardinality(B) <= Cardinality(C)  BY <1>3, <1>4, <1>6, FS_Injection
  <1> QED BY <1>6, <1>7, <1>8

\* The tabs of a sync, one after the other.
SyncFrom(S, o, fails, k, T) ==
  T = [n \in 0..k |-> IF n = 0 THEN S ELSE SyncPageGroup(T[n - 1], o[n], fails)]

\* A sync of however many tabs is such a sequence of steps.
LEMMA SyncSteps ==
  ASSUME NEW S, NEW o, Len(o) \in Nat, NEW fails
  PROVE  \E T : SyncFrom(S, o, fails, Len(o), T) /\ SyncGroups(S, o, fails) = T[Len(o)]
  <1> DEFINE A == {k \in Nat : \E T : SyncFrom(S, o, fails, k, T)}
  <1>1. 0 \in A
    <2>1. SyncFrom(S, o, fails, 0, [n \in {0} |-> S])  BY DEF SyncFrom
    <2> QED  BY <2>1
  <1>2. ASSUME NEW k \in A PROVE k + 1 \in A
    <2>1. PICK T : SyncFrom(S, o, fails, k, T)  OBVIOUS
    <2>2. k \in Nat  OBVIOUS
    <2> DEFINE U == [n \in 0..k + 1 |-> IF n = k + 1 THEN SyncPageGroup(T[k], o[k + 1], fails) ELSE T[n]]
    <2>3. \A n \in 0..k : U[n] = T[n]  BY <2>2
    <2>4. U[k + 1] = SyncPageGroup(T[k], o[k + 1], fails)  BY <2>2
    <2>5. DOMAIN U = 0..k + 1  OBVIOUS
    <2>6. U = [n \in DOMAIN U |-> U[n]]  OBVIOUS
    <2> HIDE DEF U
    <2>7. \A n \in 0..k + 1 : U[n] = IF n = 0 THEN S ELSE SyncPageGroup(U[n - 1], o[n], fails)
      <3>1. TAKE n \in 0..k + 1
      <3>2. CASE n = k + 1  BY <2>2, <3>2, <2>3, <2>4
      <3>3. CASE n = 0  BY <2>2, <3>3, <2>1, <2>3 DEF SyncFrom
      <3>4. CASE n # 0 /\ n # k + 1
        <4>1. n \in 0..k /\ n - 1 \in 0..k  BY <2>2, <3>4
        <4>2. T[n] = SyncPageGroup(T[n - 1], o[n], fails)  BY <4>1, <3>4, <2>1 DEF SyncFrom
        <4> QED  BY <4>1, <4>2, <2>3, <3>4
      <3> QED  BY <3>2, <3>3, <3>4
    <2>8. SyncFrom(S, o, fails, k + 1, U)
      <3> DEFINE V == [n \in 0..k + 1 |-> IF n = 0 THEN S ELSE SyncPageGroup(U[n - 1], o[n], fails)]
      <3>1. \A n \in 0..k + 1 : U[n] = V[n]  BY <2>7
      <3>2. U = V  BY <3>1, <2>5, <2>6
      <3> QED  BY <3>2 DEF SyncFrom
    <2>9. k + 1 \in Nat  BY <2>2
    <2> QED  BY <2>8, <2>9
  <1>3. Nat \subseteq A
    <2> HIDE DEF A
    <2> QED  BY <1>1, <1>2, Ind
  <1>4. \E T : SyncFrom(S, o, fails, Len(o), T)  BY <1>3
  <1> DEFINE F == CHOOSE T : SyncFrom(S, o, fails, Len(o), T)
  <1>5. SyncFrom(S, o, fails, Len(o), F)  BY <1>4
  <1>6. SyncGroups(S, o, fails) = F[Len(o)]  BY DEF SyncGroups, SyncFrom
  <1> QED  BY <1>5, <1>6

\* An order of the tabs has every tab, and only tabs.
LEMMA OrderFacts ==
  ASSUME NEW X, IsFiniteSet(X), NEW o \in SetToSeqs(X)
  PROVE  /\ Len(o) \in Nat /\ o \in [1..Len(o) -> X]
         /\ \A x \in X : \E n \in 1..Len(o) : o[n] = x
         /\ \A i, j \in 1..Len(o) : i # j => o[i] # o[j]
  <1> DEFINE c == Cardinality(X)
  <1>1. c \in Nat  BY FS_CardinalityType
  <1>2. o \in [1..c -> X] /\ \A i, j \in 1..c : i # j => o[i] # o[j]  BY DEF SetToSeqs
  <1> HIDE DEF c
  <1>3. o \in Seq(X)  BY <1>1, <1>2, SeqDef
  <1>4. Len(o) \in Nat /\ DOMAIN o = 1..Len(o)  BY <1>3, LenProperties
  <1>5. 1..Len(o) = 1..c  BY <1>2, <1>4
  <1>6. Len(o) = c
    <2>1. \A m, n \in Nat : 1..m = 1..n => m = n
      <3> TAKE m, n \in Nat
      <3>1. CASE m = 0 \/ n = 0  BY <3>1
      <3>2. CASE m # 0 /\ n # 0
        <4>1. m \in 1..m /\ n \in 1..n  BY <3>2
        <4> QED  BY <4>1
      <3> QED  BY <3>1, <3>2
    <2> QED  BY <2>1, <1>1, <1>4, <1>5
  <1>7. o \in Injection(1..c, X)  BY <1>2, Fun_IsInj
  <1>8. Cardinality(1..c) = c  BY <1>1, FS_Interval
  <1>9. o \in Surjection(1..c, X)  BY <1>7, <1>8, FS_Injection DEF c
  <1>10. \A x \in X : \E n \in 1..c : o[n] = x  BY <1>9 DEF Surjection
  <1> QED  BY <1>2, <1>4, <1>6, <1>10


\* The requests of a sync that failed left no tab without its group.
AllTold(fails) == \A f \in fails : f[2] \notin {"new", "add"}

\* The tabs in the order o have been synced up to the n-th.
SyncedUpTo(S, T, o, fails, n) ==
  /\ Basic(T) /\ SameScreen(S, T)
  /\ Orderly(S) /\ AllTold(fails) =>
       \A i \in 1..n : o[i] \in Exists(S) /\ ~S.pages[o[i]].zoomed => Synced(T, o[i])

\* sync_groups_now: the screen is as it was, and no tab is left out.
LEMMA SyncGroupsEffect ==
  ASSUME NEW S, Basic(S), NEW o, Len(o) \in Nat, NEW fails,
         \A i \in 1..Len(o) : o[i] \in Pages
  PROVE  SyncedUpTo(S, SyncGroups(S, o, fails), o, fails, Len(o))
  <1>1. PICK T : SyncFrom(S, o, fails, Len(o), T) /\ SyncGroups(S, o, fails) = T[Len(o)]
    BY SyncSteps
  <1> DEFINE A == {n \in Nat : n <= Len(o) => SyncedUpTo(S, T[n], o, fails, n)}
  <1>2. 0 \in A
    <2>1. T[0] = S  BY <1>1 DEF SyncFrom
    <2>2. SameScreen(S, S)  BY DEF SameScreen
    <2> QED  BY <2>1, <2>2 DEF SyncedUpTo
  <1>3. ASSUME NEW n \in A PROVE n + 1 \in A
    <2>0. n \in Nat /\ n + 1 \in Nat  OBVIOUS
    <2> SUFFICES ASSUME n + 1 <= Len(o) PROVE SyncedUpTo(S, T[n + 1], o, fails, n + 1)
      BY <2>0
    <2> DEFINE p == o[n + 1]
    <2>1. n <= Len(o) /\ n + 1 \in 0..Len(o) /\ n + 1 \in 1..Len(o) /\ n + 1 # 0 /\ (n + 1) - 1 = n
      BY <2>0
    <2>2. SyncedUpTo(S, T[n], o, fails, n)  BY <2>1
    <2>3. T[n + 1] = SyncPageGroup(T[n], p, fails)  BY <1>1, <2>1 DEF SyncFrom
    <2>4. p \in Pages  BY <2>1
    <2> DEFINE U == T[n]
               V == T[n + 1]
    <2> HIDE DEF p, A, U, V
    <2>5. Basic(U) /\ SameScreen(S, U)  BY <2>2 DEF SyncedUpTo, U
    <2>6. /\ Exists(U) = Exists(S)
          /\ Orderly(U) <=> Orderly(S)
      BY <2>5, SameScreenFacts
    <2>7. V = SyncPageGroup(U, p, fails)  BY <2>3 DEF U, V
    <2>8. /\ Turn(U, V, p)
          /\ Orderly(U) /\ p \in Exists(U) /\ ~U.pages[p].zoomed
               /\ <<p, "new">> \notin fails /\ <<p, "add">> \notin fails => Synced(V, p)
      BY ONLY <2>4, <2>5, <2>7, SyncPageGroupTurn
    <2>9. Basic(V) /\ SameScreen(U, V)  BY <2>8 DEF Turn
    <2>10. SameScreen(S, V)  BY <2>5, <2>9 DEF SameScreen
    <2>11. ASSUME Orderly(S), AllTold(fails), NEW i \in 1..n + 1,
                  o[i] \in Exists(S), ~S.pages[o[i]].zoomed
           PROVE  Synced(V, o[i])
      <3>1. CASE o[i] = p
        <4>1. <<p, "new">> \notin fails /\ <<p, "add">> \notin fails  BY <2>11 DEF AllTold
        <4>2. ~U.pages[p].zoomed  BY <2>4, <2>5, <2>11, <3>1 DEF SameScreen
        <4> QED  BY <2>6, <2>8, <2>11, <3>1, <4>1, <4>2
      <3>2. CASE o[i] # p
        <4>1. i \in 1..n  BY <2>0, <3>2 DEF p
        <4>2. Synced(U, o[i])  BY <2>2, <2>11, <4>1 DEF SyncedUpTo, U
        <4> QED  BY <2>6, <2>8, <2>11, <3>2, <4>2 DEF Turn
      <3> QED  BY <3>1, <3>2
    <2> QED  BY <2>9, <2>10, <2>11 DEF SyncedUpTo, V
  <1>4. Nat \subseteq A
    <2> HIDE DEF A
    <2> QED  BY <1>2, <1>3, Ind
  <1>5. Len(o) \in A  BY <1>4
  <1> QED  BY <1>1, <1>5

\* The order of a sync, when it covers the tabs there are.
Covers(S, o) ==
  /\ Len(o) \in Nat
  /\ \A i \in 1..Len(o) : o[i] \in Pages
  /\ \A p \in Exists(S) : \E i \in 1..Len(o) : o[i] = p

\* A sync of every tab, with what it leaves.
LEMMA FullSync ==
  ASSUME NEW S, Basic(S), NEW o, Covers(S, o), NEW fails
  PROVE  LET T == SyncGroups(S, o, fails) IN
         /\ Basic(T) /\ SameScreen(S, T)
         /\ Orderly(T) /\ AllTold(fails) => AllSynced(T)
  <1> DEFINE T == SyncGroups(S, o, fails)
  <1>1. Len(o) \in Nat /\ \A i \in 1..Len(o) : o[i] \in Pages  BY DEF Covers
  <1>2. SyncedUpTo(S, T, o, fails, Len(o))  BY ONLY <1>1, Basic(S), SyncGroupsEffect
  <1> HIDE DEF T
  <1>3. Basic(T) /\ SameScreen(S, T)  BY <1>2 DEF SyncedUpTo
  <1>4. /\ Exists(T) = Exists(S)
        /\ Orderly(T) <=> Orderly(S)
    BY <1>3, SameScreenFacts
  <1>5. ASSUME Orderly(T), AllTold(fails), NEW p \in Exists(T), ~T.pages[p].zoomed
        PROVE  Synced(T, p)
    <2>1. PICK i \in 1..Len(o) : o[i] = p  BY <1>4, <1>5 DEF Covers
    <2>2. ~S.pages[p].zoomed  BY <1>3, <1>5 DEF SameScreen, Exists
    <2> QED  BY <1>2, <1>4, <1>5, <2>1, <2>2 DEF SyncedUpTo
  <1> QED  BY <1>3, <1>5 DEF AllSynced, T

\* The orders of Orders cover the tabs.
LEMMA OrdersCover ==
  ASSUME NEW S, NEW X, X \subseteq Pages, Exists(S) \subseteq X, NEW o \in SetToSeqs(X)
  PROVE  Covers(S, o)
  <1>1. IsFiniteSet(X)  BY LayoutConstants, FS_Subset
  <1> QED  BY <1>1, OrderFacts DEF Covers


-----------------------------------------------------------------------------
(* The files *)

\* The daemon and the tabs are as sound as they were when gui is sound.
LEMMA BasicFrame ==
  ASSUME NEW S, Basic(S), NEW T, Shape(T), T.daemon = S.daemon, T.pages = S.pages,
         T.gui.open = S.gui.open, GuiOk(T),
         Current(T) /\ ~T.past.foreign => Current(S) /\ ~S.past.foreign
  PROVE  Basic(T)
  <1>0. DaemonOk(S) /\ TabsOk(S) /\ Arranged(S)  BY DEF Basic
  <1>1. DaemonOk(T)  BY <1>0 DEF DaemonOk
  <1>2. Alive(T) = Alive(S)  BY DEF Alive
  <1>3. TabsOk(T)  BY <1>0, <1>2 DEF TabsOk, TabOk
  <1>4. Arranged(T)  BY <1>0 DEF Arranged, PageArranged, Apart
  <1> QED  BY <1>1, <1>3, <1>4 DEF Basic

\* save_groups_state: groups.json and what the process recorded of it.
LEMMA SaveGroupsStateEffect ==
  ASSUME NEW S, Basic(S), NEW fails, NEW T, T = SaveGroupsState(S, fails)
  PROVE  /\ Basic(T)
         /\ T.daemon = S.daemon /\ T.pages = S.pages /\ T.past = S.past
         /\ T.gui.running = S.gui.running /\ T.gui.open = S.gui.open
         /\ T.gui.pending = S.gui.pending /\ T.gui.frozen = S.gui.frozen
         /\ T.gui.session = S.gui.session
         /\ T.files.layout = S.files.layout
         /\ T.files.groups \in {S.files.groups, 0, S.daemon.inst}
         /\ fails = {} => T.files.groups = IF S.daemon.up THEN S.daemon.inst ELSE 0
  <1> DEFINE i == IF S.daemon.up /\ <<"file", "instance">> \notin fails THEN S.daemon.inst ELSE 0
             g == IF <<"file", "groups">> \in fails THEN S.files.groups ELSE i
  <1>0. Shape(S) /\ DaemonOk(S) /\ GuiOk(S)  BY DEF Basic
  <1>1. T = [S EXCEPT !.files.groups = IF <<"file", "groups">> \in fails THEN @ ELSE i,
                      !.gui.recorded = IF i # 0 THEN i ELSE @]
    BY DEF SaveGroupsState
  <1>2. i \in Nat  BY <1>0 DEF DaemonOk
  <1>3. g \in {S.files.groups, 0, S.daemon.inst}  OBVIOUS
  <1>4. fails = {} => g = IF S.daemon.up THEN S.daemon.inst ELSE 0  OBVIOUS
  <1> HIDE DEF i
  <1>5. /\ Shape(T)
        /\ T.daemon = S.daemon /\ T.pages = S.pages /\ T.past = S.past
        /\ T.gui.running = S.gui.running /\ T.gui.open = S.gui.open
        /\ T.gui.pending = S.gui.pending /\ T.gui.frozen = S.gui.frozen
        /\ T.gui.session = S.gui.session
        /\ T.files.layout = S.files.layout /\ T.files.groups = g
    BY <1>0, <1>1 DEF Shape
  <1>6. T.gui.recorded = IF i # 0 THEN i ELSE S.gui.recorded  BY <1>0, <1>1 DEF Shape
  <1> HIDE DEF g
  <1>7. GuiOk(T)  BY <1>0, <1>2, <1>5, <1>6 DEF GuiOk
  <1>8. Current(T) <=> Current(S)  BY <1>5 DEF Current
  <1>9. Basic(T)  BY <1>5, <1>7, <1>8, BasicFrame
  <1> QED  BY <1>3, <1>4, <1>5, <1>9

\* epimone_layout_save_now: layout.json lists the groups of every window, or
\* what it listed before.
LEMMA SaveLayoutEffect ==
  ASSUME NEW S, Basic(S), S.gui.open # {}, NEW fails, NEW T, T = SaveLayout(S, fails)
  PROVE  /\ Basic(T)
         /\ T.daemon = S.daemon /\ T.pages = S.pages /\ T.past = S.past /\ T.gui = S.gui
         /\ T.files.groups = S.files.groups
         /\ T.files.layout = IF <<"file", "layout">> \in fails THEN S.files.layout
                             ELSE LayoutOf(T)
  <1> DEFINE l == [w \in Windows |-> IF w \in S.gui.open THEN GroupIds(S, w) ELSE {}]
  <1>0. Shape(S) /\ GuiOk(S) /\ TabsOk(S)  BY DEF Basic
  <1>1. CASE <<"file", "layout">> \in fails
    <2>1. T = S  BY <1>1 DEF SaveLayout
    <2> QED  BY <1>1, <2>1
  <1>2. CASE <<"file", "layout">> \notin fails
    <2>1. T = [S EXCEPT !.files.layout = l, !.files.of = S.daemon.inst]
      BY <1>2 DEF SaveLayout
    <2>2. l = LayoutOf(S)
      <3>1. ASSUME NEW w \in Windows, w \notin S.gui.open PROVE GroupIds(S, w) = {}
        <4>1. \A q \in Pages : S.pages[q].win # w
          BY <3>1, <1>0, LayoutConstants DEF TabsOk, TabOk
        <4> QED  BY <4>1 DEF GroupIds
      <3> QED  BY <3>1 DEF LayoutOf
    <2> HIDE DEF l
    <2>3. /\ Shape(T)
          /\ T.daemon = S.daemon /\ T.pages = S.pages /\ T.past = S.past /\ T.gui = S.gui
          /\ T.files.groups = S.files.groups /\ T.files.layout = l
      BY <1>0, <2>1 DEF Shape
    <2>4. GuiOk(T) /\ (Current(T) <=> Current(S))  BY <1>0, <2>3 DEF GuiOk, Current
    <2>5. Basic(T)  BY <2>3, <2>4, BasicFrame
    <2>6. LayoutOf(T) = LayoutOf(S)  BY <2>3 DEF LayoutOf, GroupIds
    <2> QED  BY <1>2, <2>2, <2>3, <2>5, <2>6
  <1> QED  BY <1>1, <1>2

\* What a layout.json may be, whatever its stamp.
LayoutOk(S) ==
  /\ DOMAIN S.files.layout = Windows
  /\ \A w \in Windows : \A g \in S.files.layout[w] : g \in Nat /\ g # 0
  /\ LayoutFits(S)

\* What layout.json lists then is filed: a page is there for every group.
LEMMA LayoutFiled ==
  ASSUME NEW S, Basic(S), S.files.layout = LayoutOf(S)
  PROVE  LayoutOk(S)
  <1>0. TabsOk(S) /\ GuiOk(S)  BY DEF Basic
  <1>1. \A w \in Windows : S.files.layout[w] = GroupIds(S, w)  BY DEF LayoutOf
  <1>2. DOMAIN S.files.layout = Windows  BY DEF LayoutOf
  <1>3. \A w \in Windows : \A g \in S.files.layout[w] : g \in Nat /\ g # 0
    BY <1>0, <1>1 DEF GroupIds, TabsOk, TabOk
  <1> DEFINE f == [p \in Pages |-> <<S.pages[p].win, S.pages[p].gid>>]
  <1>4. \A p \in Pages : /\ S.pages[p].win \in Windows \union {NoWindow}
                         /\ S.pages[p].gid \in Nat
    BY <1>0 DEF TabsOk, TabOk, GuiOk
  <1>5. f \in [Pages -> (Windows \union {NoWindow}) \X Nat]  BY <1>4
  <1>6. \A w \in Windows : \A g \in S.files.layout[w] : \E p \in Pages : f[p] = <<w, g>>
    BY <1>1 DEF GroupIds
  <1>7. LayoutFits(S)  BY <1>5, <1>6 DEF LayoutFits
  <1> QED  BY <1>2, <1>3, <1>7 DEF LayoutOk

\* The save for what is pending, without and with its history.
SavedFor(S, o, fails, k) == SaveBoth(S, o, fails, k = "layout")
SaveFor(S, o, fails, k) == Save(S, o, fails, k = "layout")

\* A save, with or without layout.json: the files are as they were where a
\* write failed, and the tabs are synced when no tab lost its group or panes.
LEMMA SaveBothEffect ==
  ASSUME NEW S, Sound(S), S.gui.open # {}, NEW o, Covers(S, o), NEW fails, NEW k,
         NEW T, T = SavedFor(S, o, fails, k)
  PROVE  /\ Basic(T) /\ LayoutOk(T) /\ T.files.groups \in Nat
         /\ T.past = S.past /\ T.daemon.up = S.daemon.up /\ T.daemon.inst = S.daemon.inst
         /\ T.gui.running = S.gui.running /\ T.gui.open = S.gui.open
         /\ T.gui.pending = S.gui.pending /\ T.gui.frozen = S.gui.frozen
         /\ \A q \in Pages : /\ T.pages[q].win = S.pages[q].win
                             /\ T.pages[q].zoomed = S.pages[q].zoomed
         /\ Orderly(T) /\ AllTold(fails) => AllSynced(T)
         /\ k = "layout" /\ <<"file", "layout">> \notin fails => T.files.layout = LayoutOf(T)
         /\ k # "layout" => T.files.layout = S.files.layout
  <1> DEFINE A == SyncGroups(S, o, fails)
             B == SaveGroupsState(A, fails)
             L == k = "layout" /\ <<"file", "layout">> \notin fails
  <1>0. Basic(S) /\ Filed(S)  BY DEF Sound
  <1>1. /\ Basic(A) /\ SameScreen(S, A)
        /\ Orderly(A) /\ AllTold(fails) => AllSynced(A)
    BY <1>0, FullSync
  <1> HIDE DEF A
  <1>2. /\ Basic(B)
        /\ B.daemon = A.daemon /\ B.pages = A.pages /\ B.past = A.past
        /\ B.gui.running = A.gui.running /\ B.gui.open = A.gui.open
        /\ B.gui.pending = A.gui.pending /\ B.gui.frozen = A.gui.frozen
        /\ B.gui.session = A.gui.session
        /\ B.files.layout = A.files.layout
        /\ B.files.groups \in {A.files.groups, 0, A.daemon.inst}
    BY <1>1, SaveGroupsStateEffect
  <1>3. T = IF k = "layout" THEN SaveLayout(B, fails) ELSE B  BY DEF SavedFor, SaveBoth, A
  <1> HIDE DEF B
  <1>4. /\ Basic(T)
        /\ T.daemon = B.daemon /\ T.pages = B.pages /\ T.past = B.past /\ T.gui = B.gui
        /\ T.files.groups = B.files.groups
        /\ T.files.layout = IF L THEN LayoutOf(T) ELSE B.files.layout
    <2>1. CASE k = "layout"
      <3>1. B.gui.open # {}  BY <1>1, <1>2 DEF SameScreen
      <3>2. T = SaveLayout(B, fails)  BY <1>3, <2>1
      <3> QED  BY <1>2, <2>1, <3>1, <3>2, SaveLayoutEffect
    <2>2. CASE k # "layout"
      <3>1. T = B  BY <1>3, <2>2
      <3> QED  BY <2>2, <3>1, <1>2
    <2> QED  BY <2>1, <2>2
  <1>5. /\ T.past = S.past /\ T.daemon.up = S.daemon.up /\ T.daemon.inst = S.daemon.inst
        /\ T.gui.running = S.gui.running /\ T.gui.open = S.gui.open
        /\ T.gui.pending = S.gui.pending /\ T.gui.frozen = S.gui.frozen
        /\ \A q \in Pages : /\ T.pages[q].win = S.pages[q].win
                            /\ T.pages[q].zoomed = S.pages[q].zoomed
        /\ ~L => T.files.layout = S.files.layout
    BY <1>1, <1>2, <1>4 DEF SameScreen
  <1>6. Orderly(T) /\ AllTold(fails) => AllSynced(T)
    <2>1. Orderly(T) <=> Orderly(A)  BY <1>2, <1>4 DEF Orderly
    <2>2. AllSynced(A) => AllSynced(T)  BY <1>2, <1>4 DEF AllSynced, Exists, Synced
    <2> QED  BY <1>1, <2>1, <2>2
  <1>7. T.files.groups \in Nat
    <2>1. A.files.groups = S.files.groups  BY <1>1 DEF SameScreen
    <2>2. A.daemon.inst \in Nat  BY <1>1 DEF Basic, DaemonOk
    <2> QED  BY <1>0, <1>2, <1>4, <2>1, <2>2 DEF Filed
  <1>8. LayoutOk(T)
    <2>1. CASE L  BY <1>4, <2>1, LayoutFiled
    <2>2. CASE ~L
      <3>1. T.files.layout = S.files.layout  BY <1>5, <2>2
      <3> QED  BY <1>0, <3>1 DEF Filed, LayoutFits, LayoutOk
    <2> QED  BY <2>1, <2>2
  <1> QED  BY <1>4, <1>5, <1>6, <1>7, <1>8

\* A save as a whole.
LEMMA SaveEffect ==
  ASSUME NEW S, Sound(S), S.gui.open # {}, NEW o, Covers(S, o), NEW fails, NEW k,
         NEW T, T = SaveFor(S, o, fails, k)
  PROVE  /\ Sound(T)
         /\ T.gui.running = S.gui.running /\ T.gui.open = S.gui.open
         /\ T.gui.pending = S.gui.pending /\ T.gui.frozen = S.gui.frozen
         /\ Orderly(T) /\ ~T.past.missed => AllSynced(T)
         /\ T.past.saved => T.files.groups = T.daemon.inst
         /\ k = "layout" /\ T.past.saved => T.files.layout = LayoutOf(T)
         /\ k # "layout" /\ T.past.saved =>
              /\ S.past.saved /\ T.files.layout = S.files.layout
              /\ LayoutOf(T) = LayoutOf(S)
  <1> DEFINE A == SavedFor(S, o, fails, k)
             F == Forget(A)
             m == \E f \in fails : f[2] \in {"new", "add"}
             listed == IF k = "layout" THEN <<"file", "layout">> \notin fails
                       ELSE S.past.saved /\ \A p \in Pages : F.pages[p].gid = S.pages[p].gid
             h == listed /\ F.files.groups = F.daemon.inst
  <1>0. GuiOk(S)  BY DEF Sound, Basic
  <1>1. T = [F EXCEPT !.past.missed = m, !.past.saved = h,
                      !.past.faults = IF fails = {} THEN @ ELSE @ + 1]
    BY DEF SaveFor, Save, SavedFor
  <1>2. /\ Basic(A) /\ LayoutOk(A) /\ A.files.groups \in Nat
        /\ A.gui.running = S.gui.running /\ A.gui.open = S.gui.open
        /\ A.gui.pending = S.gui.pending /\ A.gui.frozen = S.gui.frozen
        /\ \A q \in Pages : A.pages[q].win = S.pages[q].win
        /\ Orderly(A) /\ AllTold(fails) => AllSynced(A)
        /\ k = "layout" /\ <<"file", "layout">> \notin fails => A.files.layout = LayoutOf(A)
        /\ k # "layout" => A.files.layout = S.files.layout
    <2>1. A = SavedFor(S, o, fails, k)  OBVIOUS
    <2> HIDE DEF A
    <2> QED  BY ONLY <2>1, Sound(S), S.gui.open # {}, Covers(S, o), SaveBothEffect
  <1> HIDE DEF A
  <1>3. Shape(A) /\ GuiOk(A)  BY <1>2 DEF Basic
  <1>4. F = [A EXCEPT !.past.shown = None, !.past.era = 0]  BY DEF Forget
  <1> HIDE DEF F
  <1>5. /\ Shape(F) /\ F.daemon = A.daemon /\ F.pages = A.pages /\ F.gui = A.gui
        /\ F.files = A.files /\ F.past.foreign = A.past.foreign /\ F.past.era = 0
    BY <1>3, <1>4 DEF Shape
  <1> HIDE DEF m, h
  <1>6. /\ Shape(T) /\ T.daemon = A.daemon /\ T.pages = A.pages /\ T.gui = A.gui
        /\ T.files = A.files /\ T.past.foreign = A.past.foreign /\ T.past.era = 0
        /\ T.past.missed = m /\ T.past.saved = h
    <2> DEFINE f == IF fails = {} THEN F.past.faults ELSE F.past.faults + 1
    <2>1. /\ DOMAIN T = DOMAIN F /\ T.daemon = F.daemon /\ T.pages = F.pages
          /\ T.gui = F.gui /\ T.files = F.files
          /\ T.past = [F.past EXCEPT !.missed = m, !.saved = h, !.faults = f]
      BY <1>1, <1>5 DEF Shape
    <2> HIDE DEF f
    <2>2. /\ DOMAIN T.past = DOMAIN F.past /\ T.past.foreign = F.past.foreign
          /\ T.past.era = F.past.era /\ T.past.missed = m /\ T.past.saved = h
      BY <1>5, <2>1 DEF Shape
    <2> QED  BY <1>5, <2>1, <2>2 DEF Shape
  <1>7. /\ T.past.missed <=> ~AllTold(fails)
        /\ T.past.saved <=> listed /\ T.files.groups = T.daemon.inst
    BY <1>5, <1>6 DEF m, h, AllTold
  <1>8. GuiOk(T)  BY <1>0, <1>2, <1>3, <1>6 DEF GuiOk
  <1>9. Current(T) <=> Current(A)  BY <1>6 DEF Current
  <1>10. Basic(T)  BY <1>2, <1>6, <1>8, <1>9, BasicFrame
  <1>11. LayoutOk(T) /\ T.files.groups \in Nat  BY <1>2, <1>6 DEF LayoutOk, LayoutFits
  <1>12. Filed(T)  BY <1>7, <1>11 DEF Filed, LayoutOk
  <1>13. Sound(T)  BY <1>6, <1>10, <1>12 DEF Sound, EraOk
  <1>14. ASSUME Orderly(T), ~T.past.missed PROVE AllSynced(T)
    <2>1. Orderly(A)  BY <1>6, <1>14 DEF Orderly
    <2>2. AllSynced(A)  BY <1>2, <1>7, <1>14, <2>1
    <2> QED  BY <1>6, <2>2 DEF AllSynced, Exists, Synced
  <1>15. LayoutOf(T) = LayoutOf(A)  BY <1>6 DEF LayoutOf, GroupIds
  <1>16. ASSUME k # "layout", T.past.saved
         PROVE  /\ S.past.saved /\ T.files.layout = S.files.layout
                /\ LayoutOf(T) = LayoutOf(S)
    <2>1. S.past.saved /\ \A p \in Pages : A.pages[p].gid = S.pages[p].gid
      BY <1>5, <1>7, <1>16
    <2>2. \A w \in Windows : GroupIds(A, w) = GroupIds(S, w)  BY <1>2, <2>1 DEF GroupIds
    <2> QED  BY <1>2, <1>6, <1>15, <1>16, <2>1, <2>2 DEF LayoutOf
  <1> QED  BY <1>2, <1>6, <1>7, <1>13, <1>14, <1>15, <1>16


\* Only the history is written.
SamePlace(S, T) ==
  /\ T.daemon = S.daemon /\ T.pages = S.pages /\ T.gui = S.gui /\ T.files = S.files
  /\ T.past.foreign = S.past.foreign /\ T.past.missed = S.past.missed
  /\ T.past.saved = S.past.saved

\* A tab that is synced and listed can be restored.
LEMMA SyncedRestorable ==
  ASSUME NEW S, Basic(S), Orderly(S), \A p \in Pages : ~S.pages[p].zoomed,
         AllSynced(S), S.files.layout = LayoutOf(S),
         NEW T, SamePlace(S, T), T.past.shown = Shown(S)
  PROVE  Restorable(T)
  <1>0. DaemonOk(S) /\ TabsOk(S) /\ Arranged(S)  BY DEF Basic
  <1>1. /\ \A p \in Pages : PageArranged(S, p)
        /\ \A p, q \in Pages : p # q => Apart(S, p, q)
    BY <1>0 DEF Arranged, Orderly, Current
  <1>2. Alive(T) = Alive(S)  BY DEF Alive, SamePlace
  <1>3. \A p \in Pages : S.pages[p].win \in Windows => Synced(S, p)
    BY LayoutConstants DEF AllSynced, Exists
  <1>4. \A w \in Windows : T.files.layout[w] = GroupIds(S, w)  BY DEF LayoutOf, SamePlace
  <1>5. \A w \in Windows :
          T.past.shown[w] = {S.pages[p].panes : p \in {q \in Pages : S.pages[q].win = w}}
    BY DEF Shown
  <1>6. ASSUME NEW w \in Windows, NEW t \in T.past.shown[w]
        PROVE  /\ \A s \in t : s \in Nat /\ s < T.daemon.nextS
               /\ t \intersect Alive(T) # {} =>
                    \E g \in T.files.layout[w] : g \in DOMAIN T.daemon.groups /\ T.daemon.groups[g] = t
    <2>1. PICK p \in Pages : S.pages[p].win = w /\ t = S.pages[p].panes  BY <1>5, <1>6
    <2>2. Synced(S, p)  BY <1>3, <2>1
    <2>3. S.pages[p].gid # 0  BY <2>2, <1>0 DEF Synced, DaemonOk
    <2>4. S.pages[p].gid \in T.files.layout[w]  BY <1>4, <2>1, <2>3 DEF GroupIds
    <2>5. \A s \in t : s \in Nat /\ s < T.daemon.nextS
      BY <1>1, <2>1 DEF PageArranged, SamePlace
    <2> QED  BY <2>1, <2>2, <2>4, <2>5 DEF Synced, SamePlace
  <1>7. ASSUME NEW w \in Windows, NEW g \in T.files.layout[w]
        PROVE  \E p \in Pages : S.pages[p].win = w /\ S.pages[p].gid = g /\ g # 0
    BY <1>4, <1>7 DEF GroupIds
  <1>8. ASSUME NEW w \in Windows, NEW g \in T.files.layout[w] \intersect DOMAIN T.daemon.groups
        PROVE  /\ T.daemon.groups[g] \in T.past.shown[w]
               /\ \A s \in T.daemon.groups[g] \intersect DOMAIN T.daemon.sess :
                    T.daemon.sess[s].group = g
    <2>1. PICK p \in Pages : S.pages[p].win = w /\ S.pages[p].gid = g  BY <1>7
    <2>2. Synced(S, p)  BY <1>3, <2>1
    <2> QED  BY <1>5, <2>1, <2>2 DEF Synced, SamePlace
  <1>9. ASSUME NEW v \in Windows, NEW w \in Windows, v # w
        PROVE  T.files.layout[v] \intersect T.files.layout[w] = {}
    <2> SUFFICES ASSUME NEW g \in T.files.layout[v], g \in T.files.layout[w] PROVE FALSE
      OBVIOUS
    <2>1. PICK p \in Pages : S.pages[p].win = v /\ S.pages[p].gid = g /\ g # 0  BY <1>7
    <2>2. PICK q \in Pages : S.pages[q].win = w /\ S.pages[q].gid = g  BY <1>7
    <2>3. Apart(S, p, q)  BY <1>1, <1>9, <2>1, <2>2
    <2> QED  BY <2>1, <2>2, <2>3 DEF Apart
  <1> QED  BY <1>6, <1>8, <1>9 DEF Restorable

\* What a process remembers when it freezes or crashes can be restored.
LEMMA RememberSound ==
  ASSUME NEW S, Sound(S),
         Orderly(S) /\ ~S.past.missed /\ S.past.saved =>
           /\ AllSynced(S) /\ S.files.layout = LayoutOf(S)
           /\ S.files.groups = S.daemon.inst
  PROVE  Sound(Remember(S)) /\ SamePlace(S, Remember(S))
  <1> DEFINE T == Remember(S)
             C == /\ Orderly(S) /\ ~S.past.missed /\ S.past.saved
                  /\ \A p \in Pages : ~S.pages[p].zoomed
  <1>0. Shape(S) /\ Basic(S) /\ Filed(S) /\ DaemonOk(S) /\ GuiOk(S)  BY DEF Sound, Basic
  <1>1. CASE C
    <2>1. T = [S EXCEPT !.past.shown = Shown(S), !.past.era = S.daemon.inst]
      BY <1>1 DEF Remember
    <2> HIDE DEF T
    <2>2. /\ Shape(T) /\ SamePlace(S, T)
          /\ T.past.shown = Shown(S) /\ T.past.era = S.daemon.inst
      BY <2>1, <1>0 DEF Shape, SamePlace
    <2>3. Basic(T)  BY <2>2, <1>0, BasicFrame DEF SamePlace, GuiOk, Current
    <2>4. Filed(T)  BY <2>2, <1>0 DEF Filed, LayoutFits, SamePlace, Current
    <2>5. Restorable(T)  BY <2>2, <1>0, <1>1, SyncedRestorable
    <2>6. EraOk(T)  BY <2>2, <2>5, <1>0, <1>1 DEF EraOk, SamePlace, DaemonOk
    <2> QED  BY <2>2, <2>3, <2>4, <2>6 DEF Sound, T
  <1>2. CASE ~C
    <2>1. T = S  BY <1>2 DEF Remember
    <2> QED  BY <2>1 DEF SamePlace
  <1> QED  BY <1>1, <1>2

\* epimone_layout_begin_shutdown: the process saves, and freezes the files.
LEMMA BeginShutdownSound ==
  ASSUME NEW S, Sound(S), S.gui.open # {}, NEW o, S.gui.frozen \/ Covers(S, o), NEW fails
  PROVE  LET T == BeginShutdown(S, o, fails) IN Sound(T) /\ T.gui.frozen
  <1> DEFINE R == BeginShutdown(S, o, fails)
             A == Save(S, o, fails, TRUE)
             V == Remember(A)
  <1>0. GuiOk(S)  BY DEF Sound, Basic
  <1>1. CASE S.gui.frozen  BY <1>1 DEF BeginShutdown
  <1>2. CASE ~S.gui.frozen
    <2>1. R = [V EXCEPT !.gui.pending = "none", !.gui.frozen = TRUE]  BY <1>2 DEF BeginShutdown
    <2>2. /\ Sound(A) /\ A.gui.running = S.gui.running
          /\ Orderly(A) /\ ~A.past.missed => AllSynced(A)
          /\ A.past.saved => A.files.groups = A.daemon.inst /\ A.files.layout = LayoutOf(A)
      <3> DEFINE k == "layout"
      <3>1. A = SaveFor(S, o, fails, k)  BY DEF SaveFor, Save, SaveBoth
      <3>2. k = "layout"  OBVIOUS
      <3> HIDE DEF k, A
      <3>3. Covers(S, o)  BY <1>2
      <3>4. /\ Sound(A) /\ A.gui.running = S.gui.running
            /\ Orderly(A) /\ ~A.past.missed => AllSynced(A)
            /\ A.past.saved => A.files.groups = A.daemon.inst
            /\ k = "layout" /\ A.past.saved => A.files.layout = LayoutOf(A)
        BY ONLY <3>1, <3>3, Sound(S), S.gui.open # {}, SaveEffect
      <3> QED  BY <3>2, <3>4
    <2> HIDE DEF A
    <2>3. Sound(V) /\ SamePlace(A, V)  BY <2>2, RememberSound
    <2> HIDE DEF V
    <2>4. Shape(V) /\ GuiOk(V) /\ Basic(V)  BY <2>3 DEF Sound, Basic
    <2>5. /\ Shape(R) /\ R.daemon = V.daemon /\ R.pages = V.pages /\ R.files = V.files
          /\ R.past = V.past /\ R.gui.frozen /\ R.gui.pending = "none"
          /\ R.gui.running = V.gui.running /\ R.gui.open = V.gui.open
          /\ R.gui.session = V.gui.session /\ R.gui.recorded = V.gui.recorded
      <3>1. /\ DOMAIN R = DOMAIN V /\ R.daemon = V.daemon /\ R.pages = V.pages
            /\ R.files = V.files /\ R.past = V.past
            /\ R.gui = [V.gui EXCEPT !.pending = "none", !.frozen = TRUE]
        BY <2>1, <2>4 DEF Shape
      <3> HIDE DEF R
      <3> QED  BY <3>1, <2>4 DEF Shape
    <2> HIDE DEF R
    <2>6. V.gui.running  BY <1>0, <2>2, <2>3 DEF SamePlace, GuiOk
    <2>7. GuiOk(R)  BY <2>4, <2>5, <2>6 DEF GuiOk
    <2>8. Current(R) <=> Current(V)  BY <2>5 DEF Current
    <2>9. Basic(R)  BY <2>4, <2>5, <2>7, <2>8, BasicFrame
    <2>10. DaemonOk(R) /\ Filed(R) /\ EraOk(R)  BY <2>3, <2>5, <2>8, Framed
    <2> QED  BY <2>5, <2>9, <2>10 DEF Sound, R
  <1> QED  BY <1>1, <1>2

\* epimone_window_close_request_cb
LEMMA CloseRequestInv ==
  ASSUME NEW S, Sound(S), S.gui.open # {}, NEW o, S.gui.frozen \/ Covers(S, o),
         NEW fails, NEW w
  PROVE  Inv(CloseRequest(S, w, o, fails))
  <1> DEFINE T == BeginShutdown(S, o, fails)
  <1>1. Sound(T) /\ T.gui.frozen  BY BeginShutdownSound
  <1>2. CloseRequest(S, w, o, fails) = DropWindow(T, w)  BY DEF CloseRequest
  <1> HIDE DEF T
  <1> QED  BY <1>1, <1>2, DropWindowInv


\* A tab goes, and with the last one its window.
LEMMA DropPageInv ==
  ASSUME NEW S, Sound(S), NEW p \in Exists(S), NEW o, NEW fails,
         \/ S.gui.frozen
         \/ \E q \in Pages \ {p} : S.pages[q].win = S.pages[p].win
         \/ o \in SetToSeqs(Exists(S) \ {p})
  PROVE  Inv(DropPage(S, p, o, fails))
  <1> DEFINE w == S.pages[p].win
             T == [S EXCEPT !.pages[p] = NoPageRecord]
  <1>0. /\ Shape(S) /\ TabsOk(S) /\ GuiOk(S) /\ p \in Pages /\ w # NoWindow
    BY DEF Sound, Basic, Exists
  <1>1. S.gui.running /\ S.gui.open # {}  BY <1>0 DEF TabsOk, TabOk, GuiOk
  <1>2. DOMAIN NoPageRecord = TabFields  BY DEF NoPageRecord, TabFields
  <1>3. DropPage(S, p, o, fails) = IF \E q \in Pages : T.pages[q].win = w THEN ScheduleSave(T)
                            ELSE CloseRequest(T, w, o, fails)
    BY DEF DropPage
  <1>4. /\ DOMAIN T = DOMAIN S /\ T.daemon = S.daemon /\ T.files = S.files /\ T.past = S.past
        /\ T.gui = S.gui /\ DOMAIN T.pages = Pages
        /\ T.pages[p] = NoPageRecord /\ \A q \in Pages \ {p} : T.pages[q] = S.pages[q]
    BY <1>0 DEF Shape
  <1> HIDE DEF T
  <1>5. Shape(T)  BY <1>0, <1>2, <1>4 DEF Shape
  <1>6. GuiOk(T) /\ (Current(T) <=> Current(S))  BY <1>0, <1>4 DEF GuiOk, Current
  <1>7. \A q \in Pages : \/ Gone(T.pages[q])
                         \/ /\ T.pages[q] = S.pages[q]
                            /\ S.pages[q].win \in S.gui.open => S.pages[q].win \in T.gui.open
    BY <1>4 DEF Gone
  <1>8. Sound(T)  BY <1>4, <1>5, <1>6, <1>7, PagesGoneSound
  <1>9. T.pages[p].win = NoWindow  BY <1>4 DEF NoPageRecord
  <1>10. CASE \E q \in Pages : T.pages[q].win = w
    <2>1. DropPage(S, p, o, fails) = ScheduleSave(T)  BY <1>3, <1>10
    <2> QED  BY <2>1, <1>1, <1>4, <1>8, ScheduleSaveInv
  <1>11. CASE ~\E q \in Pages : T.pages[q].win = w
    <2>1. DropPage(S, p, o, fails) = CloseRequest(T, w, o, fails)  BY <1>3, <1>11
    <2>2. S.gui.frozen \/ o \in SetToSeqs(Exists(S) \ {p})  BY <1>4, <1>11
    <2>3. Exists(T) = Exists(S) \ {p}  BY <1>4, <1>9 DEF Exists
    <2>4. T.gui.frozen \/ Covers(T, o)
      <3>1. Exists(T) \subseteq Pages  BY DEF Exists
      <3> QED  BY <2>2, <2>3, <3>1, <1>4, OrdersCover
    <2> QED  BY <2>1, <2>4, <1>1, <1>4, <1>8, CloseRequestInv
  <1> QED  BY <1>10, <1>11

\* epimone_page_remove_terminal
LEMMA RemoveTerminalInv ==
  ASSUME NEW S, Sound(S), NEW p \in Exists(S), NEW s, NEW o, NEW fails,
         \/ S.gui.frozen
         \/ \E q \in Pages \ {p} : S.pages[q].win = S.pages[p].win
         \/ o \in SetToSeqs(Exists(S) \ {p})
  PROVE  Inv(RemoveTerminal(S, p, s, o, fails))
  <1> DEFINE U == Unzoom(S, p)
             T == [U EXCEPT !.pages[p].panes = @ \ {s}, !.pages[p].live = @ \ {s}]
  <1>0. TabsOk(S) /\ GuiOk(S) /\ p \in Pages /\ S.pages[p].win # NoWindow
    BY DEF Sound, Basic, Exists
  <1>1. S.gui.running /\ S.gui.open # {}  BY <1>0 DEF TabsOk, TabOk, GuiOk
  <1>2. /\ Sound(U)
        /\ U.gui.running = S.gui.running /\ U.gui.open = S.gui.open
        /\ U.gui.frozen = S.gui.frozen
        /\ \A q \in Pages : U.pages[q].win = S.pages[q].win /\ U.pages[q].panes = S.pages[q].panes
    BY <1>1, UnzoomSound
  <1>3. RemoveTerminal(S, p, s, o, fails) = IF S.pages[p].panes = {s} THEN DropPage(U, p, o, fails)
                                     ELSE ScheduleSave(T)
    BY DEF RemoveTerminal
  <1> HIDE DEF U
  <1>4. Exists(U) = Exists(S)  BY <1>2 DEF Exists
  <1>5. CASE S.pages[p].panes = {s}
    <2>1. RemoveTerminal(S, p, s, o, fails) = DropPage(U, p, o, fails)  BY <1>3, <1>5
    <2>2. p \in Exists(U)  BY <1>4
    <2>3. \/ U.gui.frozen
          \/ \E q \in Pages \ {p} : U.pages[q].win = U.pages[p].win
          \/ o \in SetToSeqs(Exists(U) \ {p})
      BY <1>0, <1>2, <1>4
    <2>4. Sound(U)  BY <1>2
    <2> QED  BY ONLY <2>1, <2>2, <2>3, <2>4, DropPageInv
  <1>6. CASE S.pages[p].panes # {s}
    <2>1. RemoveTerminal(S, p, s, o, fails) = ScheduleSave(T)  BY <1>3, <1>6
    <2>2. U.pages[p].panes # {s} /\ p \in Exists(U)  BY <1>0, <1>2, <1>4, <1>6
    <2>3. Sound(U)  BY <1>2
    <2>4. Sound(T) /\ T.gui = U.gui  BY ONLY <2>2, <2>3, PaneGoneSound
    <2> HIDE DEF T
    <2> QED  BY <2>1, <2>4, <1>1, <1>2, ScheduleSaveInv
  <1> QED  BY <1>5, <1>6

-----------------------------------------------------------------------------
(* The timer and the crashes *)


\* save_timeout_cb: the tabs are synced unless a request failed, and the list
\* is theirs unless a tab changed its group while layout.json was not due.
LEMMA SaveTimeoutInv ==
  ASSUME NEW S, Inv(S), S.gui.pending # "none", NEW o, Covers(S, o), NEW fails,
         NEW T, T = SaveFor(S, o, fails, S.gui.pending)
  PROVE  Inv([T EXCEPT !.gui.pending = "none"])
  <1> DEFINE k == S.gui.pending
             R == [T EXCEPT !.gui.pending = "none"]
  <1>0. Sound(S) /\ GuiOk(S) /\ Opened(S) /\ ListOk(S)  BY DEF Inv, Sound, Basic
  <1>1. S.gui.running /\ ~S.gui.frozen /\ S.gui.open # {} /\ k \in {"layout", "groups"}
    BY <1>0 DEF GuiOk, Opened
  <1>2. /\ Sound(T)
        /\ T.gui.running = S.gui.running /\ T.gui.open = S.gui.open
        /\ T.gui.frozen = S.gui.frozen
        /\ Orderly(T) /\ ~T.past.missed => AllSynced(T)
        /\ k = "layout" /\ T.past.saved => T.files.layout = LayoutOf(T)
        /\ k # "layout" /\ T.past.saved =>
             /\ S.past.saved /\ T.files.layout = S.files.layout
             /\ LayoutOf(T) = LayoutOf(S)
    <2>1. T = SaveFor(S, o, fails, k)  OBVIOUS
    <2> HIDE DEF k
    <2>2. Sound(S) /\ S.gui.open # {}  BY <1>0, <1>1
    <2> QED  BY ONLY <2>1, <2>2, Covers(S, o), SaveEffect
  <1>3. Shape(T) /\ GuiOk(T) /\ Basic(T)  BY <1>2 DEF Sound, Basic
  <1>4. /\ Shape(R) /\ R.daemon = T.daemon /\ R.pages = T.pages /\ R.files = T.files
        /\ R.past = T.past
        /\ R.gui.running = T.gui.running /\ R.gui.open = T.gui.open
        /\ R.gui.frozen = T.gui.frozen /\ R.gui.session = T.gui.session
        /\ R.gui.recorded = T.gui.recorded /\ R.gui.pending = "none"
    BY <1>3 DEF Shape
  <1> HIDE DEF R
  <1>5. GuiOk(R)  BY <1>1, <1>2, <1>3, <1>4 DEF GuiOk
  <1>6. Current(R) <=> Current(T)  BY <1>4 DEF Current
  <1>7. Basic(R)  BY <1>3, <1>4, <1>5, <1>6, BasicFrame
  <1>8. Filed(R) /\ EraOk(R)  BY <1>2, <1>4, <1>6, Framed
  <1>9. Opened(R)  BY <1>1, <1>2, <1>4 DEF Opened
  <1>10. LayoutOf(R) = LayoutOf(T)  BY <1>4 DEF LayoutOf, GroupIds
  <1>11. ASSUME T.past.saved PROVE T.files.layout = LayoutOf(T)
    <2>1. CASE k = "layout"  BY <1>2, <1>11, <2>1
    <2>2. CASE k # "layout"
      <3>1. S.files.layout = LayoutOf(S)  BY <1>0, <1>1, <1>2, <1>11, <2>2 DEF ListOk
      <3> QED  BY <1>2, <1>11, <2>2, <3>1
    <2> QED  BY <2>1, <2>2
  <1>12. ListOk(R)  BY <1>4, <1>10, <1>11 DEF ListOk
  <1>13. SyncOk(R)
    <2> SUFFICES ASSUME Orderly(R), ~R.past.missed PROVE AllSynced(R)
      BY DEF SyncOk
    <2>1. Orderly(T) /\ ~T.past.missed  BY <1>4 DEF Orderly
    <2>2. AllSynced(T)  BY <1>2, <2>1
    <2>3. R.pages = T.pages /\ R.daemon = T.daemon  BY <1>4
    <2> QED  BY ONLY <2>2, <2>3 DEF AllSynced, Exists, Synced
  <1> QED  BY <1>7, <1>8, <1>9, <1>12, <1>13 DEF Inv, Sound, R

\* The process crashes with nothing left to save, or with something.
LEMMA CrashInv ==
  ASSUME NEW S, Inv(S)
  PROVE  Inv(Vanish(IF S.gui.pending = "none" /\ ~S.gui.frozen THEN Remember(S) ELSE S))
  <1>0. Sound(S) /\ Filed(S) /\ SyncOk(S) /\ ListOk(S)  BY DEF Inv, Sound
  <1>1. CASE S.gui.pending = "none" /\ ~S.gui.frozen
    <2>1. Orderly(S) /\ ~S.past.missed /\ S.past.saved =>
            /\ AllSynced(S) /\ S.files.layout = LayoutOf(S)
            /\ S.files.groups = S.daemon.inst
      BY <1>0, <1>1 DEF SyncOk, ListOk, Settled, Orderly, Filed, Current
    <2> DEFINE T == Remember(S)
    <2>2. Sound(T)  BY <1>0, <2>1, RememberSound
    <2> HIDE DEF T
    <2>3. Inv(Vanish(T))  BY <2>2, VanishInv
    <2> QED  BY <1>1, <2>3 DEF T
  <1>2. CASE ~(S.gui.pending = "none" /\ ~S.gui.frozen)
    <2>1. Inv(Vanish(S))  BY <1>0, VanishInv
    <2> QED  BY <1>2, <2>1
  <1> QED  BY <1>1, <1>2

\* What the process remembered may be forgotten, whatever it was.
LEMMA ForgetSound ==
  ASSUME NEW S, Basic(S), Filed(S)
  PROVE  Sound(Forget(S))
  <1> DEFINE T == Forget(S)
  <1>0. Shape(S) /\ GuiOk(S)  BY DEF Basic
  <1>1. T = [S EXCEPT !.past.shown = None, !.past.era = 0]  BY DEF Forget
  <1> HIDE DEF T
  <1>2. Shape(T) /\ SamePlace(S, T) /\ T.past.era = 0  BY <1>0, <1>1 DEF Shape, SamePlace
  <1>3. Basic(T)  BY <1>0, <1>2, BasicFrame DEF SamePlace, GuiOk, Current
  <1>4. Filed(T)  BY <1>2 DEF Filed, LayoutFits, SamePlace, Current
  <1> QED  BY <1>2, <1>3, <1>4 DEF Sound, EraOk, T

\* The process dies within save_timeout_cb, before groups.json or after it.
LEMMA CrashInSaveInv ==
  ASSUME NEW S, Sound(S), NEW o, Covers(S, o)
  PROVE  LET T == SyncGroups(S, o, {}) IN
         /\ Inv(Vanish(IF S.past.era = S.daemon.inst THEN Forget(T) ELSE T))
         /\ Inv(Vanish(Forget(SaveGroupsState(T, {}))))
  <1> DEFINE T == SyncGroups(S, o, {})
             U == SaveGroupsState(T, {})
  <1>0. Basic(S) /\ Filed(S) /\ EraOk(S)  BY DEF Sound
  <1>1. Basic(T) /\ SameScreen(S, T)  BY <1>0, FullSync
  <1> HIDE DEF T
  <1>2. Filed(T)  BY <1>0, <1>1 DEF Filed, LayoutFits, SameScreen, Current
  <1>3. Inv(Vanish(IF S.past.era = S.daemon.inst THEN Forget(T) ELSE T))
    <2>1. CASE S.past.era = S.daemon.inst
      <3> DEFINE F == Forget(T)
      <3>1. Sound(F)  BY <1>1, <1>2, ForgetSound
      <3> HIDE DEF F
      <3>2. Inv(Vanish(F))  BY <3>1, VanishInv
      <3>3. (IF S.past.era = S.daemon.inst THEN Forget(T) ELSE T) = F  BY <2>1 DEF F
      <3> QED  BY <3>2, <3>3
    <2>2. CASE S.past.era # S.daemon.inst
      <3>1. EraOk(T)  BY <1>0, <1>1, <2>2 DEF EraOk, SameScreen
      <3>2. Sound(T)  BY <1>1, <1>2, <3>1 DEF Sound
      <3>3. Inv(Vanish(T))  BY <3>2, VanishInv
      <3>4. (IF S.past.era = S.daemon.inst THEN Forget(T) ELSE T) = T  BY <2>2
      <3> QED  BY <3>3, <3>4
    <2> QED  BY <2>1, <2>2
  <1>4. Inv(Vanish(Forget(U)))
    <2>1. /\ Basic(U) /\ U.past = T.past /\ U.daemon = T.daemon
          /\ U.files.layout = T.files.layout
          /\ U.files.groups = IF T.daemon.up THEN T.daemon.inst ELSE 0
      BY <1>1, SaveGroupsStateEffect
    <2> HIDE DEF U
    <2>2. T.daemon.inst \in Nat  BY <1>1 DEF Basic, DaemonOk
    <2>3. LayoutFits(U)  BY <1>2, <2>1 DEF Filed, LayoutFits
    <2>4. Filed(U)  BY <1>2, <2>1, <2>2, <2>3 DEF Filed, Current
    <2> DEFINE F == Forget(U)
    <2>5. Sound(F)  BY <2>1, <2>4, ForgetSound
    <2> HIDE DEF F
    <2>6. Inv(Vanish(F))  BY <2>5, VanishInv
    <2> QED  BY <2>6 DEF F
  <1> QED  BY <1>3, <1>4 DEF T, U


-----------------------------------------------------------------------------
(* The handlers *)

OverviewInv == Inv(State)

\* The invariant depends on the parts of a state.
LEMMA SameParts ==
  ASSUME NEW T, Inv(T), NEW R, Shape(R), R.daemon = T.daemon, R.pages = T.pages,
         R.gui = T.gui, R.files = T.files, R.past = T.past
  PROVE  Inv(R)
  <1>0. Sound(T) /\ Basic(T) /\ GuiOk(T) /\ Opened(T) /\ ListOk(T) /\ SyncOk(T)
    BY DEF Inv, Sound, Basic
  <1>1. GuiOk(R) /\ (Current(R) <=> Current(T))  BY <1>0 DEF GuiOk, Current
  <1>2. Basic(R)  BY <1>0, <1>1, BasicFrame
  <1>3. Filed(R) /\ EraOk(R)  BY <1>0, <1>1, Framed
  <1>4. Opened(R)  BY <1>0 DEF Opened
  <1>5. ListOk(R)  BY <1>0 DEF ListOk, LayoutOf, GroupIds
  <1>6. SyncOk(R)
    BY <1>0 DEF SyncOk, Orderly, Settled, AllSynced, Exists, Synced
  <1> QED  BY <1>2, <1>3, <1>4, <1>5, <1>6 DEF Inv, Sound

\* A handler whose result is sound leaves a sound state.
LEMMA BecomesInv ==
  ASSUME NEW T, Inv(T), Becomes(T)
  PROVE  OverviewInv'
  <1> DEFINE R == State'
  <1>1. /\ R.daemon = T.daemon /\ R.pages = T.pages /\ R.gui = T.gui
        /\ R.files = T.files /\ R.past = T.past
        /\ DOMAIN R = {"daemon", "pages", "gui", "files", "past"}
    BY DEF Becomes, State
  <1>2. Shape(T)  BY DEF Inv, Sound, Basic
  <1> HIDE DEF R
  <1>3. Shape(R)  BY <1>1, <1>2 DEF Shape
  <1>4. Inv(R)  BY <1>1, <1>3, SameParts
  <1> QED  BY <1>4 DEF OverviewInv, R

\* Nothing runs before the first start.
LEMMA InitInv ==
  Init => OverviewInv
  <1> SUFFICES ASSUME Init PROVE Inv(State)
    BY DEF OverviewInv
  <1> DEFINE S == State
  <1>1. /\ S.daemon = NewDaemon(1, 0) /\ S.pages = [p \in Pages |-> NoPageRecord]
        /\ S.gui = NoGui /\ S.files = [layout |-> None, groups |-> 0, of |-> 0] /\ S.past = NoPast
        /\ DOMAIN S = {"daemon", "pages", "gui", "files", "past"}
    BY DEF Init, State
  <1> HIDE DEF S
  <1>2. /\ S.daemon.up = TRUE /\ S.daemon.inst = 1 /\ S.daemon.sess = <<>> /\ S.daemon.groups = <<>>
        /\ S.daemon.nextS = 1 /\ S.daemon.nextG = 1
    BY <1>1 DEF NewDaemon
  <1>3. DOMAIN S.daemon.sess = {} /\ DOMAIN S.daemon.groups = {}  BY <1>2
  <1>4. \A p \in Pages : S.pages[p] = NoPageRecord  BY <1>1
  <1>5. Shape(S)
    BY <1>1 DEF Shape, NewDaemon, NoPageRecord, NoGui, NoPast, TabFields
  <1>6. DaemonOk(S)  BY <1>2, <1>3 DEF DaemonOk
  <1>7. TabsOk(S)  BY <1>4 DEF TabsOk, TabOk, NoPageRecord
  <1>8. /\ ~S.gui.running /\ S.gui.open = {} /\ S.gui.pending = "none" /\ ~S.gui.frozen
        /\ S.gui.session = 0 /\ S.gui.recorded = 0
    BY <1>1 DEF NoGui
  <1>9. ~S.past.foreign /\ ~S.past.saved /\ S.past.era = 0  BY <1>1 DEF NoPast
  <1>10. GuiOk(S)  BY <1>2, <1>8, <1>9 DEF GuiOk
  <1>11. Arranged(S)  BY <1>8 DEF Arranged, Current
  <1>12. S.files.layout = None /\ S.files.groups = 0  BY <1>1
  <1>13. \A w \in Windows : S.files.layout[w] = {}  BY <1>12 DEF None
  <1>14. LayoutFits(S)
    <2> DEFINE f == [p \in Pages |-> <<NoWindow, 0>>]
    <2>1. f \in [Pages -> (Windows \union {NoWindow}) \X Nat]  OBVIOUS
    <2> QED  BY <2>1, <1>13 DEF LayoutFits
  <1>15. Filed(S)  BY <1>8, <1>12, <1>13, <1>14 DEF Filed, Current, None
  <1>16. EraOk(S)  BY <1>9 DEF EraOk
  <1>17. Opened(S) /\ ListOk(S) /\ SyncOk(S)  BY <1>8 DEF Opened, ListOk, SyncOk, Orderly
  <1> QED  BY <1>5, <1>6, <1>7, <1>10, <1>11, <1>15, <1>16, <1>17 DEF Inv, Sound, Basic, S

\* epimone_window_add_tab
LEMMA NewTabInv ==
  ASSUME OverviewInv, NEW w \in Windows, NewTab(w)
  PROVE  OverviewInv'
  <1> DEFINE S == State
             T == AddTab(S, w)
  <1>1. S.gui = gui /\ S.daemon = daemon  BY DEF State
  <1>2. S.gui.running /\ S.daemon.up /\ w \in S.gui.open /\ HasFreshPage(S) /\ Becomes(T)
    BY <1>1 DEF NewTab, UserActs
  <1>3. Inv(S) /\ Sound(S)  BY DEF OverviewInv, Inv
  <1> HIDE DEF S
  <1>4. Inv(T)  BY ONLY <1>2, <1>3, AddTabSound
  <1> HIDE DEF T
  <1> QED  BY ONLY <1>2, <1>4, BecomesInv


\* The orders of a sync cover the tabs.
LEMMA OrderCovers ==
  ASSUME NEW x \in SetToSeqs(Exists(State))
  PROVE  Covers(State, x)
  <1> DEFINE S == State
  <1>1. Exists(S) \subseteq Pages  BY DEF Exists
  <1> HIDE DEF S
  <1>2. x \in SetToSeqs(Exists(S)) => Covers(S, x)  BY <1>1, OrdersCover
  <1> QED  BY <1>2 DEF S

\* When a window is closed, unless nothing is saved any more.
LEMMA OrderCoversAtClose ==
  ASSUME NEW o \in OrdersAtClose
  PROVE  State.gui.frozen \/ Covers(State, o[1])
  <1>1. gui.frozen \/ o[1] \in SetToSeqs(Exists(State))  BY DEF OrdersAtClose, Orders
  <1>2. gui.frozen \/ Covers(State, o[1])  BY <1>1, OrderCovers
  <1> QED  BY <1>2 DEF State

\* Without a tab that goes, they cover the others when its window goes too.
LEMMA OrderCoversOthers ==
  ASSUME NEW p \in Exists(State), NEW o \in OrdersWithout(p)
  PROVE  \/ State.gui.frozen
         \/ \E q \in Pages \ {p} : State.pages[q].win = State.pages[p].win
         \/ o[1] \in SetToSeqs(Exists(State) \ {p})
  <1>1. State.pages = pages /\ State.gui = gui  BY DEF State
  <1>2. p \in Tabs(pages[p].win)  BY <1>1 DEF Exists, Tabs
  <1>3. CASE Tabs(pages[p].win) # {p}
    <2>1. PICK q \in Tabs(pages[p].win) : q # p  BY <1>2, <1>3
    <2>2. q \in Pages \ {p} /\ pages[q].win = pages[p].win  BY <2>1 DEF Tabs
    <2> QED  BY <2>2, <1>1
  <1>4. CASE Tabs(pages[p].win) = {p}  BY <1>1, <1>4 DEF OrdersWithout
  <1> QED  BY <1>3, <1>4

\* What ScheduleSave leaves alone.
LEMMA ScheduleSaveEffect ==
  ASSUME NEW S, Shape(S), NEW T, T = ScheduleSave(S)
  PROVE  /\ T.daemon = S.daemon /\ T.pages = S.pages /\ T.files = S.files /\ T.past = S.past
         /\ T.gui.running = S.gui.running /\ T.gui.open = S.gui.open
         /\ T.gui.frozen \/ T.gui.pending = "layout"
  BY DEF Shape, ScheduleSave

\* A tab is in a window that is open, in a process that runs.
LEMMA TabIsOpen ==
  ASSUME NEW S, Sound(S), NEW p \in Exists(S)
  PROVE  /\ p \in Pages /\ S.pages[p].win # NoWindow
         /\ S.pages[p].win \in S.gui.open /\ S.gui.running
  BY DEF Sound, Basic, TabsOk, TabOk, GuiOk, Exists

\* A tab's pane splits: a session is created and attached beside it.
LEMMA SplitInv ==
  ASSUME OverviewInv, NEW p \in Pages, Split(p)
  PROVE  OverviewInv'
  <1> DEFINE S == State
             n == S.daemon.nextS
             C == CreateSession(S)
             U == Unzoom(C, p)
             A == AttachSessions(WithPane(U, p, n), p, {n})
             T == ScheduleSave(A)
  <1>1. S.daemon = daemon  BY DEF State
  <1>2. S.daemon.up /\ p \in Exists(S)  BY <1>1 DEF Split, UserActs
  <1>3. Becomes(T)  BY <1>1 DEF Split, WithPane
  <1>4. Inv(S) /\ Sound(S)  BY DEF OverviewInv, Inv
  <1> HIDE DEF S
  <1>5. S.gui.running /\ S.gui.open # {} /\ p \in Pages  BY <1>2, <1>4, TabIsOpen
  <1>6. Sound(C)  BY <1>2, <1>4, CreateSound
  <1>7. Shape(S) /\ DaemonOk(S) /\ TabsOk(S) /\ Arranged(S)  BY <1>4 DEF Sound, Basic
  <1>8. /\ C.pages = S.pages /\ C.gui = S.gui /\ C.past = S.past
        /\ C.daemon.up = S.daemon.up /\ C.daemon.inst = S.daemon.inst
        /\ n \in DOMAIN C.daemon.sess /\ C.daemon.sess[n] = [alive |-> TRUE, group |-> 0]
    BY <1>7, CreateEffect
  <1> HIDE DEF C
  <1>9. p \in Exists(C) /\ C.gui.running  BY <1>2, <1>5, <1>8 DEF Exists
  <1>10. /\ Sound(U)
         /\ U.daemon = C.daemon /\ U.past = C.past
         /\ U.gui.running = C.gui.running /\ U.gui.open = C.gui.open
         /\ U.gui.session = C.gui.session
         /\ \A q \in Pages : /\ U.pages[q].win = C.pages[q].win
                             /\ U.pages[q].panes = C.pages[q].panes
                             /\ U.pages[q].live = C.pages[q].live
                             /\ U.pages[q].enrolled = C.pages[q].enrolled
    BY ONLY <1>6, <1>9, UnzoomSound, ZenonT(40)
  <1> HIDE DEF U
  <1>11. p \in Exists(U) /\ n \in Alive(U)  BY <1>8, <1>9, <1>10 DEF Exists, Alive
  <1>12. \A q \in Pages : n \notin U.pages[q].live
    BY <1>7, <1>8, <1>10 DEF TabsOk, TabOk, Alive, DaemonOk
  <1>13. ASSUME Current(U), ~U.past.foreign, NEW q \in Pages
         PROVE  n \notin U.pages[q].panes /\ n \notin U.pages[q].enrolled
    <2>1. Current(S) /\ ~S.past.foreign  BY <1>13, <1>8, <1>10 DEF Current
    <2>2. PageArranged(S, q)  BY <2>1, <1>7 DEF Arranged
    <2> QED  BY <2>2, <1>7, <1>8, <1>10 DEF PageArranged, DaemonOk
  <1>14. Sound(A) /\ A.gui = U.gui
    BY ONLY <1>10, <1>11, <1>12, <1>13, NewPaneSound
  <1> HIDE DEF A
  <1>15. A.gui.running /\ A.gui.open # {}  BY <1>5, <1>8, <1>10, <1>14
  <1>16. Inv(T)  BY <1>14, <1>15, ScheduleSaveInv
  <1> HIDE DEF T
  <1> QED  BY ONLY <1>3, <1>16, BecomesInv

\* A live pane is closed by the user.
LEMMA ClosePaneInv ==
  ASSUME OverviewInv, NEW p \in Pages, NEW s, ClosePane(p, s)
  PROVE  OverviewInv'
  <1>1. s \in State.pages[p].live  BY DEF ClosePane, State
  <1>2. PICK o \in OrdersWithout(p) : Becomes(RemoveTerminal(State, p, s, o[1], o[2]))  BY DEF ClosePane
  <1>3. Sound(State)  BY DEF OverviewInv, Inv
  <1>4. p \in Exists(State)  BY <1>1, <1>3 DEF Sound, Basic, TabsOk, TabOk, Exists
  <1> DEFINE S == State
             T == RemoveTerminal(S, p, s, o[1], o[2])
  <1>5. \/ S.gui.frozen
        \/ \E q \in Pages \ {p} : S.pages[q].win = S.pages[p].win
        \/ o[1] \in SetToSeqs(Exists(S) \ {p})
    BY <1>4, OrderCoversOthers
  <1> HIDE DEF S
  <1>6. Sound(S) /\ p \in Exists(S) /\ Becomes(T)  BY <1>2, <1>3, <1>4 DEF S
  <1>7. Inv(T)  BY ONLY <1>5, <1>6, RemoveTerminalInv
  <1> HIDE DEF T
  <1> QED  BY ONLY <1>6, <1>7, BecomesInv

\* on_death_idle: a pane whose channel has ended goes, and a session that is
\* dead is killed.
LEMMA PaneDiesInv ==
  ASSUME OverviewInv, NEW p \in Pages, NEW s, PaneDies(p, s)
  PROVE  OverviewInv'
  <1> DEFINE S == State
             K == IF s \in Alive(S) THEN S ELSE Kill(S, {s})
  <1>1. s \in S.pages[p].panes  BY DEF PaneDies, State
  <1>2. PICK o \in OrdersWithout(p) : Becomes(RemoveTerminal(K, p, s, o[1], o[2]))  BY DEF PaneDies
  <1>3. Sound(S)  BY DEF OverviewInv, Inv
  <1>4. p \in Exists(S)  BY <1>1, <1>3 DEF Sound, Basic, TabsOk, TabOk, Exists
  <1> DEFINE T == RemoveTerminal(K, p, s, o[1], o[2])
  <1>5. \/ S.gui.frozen
        \/ \E q \in Pages \ {p} : S.pages[q].win = S.pages[p].win
        \/ o[1] \in SetToSeqs(Exists(S) \ {p})
    BY <1>4, OrderCoversOthers
  <1> HIDE DEF S
  <1>6. Sound(K) /\ K.gui = S.gui /\ \A q \in Pages : K.pages[q].win = S.pages[q].win
    <2>1. CASE s \in Alive(S)  BY <1>3, <2>1
    <2>2. CASE s \notin Alive(S)
      <3> DEFINE L == Kill(S, {s})
      <3>1. Shape(S)  BY <1>3 DEF Sound, Basic
      <3>2. L.gui = S.gui /\ \A q \in Pages : SameTab(S.pages[q], L.pages[q])
        BY <3>1, KillEffect
      <3>3. Sound(L)  BY <1>3, KillSound
      <3>4. K = L  BY <2>2
      <3> HIDE DEF L, K
      <3> QED  BY <3>2, <3>3, <3>4 DEF SameTab
    <2> QED  BY <2>1, <2>2
  <1> HIDE DEF K
  <1>7. Exists(K) = Exists(S) /\ p \in Exists(K)  BY <1>4, <1>6 DEF Exists
  <1>8. \/ K.gui.frozen
        \/ \E q \in Pages \ {p} : K.pages[q].win = K.pages[p].win
        \/ o[1] \in SetToSeqs(Exists(K) \ {p})
    BY <1>5, <1>6, <1>7
  <1>9. Inv(T)  BY ONLY <1>6, <1>7, <1>8, RemoveTerminalInv
  <1>10. Becomes(T)  BY <1>2
  <1> HIDE DEF T
  <1> QED  BY ONLY <1>9, <1>10, BecomesInv

\* A tab is closed by the user.
LEMMA CloseTabInv ==
  ASSUME OverviewInv, NEW p \in Pages, CloseTab(p)
  PROVE  OverviewInv'
  <1> DEFINE S == State
  <1>1. p \in Exists(S)  BY DEF CloseTab
  <1>2. PICK o \in OrdersWithout(p) : Becomes(DropPage(S, p, o[1], o[2]))  BY DEF CloseTab
  <1>3. Sound(S)  BY DEF OverviewInv, Inv
  <1> DEFINE T == DropPage(S, p, o[1], o[2])
  <1>4. \/ S.gui.frozen
        \/ \E q \in Pages \ {p} : S.pages[q].win = S.pages[p].win
        \/ o[1] \in SetToSeqs(Exists(S) \ {p})
    BY <1>1, OrderCoversOthers
  <1> HIDE DEF S
  <1>5. Inv(T)  BY ONLY <1>1, <1>3, <1>4, DropPageInv
  <1>6. Becomes(T)  BY <1>2
  <1> HIDE DEF T
  <1> QED  BY ONLY <1>5, <1>6, BecomesInv

\* A window is closed by the user.
LEMMA CloseWindowInv ==
  ASSUME OverviewInv, NEW w \in Windows, CloseWindow(w)
  PROVE  OverviewInv'
  <1> DEFINE S == State
  <1>1. S.gui.open # {}  BY DEF CloseWindow, State
  <1>2. PICK o \in OrdersAtClose : Becomes(CloseRequest(S, w, o[1], o[2]))  BY DEF CloseWindow
  <1>3. Sound(S)  BY DEF OverviewInv, Inv
  <1> DEFINE T == CloseRequest(S, w, o[1], o[2])
  <1>4. S.gui.frozen \/ Covers(S, o[1])  BY OrderCoversAtClose
  <1> HIDE DEF S
  <1>5. Inv(T)  BY ONLY <1>1, <1>3, <1>4, CloseRequestInv
  <1>6. Becomes(T)  BY <1>2
  <1> HIDE DEF T
  <1> QED  BY ONLY <1>5, <1>6, BecomesInv


\* The focused pane moves to a tab of its own.
LEMMA OpenInNewTabInv ==
  ASSUME OverviewInv, NEW p \in Pages, NEW s, OpenInNewTab(p, s)
  PROVE  OverviewInv'
  <1> DEFINE S == State
             U == Unzoom(S, p)
             V == ScheduleSave(U)
             q == FreshPage(V)
             w == V.pages[p].win
             l == V.pages[p].live \intersect {s}
             T == MovedPane(PutPage(V, q, w, {s}), p, q, s, l)
  <1>1. Inv(S) /\ Sound(S)  BY DEF OverviewInv, Inv
  <1>2. s \in S.pages[p].panes /\ S.pages[p].panes # {s} /\ HasFreshPage(S)
    BY DEF OpenInNewTab, State
  <1>3. p \in Exists(S)
    BY <1>1, <1>2 DEF Sound, Basic, TabsOk, TabOk, Exists
  <1>4. Becomes(MovedPane(PutPage(V, q, S.pages[p].win, {s}), p, q, s, S.pages[p].live \intersect {s}))
    BY DEF OpenInNewTab, MovedPane, State
  <1> HIDE DEF S
  <1>5. S.gui.running /\ S.gui.open # {}  BY <1>1, <1>3, TabIsOpen
  <1>6. /\ Sound(U)
        /\ U.gui.running = S.gui.running /\ U.gui.open = S.gui.open
        /\ \A r \in Pages : /\ U.pages[r].win = S.pages[r].win
                            /\ U.pages[r].panes = S.pages[r].panes
                            /\ U.pages[r].live = S.pages[r].live
    BY ONLY <1>1, <1>3, <1>5, UnzoomSound
  <1> HIDE DEF U
  <1>7. Shape(U) /\ U.gui.running /\ U.gui.open # {}  BY <1>5, <1>6 DEF Sound, Basic
  <1>8. /\ V.pages = U.pages
        /\ V.gui.running = U.gui.running /\ V.gui.open = U.gui.open
        /\ V.gui.frozen \/ V.gui.pending = "layout"
    BY <1>7, ScheduleSaveEffect
  <1>9. Sound(V)
    <2>1. Inv(V)  BY <1>6, <1>7, ScheduleSaveInv
    <2> QED  BY <2>1 DEF Inv
  <1> HIDE DEF V
  <1>10. w = S.pages[p].win /\ V.pages[p].live = S.pages[p].live
         /\ V.pages[p].panes = S.pages[p].panes
    BY <1>6, <1>8
  <1>11. Becomes(T)  BY <1>4, <1>10
  <1>12. p \in Exists(V) /\ s \in V.pages[p].panes /\ V.pages[p].panes # {s}
    BY <1>2, <1>3, <1>6, <1>8 DEF Exists
  <1>13. q \in Pages /\ V.pages[q].win = NoWindow
    <2>1. HasFreshPage(V)  BY <1>2, <1>6, <1>8 DEF HasFreshPage
    <2> QED  BY <2>1, FreshPageUnused
  <1> HIDE DEF q
  <1>14. Sound(T) /\ T.gui = V.gui
    BY ONLY <1>9, <1>12, <1>13, MovedPaneSound, ZenonT(40)
  <1> HIDE DEF T
  <1>15. Inv(T)  BY <1>14, <1>7, <1>8, WaitingInv
  <1> QED  BY ONLY <1>11, <1>15, BecomesInv

\* A window is opened for a tab, or for a group.
LEMMA OpenWindowSound ==
  ASSUME NEW S, Sound(S), S.gui.running, NEW w \in Windows
  PROVE  LET T == [S EXCEPT !.gui.open = @ \union {w}] IN
         /\ Sound(T) /\ T.gui.running /\ w \in T.gui.open
         /\ T.pages = S.pages /\ T.daemon = S.daemon /\ T.files = S.files /\ T.past = S.past
         /\ T.gui.session = S.gui.session /\ T.gui.recorded = S.gui.recorded
         /\ T.gui.open = S.gui.open \union {w}
  <1> DEFINE T == [S EXCEPT !.gui.open = @ \union {w}]
  <1>0. Shape(S) /\ GuiOk(S) /\ TabsOk(S)  BY DEF Sound, Basic
  <1>1. /\ Shape(T) /\ T.daemon = S.daemon /\ T.pages = S.pages /\ T.files = S.files /\ T.past = S.past
        /\ T.gui.running = S.gui.running /\ T.gui.open = S.gui.open \union {w}
        /\ T.gui.frozen = S.gui.frozen /\ T.gui.pending = S.gui.pending
        /\ T.gui.session = S.gui.session /\ T.gui.recorded = S.gui.recorded
    BY <1>0 DEF Shape
  <1> HIDE DEF T
  <1>2. GuiOk(T) /\ (Current(T) <=> Current(S))  BY <1>0, <1>1 DEF GuiOk, Current
  <1>3. \A q \in Pages : TabOk(T, q)  BY <1>0, <1>1 DEF TabsOk, TabOk, Alive
  <1>4. \A q \in Pages : Shrunk(S.pages[q], T.pages[q])  BY <1>1 DEF Shrunk
  <1>5. Sound(T)  BY <1>1, <1>2, <1>3, <1>4, ShrinkSound
  <1> QED  BY <1>1, <1>5 DEF T

\* A tab is in another window.
InWindow(S, p, w) == [S EXCEPT !.pages[p].win = w]

\* A tab moves to another window that is open.
LEMMA MoveSound ==
  ASSUME NEW S, Sound(S), NEW p \in Exists(S), NEW w \in S.gui.open
  PROVE  LET T == InWindow(S, p, w) IN Sound(T) /\ T.gui = S.gui
  <1> DEFINE T == InWindow(S, p, w)
  <1>0. Shape(S) /\ GuiOk(S) /\ TabsOk(S) /\ p \in Pages /\ S.pages[p].win # NoWindow
    BY DEF Sound, Basic, Exists
  <1>1. /\ DOMAIN T = DOMAIN S /\ T.daemon = S.daemon /\ T.gui = S.gui /\ T.files = S.files
        /\ T.past = S.past /\ DOMAIN T.pages = Pages
        /\ T.pages[p] = [S.pages[p] EXCEPT !.win = w]
        /\ \A q \in Pages \ {p} : T.pages[q] = S.pages[q]
    BY <1>0 DEF Shape, TabFields, InWindow
  <1> HIDE DEF T
  <1>2. DOMAIN S.pages[p] = TabFields  BY <1>0 DEF Shape
  <1>3. /\ T.pages[p].win = w /\ T.pages[p].panes = S.pages[p].panes
        /\ T.pages[p].live = S.pages[p].live /\ T.pages[p].gid = S.pages[p].gid
        /\ T.pages[p].enrolled = S.pages[p].enrolled
        /\ T.pages[p].zoomed = S.pages[p].zoomed /\ DOMAIN T.pages[p] = TabFields
    BY ONLY <1>1, <1>2 DEF TabFields
  <1>4. ASSUME NEW r \in Pages PROVE DOMAIN T.pages[r] = TabFields
    <2>1. DOMAIN S.pages[r] = TabFields  BY <1>0 DEF Shape
    <2>2. r = p \/ T.pages[r] = S.pages[r]  BY <1>1
    <2>3. DOMAIN T.pages[p] = TabFields  BY <1>3
    <2> QED  BY ONLY <2>1, <2>2, <2>3
  <1>5. Shape(T)  BY <1>0, <1>1, <1>4 DEF Shape
  <1>6. GuiOk(T) /\ (Current(T) <=> Current(S))  BY <1>0, <1>1 DEF GuiOk, Current
  <1>7. Alive(T) = Alive(S) /\ w # NoWindow
    BY <1>0, <1>1, LayoutConstants DEF Alive, GuiOk
  <1>8. TabOk(T, p)  BY <1>0, <1>1, <1>3, <1>7 DEF TabsOk, TabOk
  <1>9. \A r \in Pages \ {p} : TabOk(T, r)  BY <1>0, <1>1, <1>7 DEF TabsOk, TabOk
  <1>10. \A r \in Pages : Shrunk(S.pages[r], T.pages[r])  BY <1>1, <1>3 DEF Shrunk
  <1>11. Sound(T)  BY <1>1, <1>5, <1>6, <1>8, <1>9, <1>10, ShrinkSound
  <1> QED  BY <1>1, <1>11 DEF T

\* A tab moves to a window of its own.
LEMMA MoveToNewWindowInv ==
  ASSUME OverviewInv, NEW p \in Pages, NEW w \in Windows, MoveToNewWindow(p, w)
  PROVE  OverviewInv'
  <1> DEFINE S == State
             O == [S EXCEPT !.gui.open = @ \union {w}]
             M == InWindow(O, p, w)
             T == ScheduleSave(M)
  <1>1. Inv(S) /\ Sound(S)  BY DEF OverviewInv, Inv
  <1>2. p \in Exists(S) /\ Becomes(ScheduleSave([S EXCEPT !.pages[p].win = w, !.gui.open = @ \union {w}]))
    BY DEF MoveToNewWindow
  <1> HIDE DEF S
  <1>3. S.gui.running  BY <1>1, <1>2, TabIsOpen
  <1>4. [S EXCEPT !.pages[p].win = w, !.gui.open = @ \union {w}] = M
    BY <1>1 DEF Sound, Basic, Shape, InWindow
  <1>5. /\ Sound(O) /\ O.gui.running /\ w \in O.gui.open
        /\ O.pages = S.pages
    BY ONLY <1>1, <1>3, w \in Windows, OpenWindowSound
  <1> HIDE DEF O
  <1>6. p \in Exists(O)  BY <1>2, <1>5 DEF Exists
  <1>7. Sound(M) /\ M.gui = O.gui  BY ONLY <1>5, <1>6, MoveSound
  <1>8. Becomes(T)  BY <1>2, <1>4
  <1> HIDE DEF M
  <1>9. Inv(T)  BY <1>5, <1>7, ScheduleSaveInv
  <1> HIDE DEF T
  <1> QED  BY ONLY <1>8, <1>9, BecomesInv

\* A pane is zoomed, or the zoomed one is given back.
LEMMA ToggleZoomInv ==
  ASSUME OverviewInv, NEW p \in Pages, ToggleZoom(p)
  PROVE  OverviewInv'
  <1> DEFINE S == State
             U == Unzoom(S, p)
             Z == [S EXCEPT !.pages[p].zoomed = TRUE]
  <1>1. Inv(S) /\ Sound(S)  BY DEF OverviewInv, Inv
  <1>2. p \in Exists(S) /\ (Becomes(U) \/ Becomes(Z))  BY DEF ToggleZoom
  <1> HIDE DEF S
  <1>3. S.gui.running  BY <1>1, <1>2, TabIsOpen
  <1>4. Inv(U)  BY <1>1, <1>2, <1>3, UnzoomInv
  <1>5. Inv(Z)
    <2>1. /\ Sound(Z) /\ LayoutOf(Z) = LayoutOf(S)
          /\ Z.daemon = S.daemon /\ Z.files = S.files /\ Z.past = S.past /\ Z.gui = S.gui
          /\ \A q \in Pages : /\ Z.pages[q].win = S.pages[q].win
                              /\ Z.pages[q].panes = S.pages[q].panes
                              /\ Z.pages[q].live = S.pages[q].live
                              /\ Z.pages[q].gid = S.pages[q].gid
                              /\ Z.pages[q].enrolled = S.pages[q].enrolled
          /\ \A q \in Pages \ {p} : Z.pages[q] = S.pages[q]
      BY <1>1, <1>2, <1>3, ZoomSound
    <2>0. Z.pages[p].zoomed
      <3>1. Shape(S)  BY <1>1 DEF Sound, Basic
      <3>2. Z.pages[p] = [S.pages[p] EXCEPT !.zoomed = TRUE]  BY <3>1 DEF Shape
      <3> QED  BY <3>1, <3>2 DEF Shape, TabFields
    <2> HIDE DEF Z
    <2>2. Opened(S) /\ ListOk(S) /\ SyncOk(S)  BY <1>1 DEF Inv
    <2>3. Opened(Z) /\ ListOk(Z)  BY <2>1, <2>2 DEF Opened, ListOk
    <2>4. SyncOk(Z)
      <3> SUFFICES ASSUME Orderly(Z), Settled(Z), ~Z.past.missed,
                          NEW q \in Exists(Z), ~Z.pages[q].zoomed
                   PROVE  Synced(Z, q)
        BY DEF SyncOk, AllSynced
      <3>1. Orderly(S) /\ Settled(S) /\ ~S.past.missed  BY <2>1 DEF Orderly, Settled
      <3>2. q \in Exists(S) /\ q # p  BY <2>0, <2>1 DEF Exists
      <3>3. Z.pages[q] = S.pages[q]  BY <2>1, <3>2 DEF Exists
      <3>4. Synced(S, q)  BY <2>2, <3>1, <3>2, <3>3 DEF SyncOk, AllSynced
      <3> QED  BY <2>1, <3>3, <3>4 DEF Synced
    <2> QED  BY <2>1, <2>3, <2>4 DEF Inv
  <1> HIDE DEF U, Z
  <1>6. CASE Becomes(U)  BY ONLY <1>4, <1>6, BecomesInv
  <1>7. CASE Becomes(Z)  BY ONLY <1>5, <1>7, BecomesInv
  <1> QED  BY <1>2, <1>6, <1>7

\* What only schedules a save.
LEMMA SchedulesInv ==
  ASSUME OverviewInv, State.gui.running,
         Becomes(ScheduleSave(State)) \/ Becomes(ScheduleGroupSave(State))
  PROVE  OverviewInv'
  <1> DEFINE S == State
             T == ScheduleSave(S)
             U == ScheduleGroupSave(S)
  <1>1. Sound(S) /\ Opened(S) /\ ListOk(S)  BY DEF OverviewInv, Inv
  <1>2. Becomes(T) \/ Becomes(U)  OBVIOUS
  <1>3. S.gui.running  OBVIOUS
  <1> HIDE DEF S
  <1>4. S.gui.open # {}  BY <1>1, <1>3 DEF Opened
  <1>5. Inv(T)  BY <1>1, <1>3, <1>4, ScheduleSaveInv
  <1>6. Inv(U)  BY <1>1, <1>3, ScheduleGroupSaveInv
  <1> HIDE DEF T, U
  <1>7. CASE Becomes(T)  BY ONLY <1>5, <1>7, BecomesInv
  <1>8. CASE Becomes(U)  BY ONLY <1>6, <1>8, BecomesInv
  <1> QED  BY <1>2, <1>7, <1>8


\* A handler that shows a group's tab, or builds it in an open window.
LEMMA ShowOrBuildInv ==
  ASSUME NEW S, Sound(S), S.gui.running, NEW w \in S.gui.open, NEW g,
         \/ Becomes(ScheduleSave(S))
         \/ CanBuild(S, g) /\ HasFreshPage(S) /\ Becomes(ScheduleSave(BuildGroup(S, w, g)))
  PROVE  OverviewInv'
  <1> DEFINE B == BuildGroup(S, w, g)
             T == ScheduleSave(S)
             U == ScheduleSave(B)
  <1>1. CASE Becomes(T)
    <2>1. Inv(T)  BY ScheduleSaveInv
    <2> HIDE DEF T
    <2> QED  BY ONLY <1>1, <2>1, BecomesInv
  <1>2. CASE CanBuild(S, g) /\ HasFreshPage(S) /\ Becomes(U)
    <2>1. Sound(B)  BY <1>2, BuildSound
    <2>2. B.gui = S.gui
      <3>1. Shape(S)  BY DEF Sound, Basic
      <3> QED  BY <1>2, <3>1, BuildEffect
    <2> HIDE DEF B
    <2>3. Inv(U)  BY <2>1, <2>2, ScheduleSaveInv
    <2> HIDE DEF U
    <2> QED  BY ONLY <1>2, <2>3, BecomesInv
  <1> QED  BY <1>1, <1>2

\* The card of a group is activated.
LEMMA RestoreGroupInv ==
  ASSUME OverviewInv, NEW w \in Windows, NEW g, RestoreGroup(w, g)
  PROVE  OverviewInv'
  <1> DEFINE S == State
  <1>1. /\ w \in S.gui.open
        /\ \/ Becomes(ScheduleSave(S))
           \/ CanBuild(S, g) /\ HasFreshPage(S) /\ Becomes(ScheduleSave(BuildGroup(S, w, g)))
    BY DEF RestoreGroup, State
  <1>2. Sound(S)  BY DEF OverviewInv, Inv
  <1> HIDE DEF S
  <1>3. S.gui.running  BY <1>1, <1>2 DEF Sound, Basic, GuiOk
  <1> QED  BY ONLY <1>1, <1>2, <1>3, ShowOrBuildInv

\* The same, in a window of its own.
LEMMA AttachInNewWindowInv ==
  ASSUME OverviewInv, NEW w \in Windows, NEW g, AttachInNewWindow(w, g)
  PROVE  OverviewInv'
  <1> DEFINE S == State
             O == [S EXCEPT !.gui.open = @ \union {w}]
  <1>1. /\ S.gui.running
        /\ \/ Becomes(ScheduleSave(O))
           \/ CanBuild(S, g) /\ HasFreshPage(S) /\ Becomes(ScheduleSave(BuildGroup(O, w, g)))
    BY DEF AttachInNewWindow, State, UserActs
  <1>2. Sound(S)  BY DEF OverviewInv, Inv
  <1> HIDE DEF S
  <1>3. /\ Sound(O) /\ O.gui.running /\ w \in O.gui.open
        /\ O.pages = S.pages /\ O.daemon = S.daemon
        /\ O.gui.session = S.gui.session /\ O.gui.recorded = S.gui.recorded
    BY ONLY <1>1, <1>2, w \in Windows, OpenWindowSound
  <1> HIDE DEF O
  <1>4. CanBuild(S, g) <=> CanBuild(O, g)
    BY <1>3 DEF CanBuild, InstanceOk, OnScreen, MembersOf, Rebuilt, Alive
  <1>5. HasFreshPage(S) <=> HasFreshPage(O)  BY <1>3 DEF HasFreshPage
  <1>6. \/ Becomes(ScheduleSave(O))
        \/ CanBuild(O, g) /\ HasFreshPage(O) /\ Becomes(ScheduleSave(BuildGroup(O, w, g)))
    BY <1>1, <1>4, <1>5
  <1> QED  BY ONLY <1>3, <1>6, ShowOrBuildInv

\* The kills of the overview.
LEMMA KillsInv ==
  ASSUME OverviewInv, NEW ks, Becomes(Kill(State, ks))
  PROVE  OverviewInv'
  <1> DEFINE S == State
             T == Kill(S, ks)
  <1>1. Inv(S)  BY DEF OverviewInv
  <1> HIDE DEF S
  <1>2. Inv(T)  BY <1>1, KillInv
  <1> HIDE DEF T
  <1> QED  BY ONLY <1>2, Becomes(T), BecomesInv DEF T, S

\* The kills that give the window another tab first.
LEMMA KillsInWindowInv ==
  ASSUME OverviewInv, NEW w \in Windows, State.gui.running, State.daemon.up, w \in State.gui.open,
         HasFreshPage(State), NEW ks, Becomes(Kill(AddTab(State, w), ks))
  PROVE  OverviewInv'
  <1> DEFINE S == State
             A == AddTab(S, w)
             T == Kill(A, ks)
  <1>1. Sound(S)  BY DEF OverviewInv, Inv
  <1>2. S.gui.running /\ S.daemon.up /\ w \in S.gui.open /\ HasFreshPage(S) /\ Becomes(T)  OBVIOUS
  <1> HIDE DEF S
  <1>3. Inv(A)  BY ONLY <1>1, <1>2, AddTabSound
  <1> HIDE DEF A
  <1>4. Inv(T)  BY <1>3, KillInv
  <1> HIDE DEF T
  <1> QED  BY ONLY <1>2, <1>4, BecomesInv

\* The kills and the cards of the overview.
LEMMA OverviewNextInv ==
  ASSUME OverviewInv, OverviewNext
  PROVE  OverviewInv'
  <1>1. State.gui = gui /\ State.daemon = daemon  BY DEF State
  <1>2. CASE \E w \in Windows : KillWindow(w)
    <2>1. PICK w \in Windows : KillWindow(w)  BY <1>2
    <2>2. State.gui.running /\ State.daemon.up /\ w \in State.gui.open /\ HasFreshPage(State)
      BY <1>1, <2>1 DEF KillWindow, UserActs
    <2>3. PICK ks : Becomes(Kill(AddTab(State, w), ks))  BY <2>1 DEF KillWindow
    <2> QED  BY <2>2, <2>3, KillsInWindowInv
  <1>3. CASE \E w \in Windows : KillAll(w)
    <2>1. PICK w \in Windows : KillAll(w)  BY <1>3
    <2>2. State.gui.running /\ State.daemon.up /\ w \in State.gui.open /\ HasFreshPage(State)
      BY <1>1, <2>1 DEF KillAll, UserActs
    <2>3. PICK ks : Becomes(Kill(AddTab(State, w), ks))  BY <2>1 DEF KillAll
    <2> QED  BY <2>2, <2>3, KillsInWindowInv
  <1>4. CASE \E w \in Windows, g \in 1..MaxGroup : AttachInNewWindow(w, g)
    BY <1>4, AttachInNewWindowInv
  <1>5. CASE \E g \in 1..MaxGroup : KillCard(g)
    <2>1. PICK ks : Becomes(Kill(State, ks))  BY <1>5 DEF KillCard
    <2> QED  BY <2>1, KillsInv
  <1>6. CASE \E s \in 1..MaxSession : KillOrphan(s)
    <2>1. PICK ks : Becomes(Kill(State, ks))  BY <1>6 DEF KillOrphan
    <2> QED  BY <2>1, KillsInv
  <1>7. CASE KillDetached
    <2>1. PICK ks : Becomes(Kill(State, ks))  BY <1>7 DEF KillDetached
    <2> QED  BY <2>1, KillsInv
  <1> QED  BY <1>2, <1>3, <1>4, <1>5, <1>6, <1>7 DEF OverviewNext


\* The timer saves what is pending.
LEMMA SaveTimeoutStep ==
  ASSUME OverviewInv, SaveTimeout
  PROVE  OverviewInv'
  <1> DEFINE S == State
  <1>1. S.gui = gui  BY DEF State
  <1>2. PICK o \in Orders :
          Becomes([Save(S, o[1], o[2], gui.pending = "layout") EXCEPT !.gui.pending = "none"])
    BY DEF SaveTimeout
  <1> DEFINE T == SaveFor(S, o[1], o[2], S.gui.pending)
             R == [T EXCEPT !.gui.pending = "none"]
  <1>3. Becomes(R)  BY <1>1, <1>2 DEF SaveFor
  <1>4. S.gui.pending # "none"  BY <1>1 DEF SaveTimeout
  <1>5. o[1] \in SetToSeqs(Exists(State))  BY DEF Orders
  <1>6. Inv(S) /\ Covers(S, o[1])  BY <1>5, OrderCovers DEF OverviewInv
  <1> HIDE DEF S
  <1>7. T = SaveFor(S, o[1], o[2], S.gui.pending)  OBVIOUS
  <1> HIDE DEF T
  <1>8. Inv(R)  BY ONLY <1>4, <1>6, <1>7, SaveTimeoutInv
  <1> HIDE DEF R
  <1> QED  BY ONLY <1>3, <1>8, BecomesInv

\* The process dies, within a save or not.
LEMMA CrashesInv ==
  ASSUME OverviewInv, Crash \/ CrashInSave
  PROVE  OverviewInv'
  <1> DEFINE S == State
  <1>1. S.gui = gui /\ S.past = past /\ S.daemon = daemon  BY DEF State
  <1>2. Inv(S) /\ Sound(S) /\ GuiOk(S)  BY DEF OverviewInv, Inv, Sound, Basic
  <1>3. CASE Crash
    <2> DEFINE T == Vanish(IF S.gui.pending = "none" /\ ~S.gui.frozen THEN Remember(S) ELSE S)
    <2>1. Becomes(T)  BY <1>1, <1>3 DEF Crash
    <2> HIDE DEF S
    <2>2. Inv(T)  BY <1>2, CrashInv
    <2> HIDE DEF T
    <2> QED  BY ONLY <2>1, <2>2, BecomesInv
  <1>4. CASE CrashInSave
    <2>1. PICK o \in SetToSeqs(Exists(State)) :
            LET T == SyncGroups(S, o, {}) IN
            \/ Becomes(Vanish(IF past.era = daemon.inst THEN Forget(T) ELSE T))
            \/ Becomes(Vanish(Forget(SaveGroupsState(T, {}))))
      BY <1>4 DEF CrashInSave
    <2> DEFINE T == SyncGroups(S, o, {})
               U == Vanish(IF S.past.era = S.daemon.inst THEN Forget(T) ELSE T)
               V == Vanish(Forget(SaveGroupsState(T, {})))
    <2>2. Becomes(U) \/ Becomes(V)  BY <2>1, <1>1
    <2>5. Covers(S, o)  BY OrderCovers
    <2> HIDE DEF S
    <2>6. Inv(U) /\ Inv(V)  BY <2>5, <1>2, CrashInSaveInv
    <2> HIDE DEF U, V
    <2>7. CASE Becomes(U)  BY ONLY <2>6, <2>7, BecomesInv
    <2>8. CASE Becomes(V)  BY ONLY <2>6, <2>8, BecomesInv
    <2> QED  BY <2>2, <2>7, <2>8
  <1> QED  BY <1>3, <1>4

\* A shell exits, and what streams it ends; the daemon knows it as dead.
LEMMA ShellExitsInv ==
  ASSUME OverviewInv, NEW s, ShellExits(s)
  PROVE  OverviewInv'
  <1> DEFINE S == State
             R == State'
  <1>1. Inv(S)  BY DEF OverviewInv
  <1>2. s \in Alive(S)  BY DEF ShellExits
  <1>3. /\ S.gui = gui /\ S.past = past /\ S.daemon = daemon /\ S.pages = pages /\ S.files = files
        /\ DOMAIN S = {"daemon", "pages", "gui", "files", "past"}
    BY DEF State
  <1>4. /\ daemon' = [daemon EXCEPT !.sess[s].alive = FALSE]
        /\ gui' = gui /\ files' = files
        /\ past' = [past EXCEPT !.faults = @ + 1]
        /\ pages' = [p \in Pages |-> [pages[p] EXCEPT !.live = @ \ {s}]]
    BY DEF ShellExits, Becomes, State
  <1>5. /\ R.daemon = daemon' /\ R.pages = pages' /\ R.gui = gui' /\ R.files = files'
        /\ R.past = past' /\ DOMAIN R = {"daemon", "pages", "gui", "files", "past"}
    BY DEF State
  <1> HIDE DEF S, R
  <1>6. /\ Sound(S) /\ Shape(S) /\ DaemonOk(S) /\ TabsOk(S) /\ GuiOk(S) /\ Arranged(S) /\ Filed(S)
        /\ EraOk(S) /\ Opened(S) /\ ListOk(S) /\ SyncOk(S)
    BY <1>1 DEF Inv, Sound, Basic
  <1>7. s \in DOMAIN S.daemon.sess  BY <1>2 DEF Alive
  <1>8. /\ DOMAIN R.daemon = DOMAIN S.daemon
        /\ R.daemon.up = S.daemon.up /\ R.daemon.inst = S.daemon.inst
        /\ R.daemon.groups = S.daemon.groups
        /\ R.daemon.nextS = S.daemon.nextS /\ R.daemon.nextG = S.daemon.nextG
        /\ R.daemon.sess = [S.daemon.sess EXCEPT ![s] = [S.daemon.sess[s] EXCEPT !.alive = FALSE]]
    BY <1>3, <1>4, <1>5, <1>6, <1>7 DEF Shape
  <1>9. DOMAIN S.daemon.sess[s] = {"alive", "group"}  BY <1>6, <1>7 DEF DaemonOk
  <1>10. /\ DOMAIN R.daemon.sess = DOMAIN S.daemon.sess
         /\ ~R.daemon.sess[s].alive /\ R.daemon.sess[s].group = S.daemon.sess[s].group
         /\ DOMAIN R.daemon.sess[s] = {"alive", "group"}
         /\ \A x \in DOMAIN S.daemon.sess \ {s} : R.daemon.sess[x] = S.daemon.sess[x]
    BY <1>7, <1>8, <1>9
  <1>11. /\ DOMAIN R.past = DOMAIN S.past
         /\ R.past.shown = S.past.shown /\ R.past.era = S.past.era
         /\ R.past.foreign = S.past.foreign /\ R.past.missed = S.past.missed
         /\ R.past.saved = S.past.saved
    BY <1>3, <1>4, <1>5, <1>6 DEF Shape
  <1>12. R.gui = S.gui /\ R.files = S.files /\ DOMAIN R.pages = Pages  BY <1>3, <1>4, <1>5
  <1>13. ASSUME NEW q \in Pages
         PROVE  /\ SameTab(S.pages[q], R.pages[q]) /\ DOMAIN R.pages[q] = TabFields
                /\ R.pages[q].live = S.pages[q].live \ {s}
    <2>1. R.pages[q] = [S.pages[q] EXCEPT !.live = S.pages[q].live \ {s}]  BY <1>3, <1>4, <1>5
    <2>2. DOMAIN S.pages[q] = TabFields  BY <1>6 DEF Shape
    <2> QED  BY ONLY <2>1, <2>2 DEF SameTab, TabFields
  <1>14. Shape(R)  BY <1>5, <1>6, <1>8, <1>11, <1>12, <1>13 DEF Shape
  <1>15. Alive(R) = Alive(S) \ {s}  BY <1>10 DEF Alive
  <1>16. DaemonOk(R)  BY <1>6, <1>8, <1>10 DEF DaemonOk
  <1>17. TabsOk(R)
    <2>1. \A q \in Pages : TabOk(R, q)  BY <1>6, <1>12, <1>13, <1>15 DEF TabsOk, TabOk, SameTab
    <2>2. \A p, q \in Pages : p # q => R.pages[p].live \intersect R.pages[q].live = {}
      BY <1>6, <1>13 DEF TabsOk
    <2> QED  BY <2>1, <2>2 DEF TabsOk
  <1>18. GuiOk(R)  BY <1>6, <1>8, <1>11, <1>12 DEF GuiOk
  <1>19. Current(R) <=> Current(S)  BY <1>8, <1>12 DEF Current
  <1>20. \A x \in DOMAIN S.daemon.sess : R.daemon.sess[x].group = S.daemon.sess[x].group
    BY <1>10
  <1>21. Arranged(R)
    <2> SUFFICES ASSUME Current(R), ~R.past.foreign
                 PROVE  /\ \A p \in Pages : PageArranged(R, p)
                        /\ \A p, q \in Pages : p # q => Apart(R, p, q)
      BY DEF Arranged
    <2>1. /\ \A p \in Pages : PageArranged(S, p)
          /\ \A p, q \in Pages : p # q => Apart(S, p, q)
      BY <1>6, <1>11, <1>19 DEF Arranged
    <2>2. \A p \in Pages : PageArranged(R, p)
      BY <2>1, <1>8, <1>10, <1>13, <1>20 DEF PageArranged, SameTab
    <2>3. \A p, q \in Pages : p # q => Apart(R, p, q)  BY <2>1, <1>13 DEF Apart, SameTab
    <2> QED  BY <2>2, <2>3
  <1>22. Filed(R)  BY <1>6, <1>8, <1>11, <1>12, <1>19 DEF Filed, LayoutFits
  <1>23. EraOk(R)
    <2>1. Restorable(S) => Restorable(R)
      BY <1>8, <1>10, <1>11, <1>12, <1>15, <1>20 DEF Restorable
    <2> QED  BY <2>1, <1>6, <1>8, <1>11, <1>12 DEF EraOk
  <1>24. \A w \in Windows : GroupIds(R, w) = GroupIds(S, w)  BY <1>13 DEF GroupIds, SameTab
  <1>25. LayoutOf(R) = LayoutOf(S)  BY <1>24 DEF LayoutOf
  <1>26. Opened(R) /\ ListOk(R)  BY <1>6, <1>11, <1>12, <1>25 DEF Opened, ListOk
  <1>27. SyncOk(R)
    <2> SUFFICES ASSUME Orderly(R), Settled(R), ~R.past.missed,
                        NEW p \in Exists(R), ~R.pages[p].zoomed
                 PROVE  Synced(R, p)
      BY DEF SyncOk, AllSynced
    <2>1. ASSUME NEW q \in Pages
          PROVE  S.pages[q].live = S.pages[q].panes /\ s \notin S.pages[q].panes
      <3>1. S.pages[q].live \ {s} = S.pages[q].panes  BY <1>13 DEF Orderly, SameTab
      <3>2. S.pages[q].live \subseteq S.pages[q].panes  BY <1>6 DEF TabsOk, TabOk
      <3> QED  BY <3>1, <3>2
    <2>2. Orderly(S)  BY <2>1, <1>8, <1>11, <1>12 DEF Orderly
    <2>3. p \in Exists(S) /\ p \in Pages  BY <1>13 DEF Exists, SameTab
    <2>4. ~S.pages[p].zoomed  BY <1>13, <2>3 DEF SameTab
    <2>5. Synced(S, p)
      BY <1>6, <1>11, <1>12, <2>2, <2>3, <2>4 DEF SyncOk, Settled, AllSynced
    <2>6. S.pages[p].panes \subseteq DOMAIN S.daemon.sess
      BY <2>1, <2>3, <1>6 DEF TabsOk, TabOk, Alive
    <2> QED  BY <2>3, <2>5, <2>6, <1>8, <1>13, <1>20 DEF Synced, SameTab
  <1>28. Inv(R)  BY <1>14, <1>16, <1>17, <1>18, <1>21, <1>22, <1>23, <1>26, <1>27 DEF Inv, Sound, Basic
  <1> QED  BY <1>28 DEF OverviewInv, R


\* A daemon that has gone takes its sessions along, and a new one is not the
\* one the process was started with.
LEMMA DaemonChanges ==
  ASSUME NEW S, Inv(S), NEW R, Shape(R), DaemonOk(R), TabsOk(R), ~Current(R),
         R.gui = S.gui, R.files = S.files, S.daemon.inst <= R.daemon.inst,
         R.past.era = S.past.era, R.past.foreign = S.past.foreign,
         R.past.missed = S.past.missed, R.past.saved = S.past.saved,
         ~R.daemon.up \/ R.daemon.inst = S.daemon.inst + 1,
         \A q \in Pages : SameTab(S.pages[q], R.pages[q])
  PROVE  Inv(R)
  <1>0. /\ Shape(S) /\ DaemonOk(S) /\ GuiOk(S) /\ Filed(S)
        /\ EraOk(S) /\ Opened(S) /\ ListOk(S) /\ SyncOk(S)
    BY DEF Inv, Sound, Basic
  <1>1. GuiOk(R)  BY <1>0 DEF GuiOk, DaemonOk
  <1>2. Arranged(R)  BY DEF Arranged
  <1>3. Filed(R)  BY <1>0 DEF Filed, LayoutFits
  <1>4. EraOk(R)  BY <1>0 DEF EraOk, DaemonOk
  <1>5. \A w \in Windows : GroupIds(R, w) = GroupIds(S, w)  BY DEF GroupIds, SameTab
  <1>6. LayoutOf(R) = LayoutOf(S)  BY <1>5 DEF LayoutOf
  <1>7. Opened(R) /\ ListOk(R)  BY <1>0, <1>6 DEF Opened, ListOk
  <1>8. SyncOk(R)  BY DEF SyncOk, Orderly, Current
  <1> QED  BY <1>1, <1>2, <1>3, <1>4, <1>7, <1>8 DEF Inv, Sound, Basic

\* The daemon stops.
LEMMA DaemonStopsInv ==
  ASSUME OverviewInv, DaemonStops
  PROVE  OverviewInv'
  <1> DEFINE S == State
             R == State'
             n == daemon.before + daemon.nextS - 1
  <1>1. Inv(S)  BY DEF OverviewInv
  <1>2. /\ S.gui = gui /\ S.past = past /\ S.daemon = daemon /\ S.pages = pages /\ S.files = files
        /\ DOMAIN S = {"daemon", "pages", "gui", "files", "past"}
    BY DEF State
  <1>3. /\ daemon' = [NewDaemon(daemon.inst, n) EXCEPT !.up = FALSE]
        /\ gui' = gui /\ files' = files
        /\ past' = [past EXCEPT !.faults = @ + 1, !.shown = None]
        /\ pages' = [p \in Pages |-> [pages[p] EXCEPT !.live = {}]]
    BY DEF DaemonStops, Becomes, State
  <1>4. /\ R.daemon = daemon' /\ R.pages = pages' /\ R.gui = gui' /\ R.files = files'
        /\ R.past = past' /\ DOMAIN R = {"daemon", "pages", "gui", "files", "past"}
    BY DEF State
  <1> HIDE DEF S, R, n
  <1>5. Shape(S) /\ DaemonOk(S) /\ TabsOk(S)  BY <1>1 DEF Inv, Sound, Basic
  <1>6. /\ DOMAIN R.daemon = {"up", "inst", "sess", "groups", "nextS", "nextG", "before"}
        /\ ~R.daemon.up /\ R.daemon.inst = S.daemon.inst
        /\ R.daemon.sess = <<>> /\ R.daemon.groups = <<>>
        /\ R.daemon.nextS = 1 /\ R.daemon.nextG = 1
    BY <1>2, <1>3, <1>4 DEF NewDaemon
  <1>7. /\ DOMAIN R.past = DOMAIN S.past
        /\ R.past.era = S.past.era
        /\ R.past.foreign = S.past.foreign /\ R.past.missed = S.past.missed
        /\ R.past.saved = S.past.saved
    BY <1>2, <1>3, <1>4, <1>5 DEF Shape
  <1>8. R.gui = S.gui /\ R.files = S.files /\ DOMAIN R.pages = Pages  BY <1>2, <1>3, <1>4
  <1>9. ASSUME NEW q \in Pages
        PROVE  /\ SameTab(S.pages[q], R.pages[q]) /\ DOMAIN R.pages[q] = TabFields
               /\ R.pages[q].live = {}
    <2>1. R.pages[q] = [S.pages[q] EXCEPT !.live = {}]  BY <1>2, <1>3, <1>4
    <2>2. DOMAIN S.pages[q] = TabFields  BY <1>5 DEF Shape
    <2> QED  BY ONLY <2>1, <2>2 DEF SameTab, TabFields
  <1>10. Shape(R)  BY <1>4, <1>5, <1>6, <1>7, <1>8, <1>9 DEF Shape
  <1>11. DaemonOk(R)
    <2>1. DOMAIN R.daemon.sess = {} /\ DOMAIN R.daemon.groups = {}  BY <1>6
    <2> QED  BY <2>1, <1>5, <1>6 DEF DaemonOk
  <1>12. TabsOk(R)
    <2>1. \A q \in Pages : TabOk(R, q)  BY <1>5, <1>8, <1>9 DEF TabsOk, TabOk, SameTab
    <2>2. \A p, q \in Pages : R.pages[p].live \intersect R.pages[q].live = {}  BY <1>9
    <2> QED  BY <2>1, <2>2 DEF TabsOk
  <1>13. ~Current(R)  BY <1>6 DEF Current
  <1>14. S.daemon.inst <= R.daemon.inst  BY <1>5, <1>6 DEF DaemonOk
  <1>15. Inv(R)
    <2>1. ~R.daemon.up \/ R.daemon.inst = S.daemon.inst + 1  BY <1>6
    <2>2. \A q \in Pages : SameTab(S.pages[q], R.pages[q])  BY <1>9
    <2> QED
      BY ONLY <1>1, <1>7, <1>8, <1>10, <1>11, <1>12, <1>13, <1>14, <2>1, <2>2, DaemonChanges
  <1> QED  BY <1>15 DEF OverviewInv, R

\* Another daemon starts.
LEMMA DaemonStartsInv ==
  ASSUME OverviewInv, DaemonStarts
  PROVE  OverviewInv'
  <1> DEFINE S == State
             R == State'
  <1>1. Inv(S)  BY DEF OverviewInv
  <1>2. /\ S.gui = gui /\ S.past = past /\ S.daemon = daemon /\ S.pages = pages /\ S.files = files
        /\ DOMAIN S = {"daemon", "pages", "gui", "files", "past"}
    BY DEF State
  <1>3. /\ daemon' = NewDaemon(daemon.inst + 1, daemon.before)
        /\ gui' = gui /\ files' = files /\ past' = past /\ pages' = pages /\ ~daemon.up
    BY DEF DaemonStarts, Becomes, State
  <1>4. /\ R.daemon = daemon' /\ R.pages = pages' /\ R.gui = gui' /\ R.files = files'
        /\ R.past = past' /\ DOMAIN R = {"daemon", "pages", "gui", "files", "past"}
    BY DEF State
  <1> HIDE DEF S, R
  <1>5. Shape(S) /\ DaemonOk(S) /\ TabsOk(S) /\ GuiOk(S)  BY <1>1 DEF Inv, Sound, Basic
  <1>6. /\ DOMAIN R.daemon = {"up", "inst", "sess", "groups", "nextS", "nextG", "before"}
        /\ R.daemon.up /\ R.daemon.inst = S.daemon.inst + 1
        /\ R.daemon.sess = <<>> /\ R.daemon.groups = <<>>
        /\ R.daemon.nextS = 1 /\ R.daemon.nextG = 1
    BY <1>2, <1>3, <1>4 DEF NewDaemon
  <1>7. R.past = S.past /\ R.gui = S.gui /\ R.files = S.files /\ R.pages = S.pages
    BY <1>2, <1>3, <1>4
  <1>8. Shape(R)  BY <1>4, <1>5, <1>6, <1>7 DEF Shape
  <1>9. DOMAIN R.daemon.sess = {} /\ DOMAIN R.daemon.groups = {}  BY <1>6
  <1>10. DaemonOk(R)  BY <1>9, <1>5, <1>6 DEF DaemonOk
  <1>11. DOMAIN S.daemon.sess = {}  BY <1>2, <1>3, <1>5 DEF DaemonOk
  <1>12. TabsOk(R)
    <2>1. Alive(S) = {} /\ Alive(R) = {}  BY <1>9, <1>11 DEF Alive
    <2> QED  BY <2>1, <1>5, <1>7 DEF TabsOk, TabOk
  <1>13. ~Current(R)  BY <1>5, <1>6, <1>7 DEF Current, GuiOk, DaemonOk
  <1>14. S.daemon.inst <= R.daemon.inst  BY <1>5, <1>6 DEF DaemonOk
  <1>15. Inv(R)
    <2>1. ~R.daemon.up \/ R.daemon.inst = S.daemon.inst + 1  BY <1>6
    <2>2. \A q \in Pages : SameTab(S.pages[q], R.pages[q])  BY <1>7 DEF SameTab
    <2>3. /\ R.past.era = S.past.era /\ R.past.foreign = S.past.foreign
          /\ R.past.missed = S.past.missed /\ R.past.saved = S.past.saved
      BY <1>7
    <2> QED
      BY ONLY <1>1, <1>7, <1>8, <1>10, <1>12, <1>13, <1>14, <2>1, <2>2, <2>3, DaemonChanges
  <1> QED  BY <1>15 DEF OverviewInv, R


-----------------------------------------------------------------------------
(* A start *)

\* An order of the groups of layout.json, each once.
Listed(S, o) ==
  /\ Len(o) \in Nat
  /\ \A i \in 1..Len(o) : \E w \in Windows : \E g \in S.files.layout[w] : o[i] = <<w, g>>
  /\ \A w \in Windows : \A g \in S.files.layout[w] : \E i \in 1..Len(o) : o[i] = <<w, g>>
  /\ \A i, j \in 1..Len(o) : i # j => o[i] # o[j]

Entries(S) == UNION {{<<w, g>> : g \in S.files.layout[w]} : w \in Windows}

\* There are no more groups in layout.json than pages.
LEMMA EntriesFit ==
  ASSUME NEW S, Filed(S)
  PROVE  IsFiniteSet(Entries(S)) /\ Cardinality(Entries(S)) <= Cardinality(Pages)
  <1>1. PICK f \in [Pages -> (Windows \union {NoWindow}) \X Nat] :
          \A w \in Windows : \A g \in S.files.layout[w] : \E p \in Pages : f[p] = <<w, g>>
    BY DEF Filed, LayoutFits
  <1> DEFINE I == {f[p] : p \in Pages}
  <1>2. f \in Surjection(Pages, I)
    <2>1. f \in [Pages -> I]  OBVIOUS
    <2>2. \A x \in I : \E p \in Pages : f[p] = x  OBVIOUS
    <2> QED  BY <2>1, <2>2, Fun_IsSurj
  <1>3. IsFiniteSet(I) /\ Cardinality(I) <= Cardinality(Pages)
    <2> HIDE DEF I
    <2> QED  BY <1>2, LayoutConstants, FS_Surjection
  <1>4. Entries(S) \subseteq I  BY <1>1 DEF Entries
  <1> HIDE DEF I
  <1>5. IsFiniteSet(Entries(S)) /\ Cardinality(Entries(S)) <= Cardinality(I)
    BY <1>3, <1>4, FS_Subset
  <1>6. Cardinality(Entries(S)) \in Nat /\ Cardinality(I) \in Nat /\ Cardinality(Pages) \in Nat
    BY <1>3, <1>5, LayoutConstants, FS_CardinalityType
  <1> QED  BY <1>3, <1>5, <1>6

\* The orders of a start list the groups of layout.json.
LEMMA SavedOrdersListed ==
  ASSUME Filed(State), NEW o \in SavedOrders
  PROVE  Listed(State, o)
  <1> DEFINE S == State
             X == Entries(S)
  <1>1. S.files = files  BY DEF State
  <1>2. o \in SetToSeqs(X)  BY <1>1 DEF SavedOrders, Entries
  <1>3. IsFiniteSet(X)  BY EntriesFit
  <1> HIDE DEF S
  <1>4. \A x \in X : \E w \in Windows : \E g \in S.files.layout[w] : x = <<w, g>>  BY DEF Entries
  <1>5. \A w \in Windows : \A g \in S.files.layout[w] : <<w, g>> \in X  BY DEF Entries
  <1> HIDE DEF X
  <1>6. /\ Len(o) \in Nat /\ o \in [1..Len(o) -> X]
        /\ \A x \in X : \E n \in 1..Len(o) : o[n] = x
        /\ \A i, j \in 1..Len(o) : i # j => o[i] # o[j]
    BY <1>2, <1>3, OrderFacts
  <1>7. \A i \in 1..Len(o) : \E w \in Windows : \E g \in S.files.layout[w] : o[i] = <<w, g>>
    BY <1>4, <1>6
  <1>8. Listed(S, o)  BY <1>5, <1>6, <1>7 DEF Listed
  <1> QED  BY <1>8 DEF S

\* The entry of layout.json a tab was built from.
TabAt(T, p) == <<T.pages[p].win, T.pages[p].gid>>

\* The entries up to the n-th have been seen.
Restoring(C, T, o, n) ==
  /\ Sound(T) /\ T.gui.running
  /\ T.daemon = C.daemon /\ T.files = C.files
  /\ T.past.era = C.past.era /\ T.past.shown = C.past.shown
  /\ T.gui.session = C.gui.session /\ T.gui.recorded = C.gui.recorded
  /\ \A p \in Exists(T) : \E i \in 1..n : o[i] = TabAt(T, p)
  /\ \A p, q \in Exists(T) : p # q => TabAt(T, p) # TabAt(T, q)
  /\ InstanceOk(C) \/ (T.pages = C.pages /\ T.gui.open = C.gui.open)

\* A page is left for the next entry.
LEMMA FreshPageLeft ==
  ASSUME NEW C, NEW T, NEW o, NEW n \in Nat, Restoring(C, T, o, n), Listed(C, o), n + 1 <= Len(o)
  PROVE  HasFreshPage(T)
  <1> SUFFICES ASSUME \A p \in Pages : T.pages[p].win # NoWindow PROVE FALSE
    BY DEF HasFreshPage
  <1>1. Exists(T) = Pages  BY DEF Exists
  <1>2. Filed(T) /\ T.files = C.files  BY DEF Restoring, Sound
  <1> DEFINE X == Entries(C)
             x == o[n + 1]
             f == [p \in Pages |-> TabAt(T, p)]
  <1>3. Entries(T) = X  BY <1>2 DEF Entries
  <1>4. IsFiniteSet(X) /\ Cardinality(X) <= Cardinality(Pages)  BY <1>2, <1>3, EntriesFit
  <1>5. n + 1 \in 1..Len(o) /\ \A i \in 1..n : i \in 1..Len(o) /\ i # n + 1  BY DEF Listed
  <1>6. \A i \in 1..Len(o) : o[i] \in X
    <2>1. \A w \in Windows : \A g \in C.files.layout[w] : <<w, g>> \in X  BY DEF Entries
    <2> HIDE DEF X
    <2> QED  BY <2>1 DEF Listed
  <1>7. x \in X /\ \A i \in 1..n : o[i] \in X \ {x}  BY <1>5, <1>6 DEF Listed
  <1>8. \A p \in Pages : TabAt(T, p) \in X \ {x}  BY <1>1, <1>7 DEF Restoring
  <1> HIDE DEF X, x
  <1>9. f \in Injection(Pages, X \ {x})
    <2>1. f \in [Pages -> X \ {x}]  BY <1>8
    <2>2. \A p, q \in Pages : f[p] = f[q] => p = q  BY <1>1 DEF Restoring
    <2> QED  BY <2>1, <2>2, Fun_IsInj
  <1> HIDE DEF f
  <1>10. IsFiniteSet(X \ {x}) /\ Cardinality(X \ {x}) = Cardinality(X) - 1
    BY <1>4, <1>7, FS_RemoveElement
  <1>11. Cardinality(Pages) <= Cardinality(X \ {x})  BY <1>9, <1>10, FS_Injection
  <1>12. Cardinality(Pages) \in Nat /\ Cardinality(X) \in Nat
    BY <1>4, LayoutConstants, FS_CardinalityType
  <1> QED  BY <1>4, <1>10, <1>11, <1>12

\* The groups of a start, one after the other.
RestoreFrom(S, o, k, T) ==
  T = [n \in 0..k |-> IF n = 0 THEN S ELSE RestoreSaved(T[n - 1], o[n][1], o[n][2])]

\* A restore of however many groups is such a sequence of steps.
LEMMA RestoreSteps ==
  ASSUME NEW S, NEW o, Len(o) \in Nat
  PROVE  \E T : RestoreFrom(S, o, Len(o), T)
  <1> DEFINE A == {k \in Nat : \E T : RestoreFrom(S, o, k, T)}
  <1>1. 0 \in A
    <2>1. RestoreFrom(S, o, 0, [n \in {0} |-> S])  BY DEF RestoreFrom
    <2> QED  BY <2>1
  <1>2. ASSUME NEW k \in A PROVE k + 1 \in A
    <2>1. PICK T : RestoreFrom(S, o, k, T)  OBVIOUS
    <2>2. k \in Nat  OBVIOUS
    <2> DEFINE X == RestoreSaved(T[k], o[k + 1][1], o[k + 1][2])
               U == [n \in 0..k + 1 |-> IF n = k + 1 THEN X ELSE T[n]]
    <2>3. \A n \in 0..k : U[n] = T[n]  BY <2>2
    <2>4. U[k + 1] = RestoreSaved(T[k], o[k + 1][1], o[k + 1][2])  BY <2>2
    <2>5. DOMAIN U = 0..k + 1  OBVIOUS
    <2>6. U = [n \in DOMAIN U |-> U[n]]  OBVIOUS
    <2> HIDE DEF U
    <2>7. \A n \in 0..k + 1 : U[n] = IF n = 0 THEN S ELSE RestoreSaved(U[n - 1], o[n][1], o[n][2])
      <3>1. TAKE n \in 0..k + 1
      <3>2. CASE n = k + 1  BY <2>2, <3>2, <2>3, <2>4
      <3>3. CASE n = 0  BY <2>2, <3>3, <2>1, <2>3 DEF RestoreFrom
      <3>4. CASE n # 0 /\ n # k + 1
        <4>1. n \in 0..k /\ n - 1 \in 0..k  BY <2>2, <3>4
        <4>2. T[n] = RestoreSaved(T[n - 1], o[n][1], o[n][2])  BY <4>1, <3>4, <2>1 DEF RestoreFrom
        <4> QED  BY <4>1, <4>2, <2>3, <3>4
      <3> QED  BY <3>2, <3>3, <3>4
    <2>8. RestoreFrom(S, o, k + 1, U)
      <3> DEFINE V == [n \in 0..k + 1 |->
                         IF n = 0 THEN S ELSE RestoreSaved(U[n - 1], o[n][1], o[n][2])]
      <3>1. \A n \in 0..k + 1 : U[n] = V[n]  BY <2>7
      <3>2. U = V  BY <3>1, <2>5, <2>6
      <3> QED  BY <3>2 DEF RestoreFrom
    <2>9. k + 1 \in Nat  BY <2>2
    <2> QED  BY <2>8, <2>9
  <1>3. Nat \subseteq A
    <2> HIDE DEF A
    <2> QED  BY <1>1, <1>2, Ind
  <1> QED  BY <1>3

\* The tab of a group is built, or is on the screen already, or cannot be
\* restored.
Built(T, U, w, g) ==
  /\ CanBuild(T, g) /\ U.gui.open = T.gui.open \union {w}
  /\ \E p \in Pages :
       /\ T.pages[p].win = NoWindow
       /\ U.pages[p].win = w /\ U.pages[p].gid = g
       /\ U.pages[p].panes = Rebuilt(T, g) /\ U.pages[p].live = Rebuilt(T, g)
       /\ \A q \in Pages \ {p} : /\ SameTab(T.pages[q], U.pages[q])
                                 /\ U.pages[q].live = T.pages[q].live \ Rebuilt(T, g)
Found(T, U, w, g) ==
  CanShow(T, g) /\ U.pages = T.pages /\ U.gui.open = T.gui.open \union {w}
Skipped(T, U, g) ==
  ~CanBuild(T, g) /\ ~CanShow(T, g) /\ U.pages = T.pages /\ U.gui.open = T.gui.open

\* RestoreSaved does one of the three, and leaves all else as it was.
LEMMA RestoreSavedEffect ==
  ASSUME NEW T, Sound(T), T.gui.running, HasFreshPage(T), NEW w \in Windows, NEW g,
         NEW U, U = RestoreSaved(T, w, g)
  PROVE  /\ Sound(U) /\ U.gui.running
         /\ U.daemon = T.daemon /\ U.files = T.files
         /\ U.past.era = T.past.era /\ U.past.shown = T.past.shown
         /\ U.gui.session = T.gui.session /\ U.gui.recorded = T.gui.recorded
         /\ Built(T, U, w, g) \/ Found(T, U, w, g) \/ Skipped(T, U, g)
  <1> DEFINE O == [T EXCEPT !.gui.open = @ \union {w}]
             B == BuildGroup(O, w, g)
  <1>1. /\ Sound(O) /\ O.gui.running /\ w \in O.gui.open
        /\ O.pages = T.pages /\ O.daemon = T.daemon /\ O.files = T.files /\ O.past = T.past
        /\ O.gui.session = T.gui.session /\ O.gui.recorded = T.gui.recorded
        /\ O.gui.open = T.gui.open \union {w}
    BY OpenWindowSound
  <1>2. U = IF CanBuild(T, g) THEN B ELSE IF CanShow(T, g) THEN O ELSE T  BY DEF RestoreSaved
  <1> HIDE DEF O
  <1>3. CASE CanBuild(T, g)
    <2>1. U = B  BY <1>2, <1>3
    <2> DEFINE p == FreshPage(O)
               ss == Rebuilt(O, g)
    <2>2. CanBuild(O, g) /\ ss = Rebuilt(T, g)
      BY <1>1, <1>3 DEF CanBuild, InstanceOk, OnScreen, MembersOf, Rebuilt, Alive
    <2>3. HasFreshPage(O)  BY <1>1 DEF HasFreshPage
    <2>4. Sound(U)  BY <1>1, <2>1, <2>2, <2>3, BuildSound
    <2>5. p \in Pages /\ O.pages[p].win = NoWindow  BY <2>3, FreshPageUnused
    <2>6. Shape(O)  BY <1>1 DEF Sound, Basic
    <2> HIDE DEF p, ss
    <2>7. /\ U.daemon = O.daemon /\ U.gui = O.gui /\ U.files = O.files
          /\ U.past.era = O.past.era /\ U.past.shown = O.past.shown
          /\ U.pages[p].win = w /\ U.pages[p].panes = ss /\ U.pages[p].gid = g
          /\ U.pages[p].live = ss
          /\ \A q \in Pages \ {p} : SameTab(O.pages[q], U.pages[q])
          /\ \A q \in Pages \ {p} : U.pages[q].live = O.pages[q].live \ ss
      BY <2>1, <2>3, <2>6, BuildEffect DEF p, ss
    <2>8. Built(T, U, w, g)
      <3>1. \A q \in Pages \ {p} : /\ SameTab(T.pages[q], U.pages[q])
                                   /\ U.pages[q].live = T.pages[q].live \ Rebuilt(T, g)
        BY <1>1, <2>2, <2>7
      <3>2. /\ T.pages[p].win = NoWindow
            /\ U.pages[p].win = w /\ U.pages[p].gid = g
            /\ U.pages[p].panes = Rebuilt(T, g) /\ U.pages[p].live = Rebuilt(T, g)
        BY <1>1, <2>2, <2>5, <2>7
      <3>3. U.gui.open = T.gui.open \union {w}  BY <1>1, <2>7
      <3> QED  BY ONLY <1>3, <2>5, <3>1, <3>2, <3>3 DEF Built
    <2> QED  BY <1>1, <2>4, <2>7, <2>8
  <1>4. CASE ~CanBuild(T, g) /\ CanShow(T, g)
    <2>1. U = O  BY <1>2, <1>4
    <2> QED  BY <1>1, <1>4, <2>1 DEF Found
  <1>5. CASE ~CanBuild(T, g) /\ ~CanShow(T, g)
    <2>1. U = T  BY <1>2, <1>5
    <2> QED  BY <1>5, <2>1 DEF Skipped
  <1> QED  BY <1>3, <1>4, <1>5


\* One more group of layout.json.
LEMMA RestoringStep ==
  ASSUME NEW C, NEW T, NEW o, NEW n \in Nat, Restoring(C, T, o, n), Listed(C, o), n + 1 <= Len(o)
  PROVE  Restoring(C, RestoreSaved(T, o[n + 1][1], o[n + 1][2]), o, n + 1)
  <1>0. n + 1 \in 1..Len(o)  BY DEF Listed
  <1>1. PICK w \in Windows : \E g \in C.files.layout[w] : o[n + 1] = <<w, g>>
    BY <1>0 DEF Listed
  <1>2. PICK g \in C.files.layout[w] : o[n + 1] = <<w, g>>  BY <1>1
  <1>3. o[n + 1][1] = w /\ o[n + 1][2] = g  BY <1>2
  <1> DEFINE U == RestoreSaved(T, w, g)
  <1>4. Sound(T) /\ T.gui.running  BY DEF Restoring
  <1>5. HasFreshPage(T)  BY FreshPageLeft
  <1>6. /\ Sound(U) /\ U.gui.running
        /\ U.daemon = T.daemon /\ U.files = T.files
        /\ U.past.era = T.past.era /\ U.past.shown = T.past.shown
        /\ U.gui.session = T.gui.session /\ U.gui.recorded = T.gui.recorded
        /\ Built(T, U, w, g) \/ Found(T, U, w, g) \/ Skipped(T, U, g)
    BY <1>4, <1>5, RestoreSavedEffect
  <1> HIDE DEF U
  <1>7. \A i \in 1..n : i \in 1..n + 1 /\ i \in 1..Len(o) /\ o[i] # o[n + 1]
    BY <1>0 DEF Listed
  <1>8. InstanceOk(T) <=> InstanceOk(C)  BY DEF Restoring, InstanceOk
  <1>9. CASE U.pages = T.pages
    <2>1. \A p : TabAt(U, p) = TabAt(T, p)  BY <1>9 DEF TabAt
    <2>2. Exists(U) = Exists(T)  BY <1>9 DEF Exists
    <2>3. \A p \in Exists(U) : \E i \in 1..n + 1 : o[i] = TabAt(U, p)
      BY <1>7, <2>1, <2>2 DEF Restoring
    <2>4. \A p, q \in Exists(U) : p # q => TabAt(U, p) # TabAt(U, q)
      BY <2>1, <2>2 DEF Restoring
    <2>5. InstanceOk(C) \/ (U.pages = C.pages /\ U.gui.open = C.gui.open)
      <3>1. SUFFICES ASSUME ~InstanceOk(C) PROVE U.pages = C.pages /\ U.gui.open = C.gui.open
        OBVIOUS
      <3>2. Skipped(T, U, g)  BY <1>6, <1>8, <3>1 DEF Built, CanBuild, Found, CanShow
      <3> QED  BY <1>9, <3>1, <3>2 DEF Skipped, Restoring
    <2> QED  BY <1>3, <1>6, <2>3, <2>4, <2>5 DEF Restoring, U
  <1>10. CASE Built(T, U, w, g)
    <2>1. PICK p \in Pages :
            /\ T.pages[p].win = NoWindow
            /\ U.pages[p].win = w /\ U.pages[p].gid = g
            /\ U.pages[p].panes = Rebuilt(T, g) /\ U.pages[p].live = Rebuilt(T, g)
            /\ \A q \in Pages \ {p} : /\ SameTab(T.pages[q], U.pages[q])
                                      /\ U.pages[q].live = T.pages[q].live \ Rebuilt(T, g)
      BY <1>10 DEF Built
    <2>2. TabAt(U, p) = o[n + 1]  BY <1>2, <2>1 DEF TabAt
    <2>3. \A q \in Exists(U) \ {p} : q \in Exists(T) /\ TabAt(U, q) = TabAt(T, q)
      BY <2>1 DEF Exists, TabAt, SameTab
    <2>4. \A q \in Exists(T) : \E i \in 1..n : o[i] = TabAt(T, q)  BY DEF Restoring
    <2>5. \A q \in Exists(U) : \E i \in 1..n + 1 : o[i] = TabAt(U, q)
      <3>1. TAKE q \in Exists(U)
      <3>2. CASE q = p  BY <2>2, <3>2
      <3>3. CASE q # p
        <4>1. PICK i \in 1..n : o[i] = TabAt(T, q)  BY <2>3, <2>4, <3>3
        <4> QED  BY <1>7, <2>3, <3>3, <4>1
      <3> QED  BY <3>2, <3>3
    <2>6. \A q \in Exists(U) \ {p} : TabAt(U, q) # o[n + 1]  BY <1>7, <2>3, <2>4
    <2>7. \A q, r \in Exists(T) : q # r => TabAt(T, q) # TabAt(T, r)  BY DEF Restoring
    <2>8. \A q, r \in Exists(U) : q # r => TabAt(U, q) # TabAt(U, r)
      <3>1. TAKE q, r \in Exists(U)
      <3>2. CASE q = p \/ r = p  BY <2>2, <2>6, <3>2
      <3>3. CASE q # p /\ r # p  BY <2>3, <2>7, <3>3
      <3> QED  BY <3>2, <3>3
    <2>9. InstanceOk(C)  BY <1>8, <1>10 DEF Built, CanBuild
    <2> QED  BY <1>3, <1>6, <2>5, <2>8, <2>9 DEF Restoring, U
  <1> QED  BY <1>6, <1>9, <1>10 DEF Found, Skipped

\* The groups up to the n-th are on the screen again, and nothing else is.
Returns(C, g) == g \in DOMAIN C.daemon.groups /\ Rebuilt(C, g) # {}
Restored(C, T, o, n) ==
  /\ \A p \in Exists(T) : /\ T.pages[p].panes = Rebuilt(C, T.pages[p].gid)
                          /\ T.pages[p].live = T.pages[p].panes
                          /\ T.pages[p].gid \in DOMAIN C.daemon.groups
  /\ \A i \in 1..n : Returns(C, o[i][2]) => \E p \in Exists(T) : TabAt(T, p) = o[i]
  /\ \A w \in T.gui.open : \E i \in 1..n : o[i][1] = w /\ Returns(C, o[i][2])

\* No group's tab is found on the screen: the groups do not overlap.
LEMMA NothingFound ==
  ASSUME NEW C, NEW T, NEW o, NEW n \in Nat, Restoring(C, T, o, n), Listed(C, o), n + 1 <= Len(o),
         Restorable(C), Restored(C, T, o, n),
         NEW w \in Windows, NEW g \in C.files.layout[w], o[n + 1] = <<w, g>>
  PROVE  ~CanShow(T, g)
  <1>1. SUFFICES ASSUME NEW p \in Pages, T.pages[p].panes \intersect MembersOf(T, g) # {}
                 PROVE  FALSE
    BY DEF CanShow, OnScreen
  <1>2. PICK s : s \in T.pages[p].panes /\ s \in MembersOf(T, g)  BY <1>1
  <1>3. p \in Exists(T)
    BY <1>2 DEF Restoring, Sound, Basic, TabsOk, TabOk, Exists
  <1> DEFINE v == T.pages[p].win
             h == T.pages[p].gid
  <1>4. PICK i \in 1..n : o[i] = <<v, h>>  BY <1>3 DEF Restoring, TabAt
  <1>5. i \in 1..Len(o) /\ i # n + 1 /\ n + 1 \in 1..Len(o)  BY DEF Listed
  <1>6. PICK u \in Windows : \E k \in C.files.layout[u] : o[i] = <<u, k>>  BY <1>5 DEF Listed
  <1>7. v \in Windows /\ h \in C.files.layout[v]  BY <1>4, <1>6
  <1>8. /\ h \in DOMAIN C.daemon.groups /\ T.pages[p].panes = Rebuilt(C, h)  BY <1>3 DEF Restored
  <1>9. s \in DOMAIN C.daemon.sess /\ C.daemon.sess[s].group = g
    BY <1>2 DEF MembersOf, Restoring
  <1>10. s \in C.daemon.groups[h]  BY <1>2, <1>8 DEF Rebuilt
  <1>11. C.daemon.sess[s].group = h  BY <1>7, <1>8, <1>9, <1>10 DEF Restorable
  <1>12. g = h  BY <1>9, <1>11
  <1>13. v = w  BY <1>7, <1>12 DEF Restorable
  <1> QED  BY <1>4, <1>5, <1>12, <1>13 DEF Listed

\* One more group of layout.json is on the screen, if it can be.
LEMMA RestoredStep ==
  ASSUME NEW C, NEW T, NEW o, NEW n \in Nat, Restoring(C, T, o, n), Listed(C, o), n + 1 <= Len(o),
         Restorable(C), InstanceOk(C), Restored(C, T, o, n)
  PROVE  Restored(C, RestoreSaved(T, o[n + 1][1], o[n + 1][2]), o, n + 1)
  <1>0. n + 1 \in 1..Len(o)  BY DEF Listed
  <1>1. PICK w \in Windows : \E g \in C.files.layout[w] : o[n + 1] = <<w, g>>
    BY <1>0 DEF Listed
  <1>2. PICK g \in C.files.layout[w] : o[n + 1] = <<w, g>>  BY <1>1
  <1>3. o[n + 1][1] = w /\ o[n + 1][2] = g  BY <1>2
  <1> DEFINE U == RestoreSaved(T, w, g)
  <1>4. Sound(T) /\ T.gui.running  BY DEF Restoring
  <1>5. HasFreshPage(T)  BY FreshPageLeft
  <1>6. Built(T, U, w, g) \/ Found(T, U, w, g) \/ Skipped(T, U, g)
    BY <1>4, <1>5, RestoreSavedEffect
  <1> HIDE DEF U
  <1>7. ~CanShow(T, g)  BY <1>2, NothingFound
  <1>8. T.daemon = C.daemon  BY DEF Restoring
  <1>9. Rebuilt(T, g) = Rebuilt(C, g)  BY <1>8 DEF Rebuilt, Alive
  <1>10. InstanceOk(T)  BY DEF Restoring, InstanceOk
  <1>11. CASE Skipped(T, U, g)
    <2>1. ~Returns(C, g)
      BY <1>7, <1>8, <1>9, <1>10, <1>11 DEF Skipped, CanBuild, CanShow, Returns
    <2>2. Exists(U) = Exists(T) /\ \A p : TabAt(U, p) = TabAt(T, p)
      BY <1>11 DEF Skipped, Exists, TabAt
    <2>3. \A p \in Exists(U) : /\ U.pages[p].panes = Rebuilt(C, U.pages[p].gid)
                               /\ U.pages[p].live = U.pages[p].panes
                               /\ U.pages[p].gid \in DOMAIN C.daemon.groups
      BY <1>11, <2>2 DEF Skipped, Restored
    <2>4. \A i \in 1..n + 1 : Returns(C, o[i][2]) => \E p \in Exists(U) : TabAt(U, p) = o[i]
      <3>1. TAKE i \in 1..n + 1
      <3>2. CASE i = n + 1  BY <1>3, <2>1, <3>2
      <3>3. CASE i \in 1..n  BY <2>2, <3>3 DEF Restored
      <3> QED  BY <3>2, <3>3
    <2>5. \A v \in U.gui.open : \E i \in 1..n + 1 : o[i][1] = v /\ Returns(C, o[i][2])
      <3>1. \A i \in 1..n : i \in 1..n + 1  OBVIOUS
      <3> QED  BY <1>11, <3>1 DEF Skipped, Restored
    <2> QED  BY ONLY <1>3, <2>3, <2>4, <2>5 DEF Restored, U
  <1>12. CASE Built(T, U, w, g)
    <2>1. PICK p \in Pages :
            /\ T.pages[p].win = NoWindow
            /\ U.pages[p].win = w /\ U.pages[p].gid = g
            /\ U.pages[p].panes = Rebuilt(T, g) /\ U.pages[p].live = Rebuilt(T, g)
            /\ \A q \in Pages \ {p} : /\ SameTab(T.pages[q], U.pages[q])
                                      /\ U.pages[q].live = T.pages[q].live \ Rebuilt(T, g)
      BY <1>12 DEF Built
    <2>2. CanBuild(T, g) /\ U.gui.open = T.gui.open \union {w}  BY <1>12 DEF Built
    <2>3. g \in DOMAIN C.daemon.groups /\ Returns(C, g)
      BY <1>8, <1>9, <2>2 DEF CanBuild, Returns
    <2>4. Rebuilt(C, g) \subseteq MembersOf(T, g)
      BY <1>8, <2>3 DEF Restorable, Rebuilt, Alive, MembersOf
    <2>5. \A q \in Pages : T.pages[q].panes \intersect Rebuilt(C, g) = {}
      BY <2>2, <2>4 DEF CanBuild, OnScreen
    <2>6. p \in Exists(U) /\ TabAt(U, p) = o[n + 1]
      BY <1>2, <2>1, LayoutConstants DEF Exists, TabAt
    <2>7. ASSUME NEW q \in Exists(T)
          PROVE  q \in Exists(U) /\ q # p /\ q \in Pages /\ TabAt(U, q) = TabAt(T, q)
      BY <2>1 DEF Exists, SameTab, TabAt
    <2>8. ASSUME NEW q \in Exists(U) \ {p}
          PROVE  q \in Exists(T) /\ q \in Pages
      BY <2>1 DEF Exists, SameTab
    <2>9. ASSUME NEW q \in Exists(U)
          PROVE  /\ U.pages[q].panes = Rebuilt(C, U.pages[q].gid)
                 /\ U.pages[q].live = U.pages[q].panes
                 /\ U.pages[q].gid \in DOMAIN C.daemon.groups
      <3>1. CASE q = p  BY <1>9, <2>1, <2>3, <3>1
      <3>2. CASE q # p
        <4>1. q \in Exists(T) /\ q \in Pages  BY <2>8, <3>2
        <4>2. /\ T.pages[q].panes = Rebuilt(C, T.pages[q].gid)
              /\ T.pages[q].live = T.pages[q].panes
              /\ T.pages[q].gid \in DOMAIN C.daemon.groups
          BY <4>1 DEF Restored
        <4>3. SameTab(T.pages[q], U.pages[q]) /\ U.pages[q].live = T.pages[q].live \ Rebuilt(C, g)
          BY <1>9, <2>1, <3>2, <4>1
        <4>4. U.pages[q].live = T.pages[q].live  BY <2>5, <4>1, <4>2, <4>3
        <4> QED  BY <4>2, <4>3, <4>4 DEF SameTab
      <3> QED  BY <3>1, <3>2
    <2>10. \A i \in 1..n + 1 : Returns(C, o[i][2]) => \E q \in Exists(U) : TabAt(U, q) = o[i]
      <3>1. SUFFICES ASSUME NEW i \in 1..n + 1, Returns(C, o[i][2])
                     PROVE  \E q \in Exists(U) : TabAt(U, q) = o[i]
        OBVIOUS
      <3>2. CASE i = n + 1  BY <2>6, <3>2
      <3>3. CASE i \in 1..n
        <4>1. PICK q \in Exists(T) : TabAt(T, q) = o[i]  BY <3>1, <3>3 DEF Restored
        <4> QED  BY <2>7, <4>1
      <3> QED  BY <3>2, <3>3
    <2>11. \A v \in U.gui.open : \E i \in 1..n + 1 : o[i][1] = v /\ Returns(C, o[i][2])
      <3>1. TAKE v \in U.gui.open
      <3>2. CASE v = w  BY <1>3, <2>3, <3>2
      <3>3. CASE v # w
        <4>1. v \in T.gui.open  BY <2>2, <3>3
        <4>2. PICK i \in 1..n : o[i][1] = v /\ Returns(C, o[i][2])  BY <4>1 DEF Restored
        <4> QED  BY <4>2
      <3> QED  BY <3>2, <3>3
    <2> QED  BY ONLY <1>3, <2>9, <2>10, <2>11 DEF Restored, U
  <1> QED  BY <1>6, <1>7, <1>11, <1>12 DEF Found


\* The groups of layout.json have been seen.
LEMMA RestoreLoop ==
  ASSUME NEW C, NEW o, Listed(C, o), NEW T, RestoreFrom(C, o, Len(o), T), Restoring(C, C, o, 0)
  PROVE  /\ Restoring(C, T[Len(o)], o, Len(o))
         /\ Restorable(C) /\ InstanceOk(C) /\ Restored(C, C, o, 0) =>
              Restored(C, T[Len(o)], o, Len(o))
  <1> DEFINE good == Restorable(C) /\ InstanceOk(C) /\ Restored(C, C, o, 0)
             P(n) == Restoring(C, T[n], o, n) /\ (good => Restored(C, T[n], o, n))
             A == {n \in Nat : n <= Len(o) => P(n)}
  <1>0. Len(o) \in Nat  BY DEF Listed
  <1>1. 0 \in A
    <2>1. T[0] = C  BY <1>0 DEF RestoreFrom
    <2> QED  BY <2>1
  <1>2. ASSUME NEW n \in A PROVE n + 1 \in A
    <2>1. n \in Nat /\ (n <= Len(o) => P(n))  OBVIOUS
    <2>2. SUFFICES ASSUME n + 1 <= Len(o) PROVE P(n + 1)  BY <2>1
    <2>3. P(n)  BY <1>0, <2>1, <2>2
    <2>4. T[n + 1] = RestoreSaved(T[n], o[n + 1][1], o[n + 1][2])
      <3>1. n + 1 \in 0..Len(o) /\ n + 1 # 0 /\ (n + 1) - 1 = n  BY <1>0, <2>1, <2>2
      <3> QED  BY <3>1 DEF RestoreFrom
    <2> HIDE DEF good
    <2>5. Restoring(C, T[n + 1], o, n + 1)  BY <2>1, <2>2, <2>3, <2>4, RestoringStep
    <2>6. ASSUME good PROVE Restored(C, T[n + 1], o, n + 1)
      <3>1. Restored(C, T[n], o, n) /\ Restorable(C) /\ InstanceOk(C)  BY <2>3, <2>6 DEF good
      <3> QED  BY <2>1, <2>2, <2>3, <2>4, <3>1, RestoredStep
    <2> QED  BY <2>5, <2>6
  <1>3. Nat \subseteq A
    <2> HIDE DEF A
    <2> QED  BY <1>1, <1>2, Ind
  <1>4. P(Len(o))  BY <1>0, <1>3
  <1> QED  BY <1>4

\* A process that starts has no tab.
LEMMA NoTabYet ==
  ASSUME NEW S, TabsOk(S), S.gui.open = {}
  PROVE  Exists(S) = {}
  BY DEF TabsOk, TabOk, Exists

\* The check of the instance changes the process only.
LEMMA CheckInstanceSound ==
  ASSUME NEW S, Inv(S), ~S.gui.running, S.daemon.up, NEW C, C = CheckInstance(S)
  PROVE  /\ Sound(C) /\ C.gui.running /\ C.gui.open = {}
         /\ C.daemon = S.daemon /\ C.pages = S.pages /\ C.files = S.files /\ C.past = S.past
         /\ C.gui.session = S.daemon.inst /\ C.gui.recorded = S.files.groups
  <1>1. /\ Shape(S) /\ DaemonOk(S) /\ TabsOk(S) /\ GuiOk(S) /\ Filed(S) /\ EraOk(S)
    BY DEF Inv, Sound, Basic
  <1>2. /\ C.gui.running /\ C.gui.open = {} /\ C.gui.pending = "none" /\ ~C.gui.frozen
        /\ C.gui.session = S.daemon.inst /\ C.gui.recorded = S.files.groups
        /\ DOMAIN C.gui = {"running", "open", "pending", "frozen", "session", "recorded"}
    BY <1>1 DEF CheckInstance, NoGui, Shape
  <1>3. /\ C.daemon = S.daemon /\ C.pages = S.pages /\ C.files = S.files /\ C.past = S.past
        /\ DOMAIN C = DOMAIN S
    BY <1>1 DEF CheckInstance, Shape
  <1>4. S.gui.open = {}  BY <1>1 DEF GuiOk
  <1>5. Exists(S) = {}  BY <1>1, <1>4, NoTabYet
  <1>6. \A p \in Pages : /\ S.pages[p].win = NoWindow /\ S.pages[p].panes = {}
                         /\ S.pages[p].gid = 0 /\ S.pages[p].enrolled = {} /\ S.pages[p].live = {}
    BY <1>1, <1>5 DEF Exists, TabsOk, TabOk
  <1>7. Shape(C)  BY <1>1, <1>2, <1>3 DEF Shape
  <1>8. DaemonOk(C)  BY <1>1, <1>3 DEF DaemonOk
  <1>9. Alive(C) = Alive(S)  BY <1>3 DEF Alive
  <1>10. TabsOk(C)  BY <1>1, <1>3, <1>6, <1>9 DEF TabsOk, TabOk
  <1>11. GuiOk(C)  BY <1>1, <1>2, <1>3 DEF GuiOk, DaemonOk, Filed
  <1>12. Arranged(C)
    <2>1. \A p \in Pages : PageArranged(C, p)  BY <1>1, <1>3, <1>6 DEF PageArranged, DaemonOk
    <2>2. \A p, q \in Pages : p # q => Apart(C, p, q)  BY <1>3, <1>6 DEF Apart
    <2> QED  BY <2>1, <2>2 DEF Arranged
  <1>13. Filed(C)
    <2>1. ~C.past.saved  BY <1>1, <1>3 DEF GuiOk
    <2>2. LayoutFits(C)  BY <1>1, <1>3 DEF Filed, LayoutFits
    <2> QED  BY <1>1, <1>3, <2>1, <2>2 DEF Filed
  <1>14. EraOk(C)
    <2>1. Restorable(S) => Restorable(C)  BY <1>3, <1>9 DEF Restorable
    <2> QED  BY <1>1, <1>3, <2>1 DEF EraOk
  <1> QED  BY <1>2, <1>3, <1>7, <1>8, <1>10, <1>11, <1>12, <1>13, <1>14 DEF Sound, Basic

\* What a start leaves: the tabs that were restored, or the first window
\* with its tab.
LEMMA RestoreEffect ==
  ASSUME NEW C, Sound(C), C.gui.running, C.daemon.up, C.gui.open = {},
         NEW o, Listed(C, o), NEW w \in Windows, NEW R, R = Restore(C, o, w)
  PROVE  \E U : /\ Restoring(C, U, o, Len(o))
                /\ Restorable(C) /\ InstanceOk(C) => Restored(C, U, o, Len(o))
                /\ Inv(R)
                /\ \A p \in Pages : R.pages[p].gid = U.pages[p].gid
                /\ U.gui.open # {} => R.pages = U.pages /\ R.gui.open = U.gui.open
  <1> DEFINE F == CHOOSE T : RestoreFrom(C, o, Len(o), T)
             U == F[Len(o)]
             O == [U EXCEPT !.gui.open = {w}]
  <1>1. \E T : RestoreFrom(C, o, Len(o), T)
    <2>1. Len(o) \in Nat  BY DEF Listed
    <2> QED  BY <2>1, RestoreSteps
  <1>2. RestoreFrom(C, o, Len(o), F)  BY <1>1
  <1>3. R = IF U.gui.open # {} THEN ScheduleSave(U) ELSE AddTab(O, w)
    BY DEF Restore, RestoreFrom
  <1> HIDE DEF F
  <1>4. Exists(C) = {}  BY NoTabYet DEF Sound, Basic
  <1>5. Restoring(C, C, o, 0)  BY <1>4 DEF Restoring
  <1>6. Restored(C, C, o, 0)  BY <1>4 DEF Restored
  <1>7. /\ Restoring(C, U, o, Len(o))
        /\ Restorable(C) /\ InstanceOk(C) => Restored(C, U, o, Len(o))
    BY <1>2, <1>5, <1>6, RestoreLoop
  <1> HIDE DEF U
  <1>8. Sound(U) /\ U.gui.running /\ U.daemon = C.daemon  BY <1>7 DEF Restoring
  <1>9. Shape(U) /\ TabsOk(U)  BY <1>8 DEF Sound, Basic
  <1>10. CASE U.gui.open # {}
    <2>1. R = ScheduleSave(U)  BY <1>3, <1>10
    <2>2. R.pages = U.pages /\ R.gui.open = U.gui.open  BY <2>1, <1>9, ScheduleSaveEffect
    <2>3. Inv(R)  BY <1>8, <1>10, <2>1, ScheduleSaveInv
    <2> QED  BY <1>7, <2>2, <2>3
  <1>11. CASE U.gui.open = {}
    <2>1. R = AddTab(O, w)  BY <1>3, <1>11
    <2> DEFINE Q == [U EXCEPT !.gui.open = @ \union {w}]
    <2>2. O = Q
      <3>1. U.gui.open \union {w} = {w}  BY <1>11
      <3> QED  BY <3>1
    <2>3. /\ Sound(Q) /\ Q.gui.running /\ w \in Q.gui.open /\ Q.pages = U.pages /\ Q.daemon = U.daemon
      BY <1>8, OpenWindowSound
    <2> HIDE DEF Q, O
    <2>4. Exists(U) = {}  BY <1>9, <1>11, NoTabYet
    <2>5. HasFreshPage(O)  BY <2>2, <2>3, <2>4, LayoutConstants DEF HasFreshPage, Exists
    <2>6. /\ Inv(R) /\ \A q \in Pages : R.pages[q].gid = O.pages[q].gid
      BY <1>8, <2>1, <2>2, <2>3, <2>5, AddTabSound
    <2> QED  BY <1>7, <1>11, <2>2, <2>3, <2>6
  <1> QED  BY <1>10, <1>11

\* The GUI starts.
LEMMA StartInv ==
  ASSUME OverviewInv, Start
  PROVE  OverviewInv'
  <1> DEFINE S == State
             C == CheckInstance(S)
  <1>1. PICK o \in SavedOrders, w \in Windows : Becomes(Restore(C, o, w))  BY DEF Start
  <1>2. Inv(S)  BY DEF OverviewInv
  <1>3. Listed(S, o)  BY <1>2, SavedOrdersListed DEF Inv, Sound
  <1>4. ~S.gui.running /\ S.daemon.up  BY DEF Start, State
  <1> HIDE DEF S
  <1>5. /\ Sound(C) /\ C.gui.running /\ C.gui.open = {} /\ C.daemon = S.daemon /\ C.files = S.files
    BY <1>2, <1>4, CheckInstanceSound
  <1> HIDE DEF C
  <1>6. Listed(C, o)  BY <1>3, <1>5 DEF Listed
  <1> DEFINE R == Restore(C, o, w)
  <1>7. Inv(R)  BY <1>4, <1>5, <1>6, RestoreEffect
  <1> HIDE DEF R
  <1> QED  BY ONLY <1>1, <1>7, BecomesInv DEF R



-----------------------------------------------------------------------------
(* The theorems *)

\* A step of the tabs, the timer, the processes and the daemon.
LEMMA LayoutNextInv ==
  ASSUME OverviewInv, LayoutNext
  PROVE  OverviewInv'
  <1>1. CASE \E w \in Windows : NewTab(w)  BY <1>1, NewTabInv
  <1>2. CASE \E w \in Windows : CloseWindow(w)  BY <1>2, CloseWindowInv
  <1>3. CASE \E p \in Pages : Split(p)  BY <1>3, SplitInv
  <1>4. CASE \E p \in Pages : CloseTab(p)  BY <1>4, CloseTabInv
  <1>5. CASE \E p \in Pages : ToggleZoom(p)  BY <1>5, ToggleZoomInv
  <1>6. CASE \E p \in Pages : \E s \in 1..MaxSession : ClosePane(p, s)  BY <1>6, ClosePaneInv
  <1>7. CASE \E p \in Pages : \E s \in 1..MaxSession : PaneDies(p, s)  BY <1>7, PaneDiesInv
  <1>8. CASE \E p \in Pages : \E s \in 1..MaxSession : OpenInNewTab(p, s)
    BY <1>8, OpenInNewTabInv
  <1>9. CASE \E p \in Pages : \E w \in Windows : MoveToNewWindow(p, w)
    BY <1>9, MoveToNewWindowInv
  <1>10. CASE \E w \in Windows, g \in 1..MaxGroup : RestoreGroup(w, g)
    BY <1>10, RestoreGroupInv
  <1>11. CASE \E s \in 1..MaxSession : ShellExits(s)  BY <1>11, ShellExitsInv
  <1>12. CASE FocusMoves \/ LayoutChanges
    <2>1. /\ State.gui.running
          /\ Becomes(ScheduleSave(State)) \/ Becomes(ScheduleGroupSave(State))
      BY <1>12 DEF FocusMoves, LayoutChanges, UserActs, State
    <2> QED  BY <2>1, SchedulesInv
  <1>13. CASE SaveTimeout  BY <1>13, SaveTimeoutStep
  <1>14. CASE Crash \/ CrashInSave  BY <1>14, CrashesInv
  <1>15. CASE Start  BY <1>15, StartInv
  <1>16. CASE DaemonStops  BY <1>16, DaemonStopsInv
  <1>17. CASE DaemonStarts  BY <1>17, DaemonStartsInv
  <1> QED
    BY <1>1, <1>2, <1>3, <1>4, <1>5, <1>6, <1>7, <1>8, <1>9, <1>10, <1>11, <1>12, <1>13, <1>14,
       <1>15, <1>16, <1>17 DEF LayoutNext

\* What is on the screen, in the files, in the daemon and in the history
\* fits together in every state.
THEOREM Invariance == Spec => []OverviewInv
  <1>1. Init => OverviewInv  BY InitInv
  <1>2. OverviewInv /\ [Next]_vars => OverviewInv'
    <2>1. SUFFICES ASSUME OverviewInv, [Next]_vars PROVE OverviewInv'  OBVIOUS
    <2>2. CASE LayoutNext  BY <2>1, <2>2, LayoutNextInv
    <2>3. CASE OverviewNext  BY <2>1, <2>3, OverviewNextInv
    <2>4. CASE UNCHANGED vars
      <3>1. State' = State  BY <2>4 DEF vars, State
      <3> QED  BY <2>1, <3>1 DEF OverviewInv
    <2> QED  BY <2>1, <2>2, <2>3, <2>4 DEF Next
  <1> QED  BY <1>1, <1>2, PTL DEF Spec

\* save_timeout_cb and sync_page_group: the groups and layout.json are as the
\* tabs are once a sync has run and nothing has changed since.
THEOREM SyncCorrect == Spec => []SyncIsComplete
  <1>1. OverviewInv => SyncIsComplete
    <2>1. SUFFICES ASSUME OverviewInv, Orderly(State), gui.pending = "none", ~gui.frozen, ~past.missed
                   PROVE  /\ \A p \in Exists(State) : ~pages[p].zoomed =>
                               /\ pages[p].gid \in DOMAIN daemon.groups
                               /\ daemon.groups[pages[p].gid] = pages[p].panes
                               /\ \A s \in pages[p].panes : daemon.sess[s].group = pages[p].gid
                          /\ past.saved =>
                               /\ files.layout = [w \in Windows |-> GroupIds(State, w)]
                               /\ files.groups = daemon.inst
      BY DEF SyncIsComplete
    <2>2. /\ State.gui = gui /\ State.past = past /\ State.daemon = daemon
          /\ State.pages = pages /\ State.files = files
      BY DEF State
    <2>3. SyncOk(State) /\ ListOk(State) /\ Filed(State)  BY <2>1 DEF OverviewInv, Inv, Sound
    <2>4. AllSynced(State)  BY <2>1, <2>2, <2>3 DEF SyncOk, Settled
    <2>5. gui.running  BY <2>1, <2>2 DEF Orderly
    <2>6. past.saved => files.layout = [w \in Windows |-> GroupIds(State, w)]
      BY <2>1, <2>2, <2>3, <2>5 DEF ListOk, LayoutOf
    <2>7. past.saved => files.groups = daemon.inst
      BY <2>1, <2>2, <2>3 DEF Filed, Current, Orderly
    <2> QED  BY <2>2, <2>4, <2>6, <2>7 DEF AllSynced, Synced
  <1> QED  BY <1>1, Invariance, PTL

\* A nonempty set of naturals has a least member.
LEMMA MinIn ==
  ASSUME NEW X, X \subseteq Nat, X # {}
  PROVE  Min(X) \in X
  <1>1. SUFFICES ASSUME \A x \in X : ~(\A y \in X : x =< y) PROVE FALSE  BY DEF Min
  <1> DEFINE A == {n \in Nat : \A x \in X : n <= x}
  <1>2. 0 \in A  OBVIOUS
  <1>3. ASSUME NEW n \in A PROVE n + 1 \in A
    <2>1. n \notin X  BY <1>1
    <2>2. \A x \in X : n + 1 <= x  BY <2>1
    <2> QED  BY <2>2
  <1>4. Nat \subseteq A
    <2> HIDE DEF A
    <2> QED  BY <1>2, <1>3, Ind
  <1>5. PICK x : x \in X  OBVIOUS
  <1>6. x + 1 \in A  BY <1>4, <1>5
  <1> QED  BY <1>5, <1>6


\* What a card shows are live members of its group.
LEMMA CardShowsMembers ==
  ASSUME OverviewInv, NEW g
  PROVE  Reconciled(g) \subseteq Members(g) \intersect Alive(State)
  <1> DEFINE alive == Members(g) \intersect Alive(State)
             leaves == daemon.groups[g] \intersect alive
  <1>1. alive \subseteq Nat
    BY DEF OverviewInv, Inv, Sound, Basic, DaemonOk, Members, MembersOf
  <1>2. Reconciled(g) = IF leaves # {} \/ alive = {} THEN leaves ELSE {Min(alive)}
    BY DEF Reconciled
  <1>3. leaves \subseteq alive  OBVIOUS
  <1> HIDE DEF alive, leaves
  <1>4. alive # {} => Min(alive) \in alive  BY <1>1, MinIn
  <1>5. Reconciled(g) \subseteq alive  BY <1>2, <1>3, <1>4
  <1> QED  BY <1>5 DEF alive

\* Every tab has its group, and its card shows just its panes.
TabCarded(p) ==
  /\ pages[p].gid # 0 /\ pages[p].gid \in Groups
  /\ pages[p].panes # {} /\ pages[p].live = pages[p].panes
  /\ pages[p].panes \subseteq Members(pages[p].gid) \intersect Alive(State)
  /\ Reconciled(pages[p].gid) = pages[p].panes
Carded ==
  /\ \A p \in Exists(State) : TabCarded(p)
  /\ \A p, q \in Exists(State) : p # q => pages[p].gid # pages[q].gid
  /\ \A p \in Pages \ Exists(State) : pages[p].gid = 0 /\ pages[p].live = {}

\* After a sync, with nothing changed since, that is so.
LEMMA CardsOfTabs ==
  ASSUME OverviewInv, Orderly(State), gui.pending = "none", ~gui.frozen, ~past.missed,
         \A p \in Pages : ~pages[p].zoomed
  PROVE  Carded
  <1> DEFINE S == State
  <1>1. /\ S.gui = gui /\ S.past = past /\ S.daemon = daemon /\ S.pages = pages
    BY DEF State
  <1>2. Inv(S)  BY DEF OverviewInv
  <1>3. /\ DaemonOk(S) /\ TabsOk(S) /\ Arranged(S) /\ SyncOk(S)
    BY <1>2 DEF Inv, Sound, Basic
  <1>4. AllSynced(S)  BY <1>1, <1>3 DEF SyncOk, Settled
  <1>5. Current(S) /\ ~S.past.foreign  BY DEF Orderly, Current
  <1>6. \A p, q \in Pages : p # q => Apart(S, p, q)  BY <1>3, <1>5 DEF Arranged
  <1>7. ASSUME NEW p \in Exists(S) PROVE TabCarded(p)
    <2>1. p \in Pages /\ S.pages[p].win # NoWindow  BY DEF Exists
    <2>2. Synced(S, p)  BY <1>1, <1>4, <2>1 DEF AllSynced
    <2>3. S.pages[p].live = S.pages[p].panes  BY <2>1 DEF Orderly
    <2>4. S.pages[p].panes # {} /\ S.pages[p].live \subseteq Alive(S)
      BY <1>3, <2>1 DEF TabsOk, TabOk
    <2> DEFINE g == S.pages[p].gid
    <2>5. g \in DOMAIN S.daemon.groups /\ S.daemon.groups[g] = S.pages[p].panes
      BY <2>2 DEF Synced
    <2>6. g # 0  BY <1>3, <2>5 DEF DaemonOk
    <2>7. S.pages[p].panes \subseteq MembersOf(S, g) \intersect Alive(S)
      BY <2>2, <2>3, <2>4 DEF Synced, MembersOf, Alive
    <2> HIDE DEF g
    <2>8. Reconciled(g) = S.pages[p].panes
      <3>1. S.daemon.groups[g] \intersect (MembersOf(S, g) \intersect Alive(S)) = S.pages[p].panes
        BY <2>5, <2>7
      <3> QED  BY <1>1, <2>4, <3>1 DEF Reconciled, Members
    <2> QED  BY <1>1, <2>3, <2>4, <2>5, <2>6, <2>7, <2>8 DEF TabCarded, Groups, Members, g
  <1>8. ASSUME NEW p \in Exists(S), NEW q \in Exists(S), p # q PROVE pages[p].gid # pages[q].gid
    <2>1. Apart(S, p, q)  BY <1>6, <1>8 DEF Exists
    <2>2. pages[p].gid # 0  BY <1>7 DEF TabCarded
    <2> QED  BY <1>1, <2>1, <2>2 DEF Apart
  <1>9. ASSUME NEW p \in Pages \ Exists(S) PROVE pages[p].gid = 0 /\ pages[p].live = {}
    BY <1>1, <1>3 DEF TabsOk, TabOk, Exists
  <1> QED  BY <1>7, <1>8, <1>9 DEF Carded

\* A group is attached when it is the group of a tab.
LEMMA AttachedGroups ==
  ASSUME Carded, NEW g
  PROVE  IsAttached(g) <=> \E p \in Exists(State) : pages[p].gid = g
  <1>1. State.pages = pages /\ State.daemon = daemon  BY DEF State
  <1>2. Attached(State) = UNION {pages[p].live : p \in Pages}  BY <1>1 DEF Attached
  <1>3. ASSUME NEW p \in Exists(State), pages[p].gid = g PROVE IsAttached(g)
    <2>1. p \in Pages  BY DEF Exists
    <2>2. PICK s : s \in pages[p].panes  BY DEF Carded, TabCarded
    <2>3. s \in Members(g) /\ s \in pages[p].live  BY <1>3, <2>2 DEF Carded, TabCarded
    <2> QED  BY <1>2, <2>1, <2>3 DEF IsAttached
  <1>4. ASSUME IsAttached(g) PROVE \E p \in Exists(State) : pages[p].gid = g
    <2>1. PICK s : s \in Members(g) /\ s \in Attached(State)  BY <1>4 DEF IsAttached
    <2>2. PICK p \in Pages : s \in pages[p].live  BY <1>2, <2>1
    <2>3. p \in Exists(State)  BY <2>2 DEF Carded
    <2>4. s \in Members(pages[p].gid)  BY <2>2, <2>3 DEF Carded, TabCarded
    <2> QED  BY <2>1, <2>3, <2>4 DEF Members, MembersOf
  <1> QED  BY <1>3, <1>4

\* The orphans are on no card and in no group of another window.
LEMMA OrphansAre ==
  ASSUME NEW w, NEW s
  PROVE  s \in Orphans(w) <=> /\ s \in Alive(State)
                              /\ \A g \in CardGroups(w) : s \notin Reconciled(g)
                              /\ \A g \in Elsewhere(w) : s \notin Members(g)
  <1> DEFINE A == UNION {Reconciled(g) : g \in CardGroups(w)}
             B == UNION {Members(g) : g \in Elsewhere(w)}
  <1>1. s \in A <=> \E g \in CardGroups(w) : s \in Reconciled(g)  OBVIOUS
  <1>2. s \in B <=> \E g \in Elsewhere(w) : s \in Members(g)  OBVIOUS
  <1>3. Orphans(w) = Alive(State) \ (A \union B)  BY DEF Orphans
  <1> HIDE DEF A, B
  <1> QED  BY <1>1, <1>2, <1>3

\* The overview of a window shows every live session once.
LEMMA ShownOnce ==
  ASSUME OverviewInv, Carded, NEW w \in gui.open, NEW s \in Alive(State)
  PROVE  LET cards == {g \in CardGroups(w) : s \in Reconciled(g)}
             orphan == IF s \in Orphans(w) THEN 1 ELSE 0
         IN Cardinality(cards) + orphan = IF ShownElsewhere(w, s) THEN 0 ELSE 1
  <1> DEFINE cards == {g \in CardGroups(w) : s \in Reconciled(g)}
             orphan == IF s \in Orphans(w) THEN 1 ELSE 0
             h == daemon.sess[s].group
  <1>1. State.pages = pages /\ State.daemon = daemon /\ State.gui = gui  BY DEF State
  <1>2. w \in Windows /\ w # NoWindow
    BY <1>1, LayoutConstants DEF OverviewInv, Inv, Sound, Basic, GuiOk
  <1>3. \A g : s \in Members(g) <=> g = h  BY <1>1 DEF Alive, Members, MembersOf
  <1>4. \A g : s \in Reconciled(g) => g = h  BY <1>3, CardShowsMembers
  <1>5. cards = IF h \in CardGroups(w) /\ s \in Reconciled(h) THEN {h} ELSE {}  BY <1>4
  <1>6. Cardinality(cards) = IF h \in CardGroups(w) /\ s \in Reconciled(h) THEN 1 ELSE 0
    <2>1. Cardinality({h}) = 1  BY FS_Singleton
    <2>2. Cardinality({}) = 0  BY FS_EmptySet
    <2> HIDE DEF cards, h
    <2> QED  BY <1>5, <2>1, <2>2
  <1>7. s \in Orphans(w) <=>
          ~(h \in CardGroups(w) /\ s \in Reconciled(h)) /\ h \notin Elsewhere(w)
    BY <1>3, <1>4, OrphansAre
  <1>8. IsAttached(h) <=> \E p \in Exists(State) : pages[p].gid = h  BY AttachedGroups
  <1>9. h \in Mine(w) <=> \E p \in Exists(State) : pages[p].win = w /\ pages[p].gid = h
    <2>1. Mine(w) = {pages[p].gid : p \in {q \in Pages : pages[q].win = w}} \ {0}
      BY <1>1 DEF Mine, GroupIds
    <2>2. \A p \in Pages : p \in Exists(State) <=> pages[p].win # NoWindow  BY <1>1 DEF Exists
    <2>3. \A p \in Exists(State) : pages[p].gid # 0 /\ p \in Pages
      BY DEF Carded, TabCarded, Exists
    <2> HIDE DEF h
    <2> QED  BY <1>2, <2>1, <2>2, <2>3
  <1>10. ShownElsewhere(w, s) <=>
           \E p \in Exists(State) : pages[p].win # w /\ pages[p].gid = h
    <2>1. \A p \in Pages : p \in Exists(State) <=> pages[p].win # NoWindow  BY <1>1 DEF Exists
    <2>2. \A p \in Exists(State) : pages[p].gid # 0 /\ p \in Pages
      BY DEF Carded, TabCarded, Exists
    <2> QED  BY <2>1, <2>2 DEF ShownElsewhere
  <1>11. \A p \in Exists(State) : pages[p].gid \in Groups  BY DEF Carded, TabCarded
  <1>12. h \in CardGroups(w) <=> h \in Groups /\ (h \in Mine(w) \/ ~IsAttached(h))
    BY DEF CardGroups
  <1>13. h \in Elsewhere(w) <=> h \in Groups /\ IsAttached(h) /\ h \notin Mine(w)
    BY DEF Elsewhere
  <1>14. \A p, q \in Exists(State) : pages[p].gid = pages[q].gid => p = q  BY DEF Carded
  <1> HIDE DEF cards, h
  <1>15. CASE h \in Elsewhere(w)
    <2>1. ShownElsewhere(w, s)  BY <1>8, <1>9, <1>10, <1>13, <1>15
    <2>2. h \notin CardGroups(w)  BY <1>12, <1>13, <1>15
    <2> QED  BY <1>6, <1>7, <1>15, <2>1, <2>2 DEF cards
  <1>16. CASE h \notin Elsewhere(w)
    <2>1. ~ShownElsewhere(w, s)
      <3>1. SUFFICES ASSUME NEW p \in Exists(State), pages[p].win # w, pages[p].gid = h PROVE FALSE
        BY <1>10
      <3>2. h \in Groups /\ IsAttached(h)  BY <1>8, <1>11, <3>1
      <3>3. h \notin Mine(w)  BY <1>9, <1>14, <3>1
      <3> QED  BY <1>13, <1>16, <3>2, <3>3
    <2>2. orphan = IF h \in CardGroups(w) /\ s \in Reconciled(h) THEN 0 ELSE 1
      BY <1>7, <1>16
    <2> QED  BY <1>6, <2>1, <2>2 DEF cards
  <1> QED  BY <1>15, <1>16

\* epimone-overview.c, overview_reload: every live session on one card, all
\* panes of a tab on its own, and nothing that is on the screen among the
\* orphans.
THEOREM OverviewCorrect == Spec => []OverviewIsTrue
  <1>1. OverviewInv => OverviewIsTrue
    <2>1. SUFFICES ASSUME OverviewInv, Orderly(State), gui.pending = "none", ~gui.frozen, ~past.missed,
                          \A p \in Pages : ~pages[p].zoomed, NEW w \in gui.open
                   PROVE  /\ \A s \in Alive(State) :
                               LET cards == {g \in CardGroups(w) : s \in Reconciled(g)}
                                   orphan == IF s \in Orphans(w) THEN 1 ELSE 0
                               IN Cardinality(cards) + orphan = IF ShownElsewhere(w, s) THEN 0 ELSE 1
                          /\ \A p \in Tabs(w) : pages[p].panes \subseteq Reconciled(pages[p].gid)
                          /\ Orphans(w) \intersect Attached(State) = {}
      BY DEF OverviewIsTrue
    <2>2. Carded  BY <2>1, CardsOfTabs
    <2>3. State.pages = pages /\ State.daemon = daemon /\ State.gui = gui  BY DEF State
    <2>4. w # NoWindow
      BY <2>1, <2>3, LayoutConstants DEF OverviewInv, Inv, Sound, Basic, GuiOk
    <2>5. \A p \in Tabs(w) : p \in Exists(State)  BY <2>3, <2>4 DEF Tabs, Exists
    <2>6. \A p \in Tabs(w) : pages[p].panes \subseteq Reconciled(pages[p].gid)
      BY <2>2, <2>5 DEF Carded, TabCarded
    <2>7. ASSUME NEW s \in Attached(State) PROVE s \notin Orphans(w)
      <3>1. PICK p \in Pages : s \in pages[p].live  BY <2>3 DEF Attached
      <3>2. p \in Exists(State)  BY <2>2, <3>1 DEF Carded
      <3> DEFINE g == pages[p].gid
      <3>3. g # 0 /\ g \in Groups /\ s \in Reconciled(g) /\ s \in Members(g)
        BY <2>2, <3>1, <3>2 DEF Carded, TabCarded
      <3>4. IsAttached(g)  BY <2>2, <3>2, AttachedGroups
      <3>5. g \in CardGroups(w) \/ g \in Elsewhere(w)  BY <3>3, <3>4 DEF CardGroups, Elsewhere
      <3> HIDE DEF g
      <3> QED  BY <3>3, <3>5, OrphansAre
    <2>8. \A s \in Alive(State) :
            LET cards == {g \in CardGroups(w) : s \in Reconciled(g)}
                orphan == IF s \in Orphans(w) THEN 1 ELSE 0
            IN Cardinality(cards) + orphan = IF ShownElsewhere(w, s) THEN 0 ELSE 1
      BY <2>1, <2>2, ShownOnce
    <2> QED  BY <2>6, <2>7, <2>8
  <1> QED  BY <1>1, Invariance, PTL


\* Only a start makes a process run.
LEMMA OnlyStartStarts ==
  ASSUME OverviewInv, [Next]_vars, ~gui.running, gui'.running
  PROVE  Start
  <1> DEFINE S == State
  <1>1. S.gui = gui /\ S.daemon = daemon /\ S.pages = pages  BY DEF State
  <1>2. Inv(S)  BY DEF OverviewInv
  <1>3. GuiOk(S) /\ TabsOk(S)  BY <1>2 DEF Inv, Sound, Basic
  <1> HIDE DEF S
  <1>4. gui.open = {} /\ gui.pending = "none"  BY <1>1, <1>3 DEF GuiOk
  <1>5. Exists(S) = {}  BY <1>1, <1>3, <1>4, NoTabYet
  <1>6. \A p \in Pages : pages[p].panes = {}
    BY <1>1, <1>3, <1>5 DEF Exists, TabsOk, TabOk
  <1>7. ~UserActs  BY DEF UserActs
  <1>8. \A w \in Windows : ~NewTab(w) /\ ~CloseWindow(w)  BY <1>4, <1>7 DEF NewTab, CloseWindow
  <1>9. \A p \in Pages : ~Split(p) /\ ~CloseTab(p) /\ ~ToggleZoom(p)
    BY <1>7 DEF Split, CloseTab, ToggleZoom
  <1>10. \A p \in Pages : \A s \in 1..MaxSession :
           ~ClosePane(p, s) /\ ~PaneDies(p, s) /\ ~OpenInNewTab(p, s)
    BY <1>6, <1>7 DEF ClosePane, PaneDies, OpenInNewTab
  <1>11. \A p \in Pages : \A w \in Windows : ~MoveToNewWindow(p, w)  BY <1>7 DEF MoveToNewWindow
  <1>12. \A w \in Windows : \A g \in 1..MaxGroup : ~RestoreGroup(w, g)  BY <1>4 DEF RestoreGroup
  <1>13. ~FocusMoves /\ ~LayoutChanges  BY <1>7 DEF FocusMoves, LayoutChanges
  <1>14. ~SaveTimeout /\ ~CrashInSave  BY <1>4 DEF SaveTimeout, CrashInSave
  <1>15. ~Crash  BY DEF Crash
  <1>16. \A s \in 1..MaxSession : ~ShellExits(s)
    <2>1. \A s \in 1..MaxSession : ShellExits(s) => gui' = gui
      BY DEF ShellExits, Becomes, State
    <2> QED  BY <2>1
  <1>17. ~DaemonStops
    <2>1. DaemonStops => gui' = gui  BY DEF DaemonStops, Becomes, State
    <2> QED  BY <2>1
  <1>18. ~DaemonStarts
    <2>1. DaemonStarts => gui' = gui  BY DEF DaemonStarts, Becomes, State
    <2> QED  BY <2>1
  <1>19. LayoutNext => Start
    BY <1>8, <1>9, <1>10, <1>11, <1>12, <1>13, <1>14, <1>15, <1>16, <1>17, <1>18 DEF LayoutNext
  <1>20. ~OverviewNext
    BY <1>7 DEF OverviewNext, KillWindow, KillAll, AttachInNewWindow, KillCard, KillOrphan, KillDetached
  <1>21. ~UNCHANGED vars  BY DEF vars
  <1> QED  BY <1>19, <1>20, <1>21 DEF Next

\* What was remembered, less what ended since.
Returning(C, w) == {t \in {u \intersect Alive(C) : u \in C.past.shown[w]} : t # {}}

\* What is restored is what was remembered.
LEMMA BroughtBack ==
  ASSUME NEW C, NEW U, NEW o, Listed(C, o), Restorable(C), Sound(U), Restored(C, U, o, Len(o)),
         DOMAIN C.files.layout = Windows
  PROVE  /\ \A w \in Windows : \A t \in Returning(C, w) :
              \E p \in Pages : /\ U.pages[p].win = w
                               /\ U.pages[p].panes = t /\ U.pages[p].live = t
         /\ U.gui.open = {w \in Windows : Returning(C, w) # {}}
  <1> DEFINE B(w) == {t \in {u \intersect Alive(C) : u \in C.past.shown[w]} : t # {}}
  <1>0. \A w : Returning(C, w) = B(w)  BY DEF Returning
  <1>1. ASSUME NEW w \in Windows, NEW t \in B(w)
        PROVE  \E p \in Pages : /\ U.pages[p].win = w
                                /\ U.pages[p].panes = t /\ U.pages[p].live = t
    <2>1. PICK u \in C.past.shown[w] : t = u \intersect Alive(C) /\ t # {}  OBVIOUS
    <2>2. PICK g \in C.files.layout[w] : g \in DOMAIN C.daemon.groups /\ C.daemon.groups[g] = u
      BY <2>1 DEF Restorable
    <2>3. Rebuilt(C, g) = t /\ Returns(C, g)  BY <2>1, <2>2 DEF Rebuilt, Returns
    <2>4. PICK i \in 1..Len(o) : o[i] = <<w, g>>  BY DEF Listed
    <2>5. o[i][1] = w /\ o[i][2] = g  BY <2>4
    <2>6. PICK p \in Exists(U) : TabAt(U, p) = <<w, g>>  BY <2>3, <2>4, <2>5 DEF Restored
    <2>7. U.pages[p].win = w /\ U.pages[p].gid = g  BY <2>6 DEF TabAt
    <2>8. p \in Pages  BY DEF Exists
    <2> QED  BY <2>3, <2>7, <2>8 DEF Restored
  <1>2. ASSUME NEW w \in Windows, B(w) # {} PROVE w \in U.gui.open
    <2>1. PICK t : t \in B(w)  BY <1>2
    <2>2. PICK p \in Pages : U.pages[p].win = w  BY <1>1, <2>1
    <2> QED  BY <2>2, LayoutConstants DEF Sound, Basic, TabsOk, TabOk
  <1>3. ASSUME NEW w \in U.gui.open PROVE w \in Windows /\ B(w) # {}
    <2>1. PICK i \in 1..Len(o) : o[i][1] = w /\ Returns(C, o[i][2])  BY DEF Restored
    <2>2. PICK v \in Windows : \E k \in C.files.layout[v] : o[i] = <<v, k>>  BY DEF Listed
    <2>3. PICK g \in C.files.layout[v] : o[i] = <<v, g>>  BY <2>2
    <2>4. v = w /\ Returns(C, g)  BY <2>1, <2>3
    <2>5. C.daemon.groups[g] \in C.past.shown[w]  BY <2>4 DEF Restorable, Returns
    <2>6. Rebuilt(C, g) \in B(w)  BY <2>4, <2>5 DEF Rebuilt, Returns
    <2> QED  BY <2>2, <2>4, <2>6
  <1>4. U.gui.open = {w \in Windows : B(w) # {}}
    <2> HIDE DEF B
    <2> QED  BY <1>2, <1>3
  <1> HIDE DEF B
  <1> QED  BY <1>0, <1>1, <1>4

\* epimone_layout_restore: a restart brings back, tab for tab and window for
\* window, what the last process to save had on the screen; unless another
\* daemon answers, and then no group is believed.
THEOREM RestartCorrect == Spec => RestartRestores
  <1> DEFINE Step == ~gui.running /\ gui'.running /\ past.era # 0 =>
               IF past.era # daemon.inst THEN \A p \in Pages : pages'[p].gid = 0
               ELSE /\ \A w \in Windows : \A t \in Brought(w) :
                         \E p \in Pages : /\ pages'[p].win = w
                                          /\ pages'[p].panes = t /\ pages'[p].live = t
                    /\ (\E w \in Windows : Brought(w) # {}) =>
                         gui'.open = {w \in Windows : Brought(w) # {}}
  <1>1. OverviewInv /\ [Next]_vars => Step
    <2>1. SUFFICES ASSUME OverviewInv, [Next]_vars, ~gui.running, gui'.running, past.era # 0
                   PROVE  IF past.era # daemon.inst THEN \A p \in Pages : pages'[p].gid = 0
                          ELSE /\ \A w \in Windows : \A t \in Brought(w) :
                                    \E p \in Pages : /\ pages'[p].win = w
                                                     /\ pages'[p].panes = t /\ pages'[p].live = t
                               /\ (\E w \in Windows : Brought(w) # {}) =>
                                    gui'.open = {w \in Windows : Brought(w) # {}}
      OBVIOUS
    <2>2. Start  BY <2>1, OnlyStartStarts
    <2> DEFINE S == State
               C == CheckInstance(S)
    <2>3. PICK o \in SavedOrders, x \in Windows : Becomes(Restore(C, o, x))  BY <2>2 DEF Start
    <2>4. Inv(S)  BY <2>1 DEF OverviewInv
    <2>5. Listed(S, o)  BY <2>4, SavedOrdersListed DEF Inv, Sound
    <2>6. ~S.gui.running /\ S.daemon.up  BY <2>2 DEF Start, State
    <2>7. /\ S.gui = gui /\ S.daemon = daemon /\ S.pages = pages /\ S.past = past /\ S.files = files
      BY DEF State
    <2> HIDE DEF S
    <2>8. /\ Sound(C) /\ C.gui.running /\ C.gui.open = {}
          /\ C.daemon = S.daemon /\ C.pages = S.pages /\ C.files = S.files /\ C.past = S.past
          /\ C.gui.session = S.daemon.inst /\ C.gui.recorded = S.files.groups
      BY <2>4, <2>6, CheckInstanceSound
    <2> HIDE DEF C
    <2>9. Listed(C, o) /\ C.daemon.up  BY <2>5, <2>6, <2>8 DEF Listed
    <2> DEFINE R == Restore(C, o, x)
    <2>10. PICK U : /\ Restoring(C, U, o, Len(o))
                    /\ Restorable(C) /\ InstanceOk(C) => Restored(C, U, o, Len(o))
                    /\ Inv(R)
                    /\ \A p \in Pages : R.pages[p].gid = U.pages[p].gid
                    /\ U.gui.open # {} => R.pages = U.pages /\ R.gui.open = U.gui.open
      BY ONLY <2>8, <2>9, RestoreEffect, x \in Windows
    <2>11. pages' = R.pages /\ gui' = R.gui  BY <2>3 DEF Becomes
    <2> HIDE DEF R
    <2>12. EraOk(C) /\ C.past.era = past.era /\ C.daemon.inst = daemon.inst /\ Filed(C)
      BY <2>7, <2>8 DEF Sound
    <2>13. CASE past.era # daemon.inst
      <3>1. ~InstanceOk(C)  BY <2>1, <2>8, <2>12, <2>13 DEF InstanceOk, EraOk
      <3>2. U.pages = C.pages  BY <2>10, <3>1 DEF Restoring
      <3>3. \A p \in Pages : C.pages[p].gid = 0
        <4>1. TabsOk(C) /\ Exists(C) = {}  BY <2>8, NoTabYet DEF Sound, Basic
        <4> QED  BY <4>1 DEF Exists, TabsOk, TabOk
      <3>4. \A p \in Pages : pages'[p].gid = 0  BY <2>10, <2>11, <3>2, <3>3
      <3> QED  BY <2>13, <3>4
    <2>14. CASE past.era = daemon.inst
      <3>1. Restorable(C) /\ InstanceOk(C)
        BY <2>1, <2>8, <2>9, <2>12, <2>14 DEF InstanceOk, EraOk
      <3>2. Restored(C, U, o, Len(o)) /\ Sound(U)  BY <2>10, <3>1 DEF Restoring
      <3>3. DOMAIN C.files.layout = Windows  BY <2>12 DEF Filed
      <3>4. \A w : Brought(w) = Returning(C, w)
        <4>1. Alive(C) = Alive(State)  BY <2>8 DEF Alive, S
        <4> QED  BY <2>7, <2>8, <4>1 DEF Brought, Returning
      <3>5. /\ \A w \in Windows : \A t \in Returning(C, w) :
                 \E p \in Pages : /\ U.pages[p].win = w
                                  /\ U.pages[p].panes = t /\ U.pages[p].live = t
            /\ U.gui.open = {w \in Windows : Returning(C, w) # {}}
        BY <2>9, <3>1, <3>2, <3>3, BroughtBack
      <3>6. /\ \A w \in Windows : \A t \in Brought(w) :
                 \E p \in Pages : /\ U.pages[p].win = w
                                  /\ U.pages[p].panes = t /\ U.pages[p].live = t
            /\ U.gui.open = {w \in Windows : Brought(w) # {}}
        BY <3>4, <3>5
      <3>7. ASSUME NEW w \in Windows, Brought(w) # {} PROVE pages' = U.pages /\ gui'.open = U.gui.open
        <4>1. U.gui.open # {}  BY <3>6, <3>7
        <4> QED  BY <2>10, <2>11, <4>1
      <3>8. \A w \in Windows : \A t \in Brought(w) :
              \E p \in Pages : /\ pages'[p].win = w
                               /\ pages'[p].panes = t /\ pages'[p].live = t
        BY <3>6, <3>7
      <3>9. (\E w \in Windows : Brought(w) # {}) => gui'.open = {w \in Windows : Brought(w) # {}}
        BY <3>6, <3>7
      <3> QED  BY <2>14, <3>8, <3>9
    <2> QED  BY <2>13, <2>14
  <1>2. RestartRestores <=> [][Step]_vars  BY DEF RestartRestores
  <1> HIDE DEF Step
  <1> QED  BY <1>1, <1>2, Invariance, PTL DEF Spec


===============================================================================
