------------------------------- MODULE Layout -------------------------------
(***************************************************************************)
(* How the arrangement of tabs survives them (epimone-layout.c): a GUI     *)
(* process keeps one daemon group per tab, with the tab's split tree as    *)
(* the group's blob, and two files, layout.json (the groups of each        *)
(* window) and groups.json (the daemon they belong to).  A later GUI       *)
(* process rebuilds its tabs from them.                                    *)
(*                                                                         *)
(* A tab is the set of sessions its panes show; the shape of the tree, the *)
(* titles, the window sizes and the order of tabs are left out.  The       *)
(* daemon is what Daemon.tla makes of it, seen through its requests: ids   *)
(* start again at 1 in every daemon, a group goes with its last member,    *)
(* an attach evicts the client before it.  A handler is an operator from a *)
(* state to the next, so that the calls it makes compose in their order.   *)
(***************************************************************************)
EXTENDS Naturals, FiniteSets, SequencesExt

CONSTANTS
  Pages,             \* EpimonePages, reused once destroyed
  Windows, NoWindow,
  MaxSession,        \* bound: session ids a daemon hands out
  MaxTotal,          \* bound: sessions created, by all daemons
  MaxGroup,          \* bound: group ids a daemon hands out
  MaxInst,           \* bound: daemons started
  MaxFaults          \* bound: saves with a failed request or write, shells and
                     \* daemons that end

ASSUME LayoutConstants ==
  /\ IsFiniteSet(Pages) /\ Pages # {}
  /\ NoWindow \notin Windows
  /\ MaxSession \in Nat /\ MaxGroup \in Nat

VARIABLES
  daemon,  \* [up, inst, sess: id -> [alive, group], groups: gid -> blob, nextS, nextG;
           \*  history: before, the sessions of earlier daemons]
  pages,   \* per page [win, panes, live, gid, enrolled, zoomed]
  gui,     \* [running, open, pending, frozen, session, recorded]
  files,   \* [layout: window -> group ids, groups: instance; history: of, the
           \* daemon whose ids layout.json holds]
  past     \* history: [shown, era, foreign, missed, saved], and the faults so far

vars == <<daemon, pages, gui, files, past>>

None == [w \in Windows |-> {}]   \* no window holds anything
NewDaemon(i, n) == [up |-> TRUE, inst |-> i, sess |-> <<>>, groups |-> <<>>,
                    nextS |-> 1, nextG |-> 1, before |-> n]
NoPageRecord == [win |-> NoWindow, panes |-> {}, live |-> {}, gid |-> 0,
                 enrolled |-> {}, zoomed |-> FALSE]
NoGui == [running |-> FALSE, open |-> {}, pending |-> "none", frozen |-> FALSE,
          session |-> 0, recorded |-> 0]
NoPast == [shown |-> None, era |-> 0, foreign |-> FALSE, missed |-> FALSE, saved |-> FALSE,
           faults |-> 0]

State == [daemon |-> daemon, pages |-> pages, gui |-> gui, files |-> files, past |-> past]

Becomes(S) ==
  /\ S.daemon.nextS <= MaxSession + 1
  /\ S.daemon.before + S.daemon.nextS <= MaxTotal + 1
  /\ S.daemon.nextG <= MaxGroup + 1
  /\ S.past.faults <= MaxFaults
  /\ daemon' = S.daemon
  /\ pages' = S.pages
  /\ gui' = S.gui
  /\ files' = S.files
  /\ past' = S.past

-----------------------------------------------------------------------------
(* The daemon's side of a request *)

Alive(S) == {s \in DOMAIN S.daemon.sess : S.daemon.sess[s].alive}
MembersOf(S, g) == {s \in DOMAIN S.daemon.sess : S.daemon.sess[s].group = g}
Attached(S) == UNION {S.pages[p].live : p \in Pages}

\* The groups without those that have lost their last member since S.
Collected(S, T) ==
  [T EXCEPT !.daemon.groups =
     Restrict(@, {g \in DOMAIN @ : MembersOf(S, g) = {} \/ MembersOf(T, g) # {}})]

\* The table f with the entry v for the id x.
With(f, x, v) == [y \in DOMAIN f \union {x} |-> IF y = x THEN v ELSE f[y]]

\* CREATE, without the attach.
CreateSession(S) ==
  [S EXCEPT !.daemon.sess = With(@, S.daemon.nextS, [alive |-> TRUE, group |-> 0]),
            !.daemon.nextS = @ + 1]

\* ATTACH of every session of ss by page p; the client before it loses its
\* channel.
AttachSessions(S, p, ss) ==
  [S EXCEPT !.pages = [q \in Pages |-> [S.pages[q] EXCEPT
     !.live = IF q = p THEN @ \union ss ELSE @ \ ss]]]

\* KILL of every session of ks that is there.
Kill(S, ks) ==
  Collected(S, [S EXCEPT
    !.daemon.sess = Restrict(@, DOMAIN @ \ ks),
    !.pages = [q \in Pages |-> [S.pages[q] EXCEPT !.live = @ \ ks]]])

\* GROUP_ADD of every session of ss that is there: an atomic move.
GroupAdd(S, g, ss) ==
  Collected(S, [S EXCEPT !.daemon.sess =
    [s \in DOMAIN @ |-> IF s \in ss THEN [@[s] EXCEPT !.group = g] ELSE @[s]]])

-----------------------------------------------------------------------------
(* Keeping groups and files in step *)

Exists(S) == {p \in Pages : S.pages[p].win # NoWindow}
GroupIds(S, w) == {S.pages[p].gid : p \in {q \in Pages : S.pages[q].win = w}} \ {0}

\* epimone_layout_schedule_save and epimone_layout_schedule_group_save
ScheduleSave(S) ==
  IF S.gui.frozen THEN S ELSE [S EXCEPT !.gui.pending = "layout"]
ScheduleGroupSave(S) ==
  IF S.gui.frozen \/ S.gui.pending # "none" THEN S ELSE [S EXCEPT !.gui.pending = "groups"]

\* Mutant of SetGroupId: the enrolments of the old group stay.
SetGroupIdOnly(S, p, g) == [S EXCEPT !.pages[p].gid = g]

\* epimone_page_set_group_id
SetGroupId(S, p, g) ==
  IF S.pages[p].gid = g THEN S
  ELSE [S EXCEPT !.pages[p].gid = g, !.pages[p].enrolled = {}]

\* GROUP_SET of the page's group; when it fails the page has no group.
UpdateBlob(S, p, fails) ==
  LET g == S.pages[p].gid IN
  IF g = 0 THEN S
  ELSE IF S.daemon.up /\ g \in DOMAIN S.daemon.groups /\ <<p, "set">> \notin fails
       THEN [S EXCEPT !.daemon.groups[g] = S.pages[p].panes]
       ELSE SetGroupId(S, p, 0)

\* GROUP_NEW for a page without a group.
CreateGroup(S, p, fails) ==
  IF S.pages[p].gid # 0 \/ ~S.daemon.up \/ <<p, "new">> \in fails THEN S
  ELSE SetGroupId([S EXCEPT
         !.daemon.groups = With(@, S.daemon.nextG, S.pages[p].panes),
         !.daemon.nextG = @ + 1], p, S.daemon.nextG)

\* GROUP_ADD for the panes that the daemon has not been told about.
EnrolPanes(S, p, fails) ==
  LET new == S.pages[p].panes \ S.pages[p].enrolled
      told == IF S.pages[p].gid \in DOMAIN S.daemon.groups /\ <<p, "add">> \notin fails
              THEN new \intersect DOMAIN S.daemon.sess ELSE {}
  IN [GroupAdd(S, S.pages[p].gid, told) EXCEPT !.pages[p].enrolled = @ \union told]

\* sync_page_group; fails are the requests that fail, with their pages.
SyncPageGroup(S, p, fails) ==
  IF S.pages[p].zoomed \/ S.pages[p].panes = {} THEN S
  ELSE EnrolPanes(CreateGroup(UpdateBlob(S, p, fails), p, fails), p, fails)

\* sync_groups_now up to save_groups_state, the tabs in the order given.
SyncGroups(S, order, fails) ==
  LET T[n \in 0..Len(order)] ==
        IF n = 0 THEN S ELSE SyncPageGroup(T[n - 1], order[n], fails)
  IN T[Len(order)]

\* save_groups_state: the instance is 0 when the daemon does not tell it; what
\* the process recorded follows the daemon, even if the file cannot be written.
SaveGroupsState(S, fails) ==
  LET inst == IF S.daemon.up /\ <<"file", "instance">> \notin fails THEN S.daemon.inst ELSE 0
  IN [S EXCEPT !.files.groups = IF <<"file", "groups">> \in fails THEN @ ELSE inst,
               !.gui.recorded = IF inst # 0 THEN inst ELSE @]

\* epimone_layout_save_now: a write that fails is not repeated.
SaveLayout(S, fails) ==
  IF S.gui.open = {} \/ <<"file", "layout">> \in fails THEN S
  ELSE [S EXCEPT !.files.layout =
                    [w \in Windows |-> IF w \in S.gui.open THEN GroupIds(S, w) ELSE {}],
                 !.files.of = S.daemon.inst]

\* The blobs first, then the file that references them.
SaveBoth(S, order, fails, layout) ==
  LET T == SaveGroupsState(SyncGroups(S, order, fails), fails) IN
  IF layout THEN SaveLayout(T, fails) ELSE T

\* Nothing on screen is being lost or waits for the next save.
Orderly(S) ==
  /\ S.gui.running /\ S.daemon.up
  /\ S.gui.session = S.daemon.inst
  /\ ~S.past.foreign
  /\ \A p \in Pages : S.pages[p].live = S.pages[p].panes

\* What a restart ought to bring back: the tabs of each window.
Shown(S) == [w \in Windows |-> {S.pages[p].panes : p \in {q \in Pages : S.pages[q].win = w}}]

\* The record of it for the process that is about to freeze or to crash.
Remember(S) ==
  IF /\ Orderly(S) /\ ~S.past.missed /\ S.past.saved
     /\ \A p \in Pages : ~S.pages[p].zoomed
  THEN [S EXCEPT !.past.shown = Shown(S), !.past.era = S.daemon.inst]
  ELSE S

Forget(S) == [S EXCEPT !.past.shown = None, !.past.era = 0]

\* SaveBoth with its history: missed, a tab was left without its group or its
\* panes; saved, layout.json was written, under the stamp of this daemon, and the
\* tabs have kept the groups it lists.
Save(S, order, fails, layout) ==
  LET T == Forget(SaveBoth(S, order, fails, layout))
      listed == IF layout THEN <<"file", "layout">> \notin fails
                ELSE S.past.saved /\ \A p \in Pages : T.pages[p].gid = S.pages[p].gid
  IN [T EXCEPT !.past.missed = \E f \in fails : f[2] \in {"new", "add"},
               !.past.saved = listed /\ T.files.groups = T.daemon.inst,
               !.past.faults = IF fails = {} THEN @ ELSE @ + 1]

\* epimone_layout_begin_shutdown
BeginShutdown(S, order, fails) ==
  IF S.gui.frozen THEN S
  ELSE [Remember(Save(S, order, fails, TRUE)) EXCEPT !.gui.pending = "none",
                                                     !.gui.frozen = TRUE]

-----------------------------------------------------------------------------
(* Windows, tabs and panes *)

\* The process ends with its last window.
EndProcess(S) ==
  IF S.gui.open # {} THEN S
  ELSE [S EXCEPT !.gui = NoGui, !.past.foreign = FALSE, !.past.missed = FALSE,
                 !.past.saved = FALSE]

\* A window closes with the tabs in it; their sessions are detached.
DropWindow(S, w) ==
  EndProcess([S EXCEPT
    !.pages = [p \in Pages |-> IF S.pages[p].win = w THEN NoPageRecord ELSE S.pages[p]],
    !.gui.open = @ \ {w}])

\* epimone_window_close_request_cb, past its question.
CloseRequest(S, w, order, fails) == DropWindow(BeginShutdown(S, order, fails), w)

\* A tab goes; epimone_window_notify_n_pages_cb closes a window without tabs.
DropPage(S, p, order, fails) ==
  LET w == S.pages[p].win
      T == [S EXCEPT !.pages[p] = NoPageRecord]
  IN IF \E q \in Pages : T.pages[q].win = w
     THEN ScheduleSave(T)
     ELSE CloseRequest(T, w, order, fails)

Unzoom(S, p) ==
  IF S.pages[p].zoomed THEN ScheduleGroupSave([S EXCEPT !.pages[p].zoomed = FALSE]) ELSE S

\* epimone_page_remove_terminal: the pane goes, its session is not killed.
RemoveTerminal(S, p, s, order, fails) ==
  IF S.pages[p].panes = {s} THEN DropPage(Unzoom(S, p), p, order, fails)
  ELSE ScheduleSave([Unzoom(S, p) EXCEPT !.pages[p].panes = @ \ {s},
                                         !.pages[p].live = @ \ {s}])

FreshPage(S) == CHOOSE p \in Pages : S.pages[p].win = NoWindow
HasFreshPage(S) == \E p \in Pages : S.pages[p].win = NoWindow

PutPage(S, p, w, ss) == [S EXCEPT !.pages[p] = [NoPageRecord EXCEPT !.win = w, !.panes = ss]]

\* epimone_window_add_tab: a tab with a session of its own.
AddTab(S, w) ==
  LET p == FreshPage(S)
      s == S.daemon.nextS
  IN ScheduleSave(AttachSessions(PutPage(CreateSession(S), p, w, {s}), p, {s}))

-----------------------------------------------------------------------------
(* Restoring a tab from its group *)

\* instance_ok
InstanceOk(S) ==
  /\ S.daemon.up
  /\ S.gui.session = S.daemon.inst
  /\ S.gui.recorded \in {0, S.daemon.inst}

\* find_page_for_members
OnScreen(S, ss) == \E p \in Pages : S.pages[p].panes \intersect ss # {}

\* build_node: the leaves whose session is alive, each attached.
Rebuilt(S, g) == S.daemon.groups[g] \intersect Alive(S)

\* The tab of group g is rebuilt in window w.  History: a restore is foreign
\* when a leaf of the blob belongs to another group by now, or when a tab
\* has the group whose panes the daemon has not been told about.
BuildGroup(S, w, g) ==
  LET p == FreshPage(S)
      ss == Rebuilt(S, g)
      T == AttachSessions(PutPage(S, p, w, ss), p, ss)
  IN [T EXCEPT !.pages[p].gid = g, !.pages[p].enrolled = ss,
               !.past.foreign = \/ @ \/ ~(ss \subseteq MembersOf(S, g))
                                \/ \E q \in Pages : S.pages[q].gid = g]

\* epimone_layout_restore_group: select the tab, rebuild it or refuse.
CanShow(S, g) == InstanceOk(S) /\ g \in DOMAIN S.daemon.groups /\ OnScreen(S, MembersOf(S, g))
CanBuild(S, g) ==
  /\ InstanceOk(S)
  /\ g \in DOMAIN S.daemon.groups
  /\ ~OnScreen(S, MembersOf(S, g))
  /\ Rebuilt(S, g) # {}

\* One group of layout.json, while the process starts.  A window is kept
\* when one of its groups was restored or found on the screen.
RestoreSaved(S, w, g) ==
  IF CanBuild(S, g) THEN BuildGroup([S EXCEPT !.gui.open = @ \union {w}], w, g)
  ELSE IF CanShow(S, g) THEN [S EXCEPT !.gui.open = @ \union {w}]
  ELSE S

\* The mutant of CheckInstance: groups.json is not read.
CheckInstanceLive(S) ==
  [S EXCEPT !.gui = [NoGui EXCEPT !.running = TRUE, !.session = S.daemon.inst,
                                  !.recorded = S.daemon.inst]]

\* epimone_layout_check_instance, in a process that starts.
CheckInstance(S) ==
  [S EXCEPT !.gui = [NoGui EXCEPT !.running = TRUE, !.session = S.daemon.inst,
                                  !.recorded = S.files.groups]]

\* The groups of layout.json, window after window.
SavedOrders ==
  LET saved == UNION {{<<w, g>> : g \in files.layout[w]} : w \in Windows} IN
  {o \in SetToSeqs(saved) :
     \A i, k \in DOMAIN o : i < k /\ o[i][1] = o[k][1] =>
       \A j \in i..k : o[j][1] = o[i][1]}

\* epimone_layout_restore, or the first window with its tab.
Restore(S, order, w) ==
  LET T[n \in 0..Len(order)] ==
        IF n = 0 THEN S ELSE RestoreSaved(T[n - 1], order[n][1], order[n][2])
      U == T[Len(order)]
  IN IF U.gui.open # {} THEN ScheduleSave(U)
     ELSE AddTab([U EXCEPT !.gui.open = {w}], w)

-----------------------------------------------------------------------------
(* What the user and the panes do *)

Tabs(w) == {p \in Pages : pages[p].win = w}

\* Bound: nobody uses the windows while the panes of a daemon that has gone
\* are being removed; the process ends with the last of them.
UserActs == gui.running /\ daemon.up /\ gui.session = daemon.inst

\* The requests a sync may send: a zoomed tab is passed over.
Requests == {r \in Exists(State) \X {"set", "new", "add"} :
               ~pages[r[1]].zoomed /\ (r[2] = "set" => pages[r[1]].gid # 0)}

\* What may fail in a save, while there are faults left: at most one of its
\* requests, the question for the daemon's instance, or the write of a file.
OneFails ==
  IF past.faults = MaxFaults THEN {{}}
  ELSE {{}} \union {{f} : f \in Requests \union ({"file"} \X {"instance", "groups", "layout"})}

\* The orders in which the tabs may be synced, and what may fail then.
Orders == SetToSeqs(Exists(State)) \X OneFails

\* The same when a window is closed: only the first to be closed saves.
OrdersAtClose == IF gui.frozen THEN {<< <<>>, {} >>} ELSE Orders

\* The same when page p goes, and with it perhaps its window.
OrdersWithout(p) ==
  IF gui.frozen \/ Tabs(pages[p].win) # {p} THEN {<< <<>>, {} >>}
  ELSE SetToSeqs(Exists(State) \ {p}) \X OneFails

NewTab(w) ==
  /\ UserActs /\ w \in gui.open /\ HasFreshPage(State)
  /\ Becomes(AddTab(State, w))

Split(p) ==
  /\ UserActs /\ p \in Exists(State)
  /\ LET S == Unzoom(CreateSession(State), p)
         T == [S EXCEPT !.pages[p].panes = @ \union {daemon.nextS}]
     IN Becomes(ScheduleSave(AttachSessions(T, p, {daemon.nextS})))

ClosePane(p, s) ==
  /\ UserActs /\ s \in pages[p].live
  /\ \E o \in OrdersWithout(p) : Becomes(RemoveTerminal(State, p, s, o[1], o[2]))

\* on_death_idle: the daemon lists the session as dead and it is killed, or
\* it does not and the pane just goes.
PaneDies(p, s) ==
  /\ s \in pages[p].panes \ pages[p].live
  /\ \E o \in OrdersWithout(p) :
       Becomes(RemoveTerminal(IF s \in Alive(State) THEN State ELSE Kill(State, {s}),
                              p, s, o[1], o[2]))

CloseTab(p) ==
  /\ UserActs /\ p \in Exists(State)
  /\ \E o \in OrdersWithout(p) : Becomes(DropPage(State, p, o[1], o[2]))

CloseWindow(w) ==
  /\ w \in gui.open
  /\ \E o \in OrdersAtClose : Becomes(CloseRequest(State, w, o[1], o[2]))

\* open_in_new_tab_action: the focused pane moves to a tab of its own.
OpenInNewTab(p, s) ==
  /\ UserActs /\ s \in pages[p].panes /\ pages[p].panes # {s} /\ HasFreshPage(State)
  /\ LET S == ScheduleSave(Unzoom(State, p))
         q == FreshPage(S)
         lives == pages[p].live \intersect {s}
     IN Becomes([PutPage(S, q, pages[p].win, {s}) EXCEPT
                   !.pages[q].live = lives,
                   !.pages[p].panes = @ \ {s}, !.pages[p].live = @ \ {s}])

MoveToNewWindow(p, w) ==
  /\ UserActs /\ p \in Exists(State) /\ Tabs(pages[p].win) # {p} /\ w \notin gui.open
  /\ Becomes(ScheduleSave([State EXCEPT !.pages[p].win = w, !.gui.open = @ \union {w}]))

ToggleZoom(p) ==
  /\ UserActs /\ p \in Exists(State)
  /\ IF pages[p].zoomed THEN Becomes(Unzoom(State, p))
     ELSE /\ Cardinality(pages[p].panes) > 1
          /\ Becomes([State EXCEPT !.pages[p].zoomed = TRUE])

\* Another pane or tab gets the focus; a divider moves or a title changes.
FocusMoves == UserActs /\ Becomes(ScheduleSave(State))
LayoutChanges == UserActs /\ Becomes(ScheduleGroupSave(State))

\* win.restore-group: the card of a group is activated.
RestoreGroup(w, g) ==
  /\ w \in gui.open /\ g \in DOMAIN daemon.groups
  /\ \/ CanShow(State, g) /\ Becomes(ScheduleSave(State))
     \/ CanBuild(State, g) /\ HasFreshPage(State)
        /\ Becomes(ScheduleSave(BuildGroup(State, w, g)))

-----------------------------------------------------------------------------
(* The debounce timer, crashes and starts *)

\* save_timeout_cb
SaveTimeout ==
  /\ gui.pending # "none"
  /\ \E o \in Orders :
       Becomes([Save(State, o[1], o[2], gui.pending = "layout") EXCEPT !.gui.pending = "none"])

Vanish(S) ==
  EndProcess([S EXCEPT !.pages = [p \in Pages |-> NoPageRecord], !.gui.open = {}])

Crash ==
  /\ gui.running
  /\ Becomes(Vanish(IF gui.pending = "none" /\ ~gui.frozen THEN Remember(State) ELSE State))

\* The process dies in a save, of the timer or of a window that closes, before
\* groups.json or between it and layout.json; which leaves ids of the former
\* daemon under the stamp of the present one.
CrashInSave ==
  /\ gui.open # {} /\ ~gui.frozen
  /\ \E o \in SetToSeqs(Exists(State)) :
       LET S == SyncGroups(State, o, {}) IN
       \/ Becomes(Vanish(IF past.era = daemon.inst THEN Forget(S) ELSE S))
       \/ Becomes(Vanish(Forget(SaveGroupsState(S, {}))))

\* activate_cb, with a daemon that answers.
Start ==
  /\ ~gui.running /\ daemon.up
  /\ \E o \in SavedOrders, w \in Windows :
       Becomes(Restore(CheckInstance(State), o, w))

\* A shell exits: its data channel ends and the daemon keeps the session.
ShellExits(s) ==
  /\ s \in Alive(State)
  /\ Becomes([State EXCEPT !.daemon.sess[s].alive = FALSE,
                           !.past.faults = @ + 1,
                           !.pages = [p \in Pages |-> [pages[p] EXCEPT !.live = @ \ {s}]]])

\* The daemon is stopped or started, by someone else or by ensure_daemon.
DaemonStops ==
  /\ daemon.up
  /\ Becomes([State EXCEPT !.daemon = [NewDaemon(daemon.inst, daemon.before + daemon.nextS - 1) EXCEPT !.up = FALSE],
                           !.past.faults = @ + 1, !.past.shown = None,
                           !.pages = [p \in Pages |-> [pages[p] EXCEPT !.live = {}]]])
DaemonStarts ==
  /\ ~daemon.up /\ daemon.inst < MaxInst
  /\ Becomes([State EXCEPT !.daemon = NewDaemon(daemon.inst + 1, daemon.before)])

Init ==
  /\ daemon = NewDaemon(1, 0)
  /\ pages = [p \in Pages |-> NoPageRecord]
  /\ gui = NoGui
  /\ files = [layout |-> None, groups |-> 0, of |-> 0]
  /\ past = NoPast

LayoutNext ==
  \/ \E w \in Windows : NewTab(w) \/ CloseWindow(w)
  \/ \E p \in Pages : \/ Split(p) \/ CloseTab(p) \/ ToggleZoom(p)
                      \/ \E s \in 1..MaxSession : \/ ClosePane(p, s)
                                                  \/ PaneDies(p, s)
                                                  \/ OpenInNewTab(p, s)
                      \/ \E w \in Windows : MoveToNewWindow(p, w)
  \/ \E w \in Windows, g \in 1..MaxGroup : RestoreGroup(w, g)
  \/ \E s \in 1..MaxSession : ShellExits(s)
  \/ FocusMoves \/ LayoutChanges \/ SaveTimeout
  \/ Crash \/ CrashInSave \/ Start \/ DaemonStops \/ DaemonStarts

LayoutSpec == Init /\ [][LayoutNext]_vars

-----------------------------------------------------------------------------
(* Properties *)

\* epimone-layout.c, save_timeout_cb and sync_page_group: once a sync has run,
\* no GROUP_NEW and no GROUP_ADD failed in it and nothing has changed since,
\* every tab that is not zoomed has a group that holds just its arrangement and
\* its sessions are members of it; a GROUP_SET that failed, a group that went
\* with its last member, a pane that came from another tab and files that could
\* not be written do not matter.  And if layout.json was written, it lists every
\* tab's group under its window, beside the stamp of the daemon they belong to.
SyncIsComplete ==
  (Orderly(State) /\ gui.pending = "none" /\ ~gui.frozen /\ ~past.missed) =>
    /\ \A p \in Exists(State) : ~pages[p].zoomed =>
         /\ pages[p].gid \in DOMAIN daemon.groups
         /\ daemon.groups[pages[p].gid] = pages[p].panes
         /\ \A s \in pages[p].panes : daemon.sess[s].group = pages[p].gid
    /\ past.saved => /\ files.layout = [w \in Windows |-> GroupIds(State, w)]
                     /\ files.groups = daemon.inst

\* epimone_layout_restore: what was on the screen when the last process to
\* save closed its first window or crashed with nothing left to save is on it
\* again, tab for tab and window for window, less the sessions that ended
\* since; unless another daemon answers, and then no group is believed.  That is
\* so when the last save gave every tab its group and its panes and left both
\* files up to date; what another save may leave is StaleIdsAreRefused's matter.
Brought(w) ==
  {t \in {u \intersect Alive(State) : u \in past.shown[w]} : t # {}}
RestartRestores ==
  [][~gui.running /\ gui'.running /\ past.era # 0 =>
       IF past.era # daemon.inst THEN \A p \in Pages : pages'[p].gid = 0
       ELSE /\ \A w \in Windows : \A t \in Brought(w) :
                 \E p \in Pages : /\ pages'[p].win = w
                                  /\ pages'[p].panes = t /\ pages'[p].live = t
            /\ (\E w \in Windows : Brought(w) # {}) =>
                 gui'.open = {w \in Windows : Brought(w) # {}}]_vars

\* epimone-layout.c, save_groups_state and instance_ok: groups.json is "stamped
\* with the daemon instance they belong to.  The stamp is checked before any of
\* these ids is trusted"; to rebuild from a stale id "is the one failure this
\* whole mechanism must not have".
StaleIdsAreRefused ==
  [][~gui.running /\ gui'.running /\ files.of # daemon.inst =>
       \A p \in Pages : pages'[p].gid = 0]_vars

=============================================================================
