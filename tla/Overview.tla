------------------------------ MODULE Overview ------------------------------
(***************************************************************************)
(* The session overview (epimone-overview.c): one card for every tab of    *)
(* the window and for every detached group, one for every session that     *)
(* none of them shows, and the kills that start from them.  It keeps no    *)
(* state of its own between two reloads: what it shows is computed from    *)
(* the daemon's lists and from the tabs of the window.                     *)
(***************************************************************************)
EXTENDS Layout

-----------------------------------------------------------------------------
(* overview_reload *)

Groups == DOMAIN daemon.groups
Members(g) == MembersOf(State, g)

\* epimone_window_dup_attached_group_ids
Mine(w) == GroupIds(State, w)
IsAttached(g) == Members(g) \intersect Attached(State) # {}

\* The window's own tabs, attached or not, and every detached group.
CardGroups(w) == {g \in Groups : g \in Mine(w) \/ ~IsAttached(g)}

\* Mutant of Reconciled: the blob is believed.
BlobLeaves(g) == daemon.groups[g]

\* The leaves of the blob that are live members; failing that one of the
\* live members.
Reconciled(g) ==
  LET alive == Members(g) \intersect Alive(State)
      leaves == daemon.groups[g] \intersect alive
  IN IF leaves # {} \/ alive = {} THEN leaves ELSE {Min(alive)}

\* Groups on the screen of another window: their cards are there.
Elsewhere(w) == {g \in Groups : IsAttached(g) /\ g \notin Mine(w)}

\* The safety net: live sessions that no card shows.
Orphans(w) ==
  Alive(State) \ ((UNION {Reconciled(g) : g \in CardGroups(w)})
                    \union (UNION {Members(g) : g \in Elsewhere(w)}))

-----------------------------------------------------------------------------
(* Kills and moves from the overview *)

\* The × of a group's card: its members at the time of the answer, by which
\* the group may have moved to another window since the card was built.
KillCard(g) ==
  /\ UserActs /\ g \in Groups
  /\ Becomes(Kill(State, Members(g)))

\* The × of an orphan's card, whatever has become of its session since.
KillOrphan(s) ==
  /\ UserActs /\ s \in DOMAIN daemon.sess
  /\ Becomes(Kill(State, {s}))

\* overview_kill_detached_execute, whatever was detached when the menu and the
\* question were opened.  A list of the sessions that fails is an empty one, and
\* then every group is taken for detached.
KillDetached ==
  /\ UserActs
  /\ \E listed \in BOOLEAN :
       LET detached == {g \in Groups : ~(listed /\ IsAttached(g))} IN
       /\ detached # {}
       /\ Becomes(Kill(State, UNION {Members(g) : g \in detached}))

\* overview_kill_window_execute: the doomed are listed, then the window gets
\* another tab, then they are killed.
KillWindow(w) ==
  /\ UserActs /\ w \in gui.open /\ HasFreshPage(State)
  /\ \E g \in Mine(w) \intersect Groups : Members(g) # {}
  /\ Becomes(Kill(AddTab(State, w), UNION {Members(g) : g \in Mine(w)}))

\* overview_kill_all_execute
KillAll(w) ==
  /\ UserActs /\ w \in gui.open /\ HasFreshPage(State) /\ DOMAIN daemon.sess # {}
  /\ Becomes(Kill(AddTab(State, w), DOMAIN daemon.sess))

\* card_action_attach_new_window_cb, for the card of a detached group.
AttachInNewWindow(w, g) ==
  /\ UserActs /\ w \notin gui.open /\ g \in Groups /\ ~IsAttached(g)
  /\ LET S == [State EXCEPT !.gui.open = @ \union {w}] IN
     \/ CanShow(State, g) /\ Becomes(ScheduleSave(S))
     \/ CanBuild(State, g) /\ HasFreshPage(State)
        /\ Becomes(ScheduleSave(BuildGroup(S, w, g)))

OverviewNext ==
  \/ \E w \in Windows : \/ KillWindow(w) \/ KillAll(w)
                        \/ \E g \in 1..MaxGroup : AttachInNewWindow(w, g)
  \/ \E g \in 1..MaxGroup : KillCard(g)
  \/ \E s \in 1..MaxSession : KillOrphan(s)
  \/ KillDetached

Next == LayoutNext \/ OverviewNext

Spec == Init /\ [][Next]_vars

-----------------------------------------------------------------------------
(* Properties *)

\* The tab whose card a session belongs on is in another window.
ShownElsewhere(w, s) ==
  \E p \in Pages : /\ pages[p].win \notin {w, NoWindow}
                   /\ pages[p].gid # 0 /\ pages[p].gid = daemon.sess[s].group

\* epimone-overview.c, overview_reload: "every session the daemon reports
\* ALIVE must appear on exactly one card"; in the overview of every window,
\* unless its tab is in another one.  A tab's card shows all its panes, and
\* no card that may be killed as detached shows a session on the screen.
OverviewIsTrue ==
  (/\ Orderly(State) /\ gui.pending = "none" /\ ~gui.frozen /\ ~past.missed
   /\ \A p \in Pages : ~pages[p].zoomed) =>
    \A w \in gui.open :
      /\ \A s \in Alive(State) :
           LET cards == {g \in CardGroups(w) : s \in Reconciled(g)}
               orphan == IF s \in Orphans(w) THEN 1 ELSE 0
           IN Cardinality(cards) + orphan = IF ShownElsewhere(w, s) THEN 0 ELSE 1
      /\ \A p \in Tabs(w) : pages[p].panes \subseteq Reconciled(pages[p].gid)
      /\ Orphans(w) \intersect Attached(State) = {}

\* epimone-overview.c, kill_window: "Only this window's tabs. Other windows
\* and detached sessions are untouched."
WindowKillSparesDetached ==
  [][\A w \in Windows : KillWindow(w) =>
       \A s \in DOMAIN daemon.sess \ DOMAIN daemon'.sess :
         \E p \in Tabs(w) : s \in pages[p].panes]_vars

\* epimone-overview.c, overview_kill_detached_execute: "Attached tabs anywhere
\* are untouched."  A step that the × of one card would explain does not count.
DetachedKillSparesTabs ==
  [][/\ KillDetached
     /\ ~\E g \in Groups : KillCard(g)
     /\ ~\E s \in DOMAIN daemon.sess : KillOrphan(s)
     =>
       Attached(State) \intersect (DOMAIN daemon.sess \ DOMAIN daemon'.sess) = {}]_vars

=============================================================================
