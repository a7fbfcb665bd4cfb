-------------------------------- MODULE Tabs --------------------------------
(***************************************************************************)
(* The widgets of one GUI process: windows, the tabs in them, the split    *)
(* tree of every tab, and what hangs on a pane: its scrim, its bridge's    *)
(* back pointer, its place in the zoom (epimone-page.c, epimone-window.c). *)
(*                                                                         *)
(* A split tree is the set of its leaves, each with the path from the      *)
(* root: 0 is a paned's start child, 1 its end child.  A handler is an     *)
(* operator from the state of the screen to the next, so that the calls it *)
(* makes compose in their order.  AdwTabView is not part of the source; it *)
(* selects some remaining tab when the selected one goes, refuses to close *)
(* a pinned tab and to insert before one.                                  *)
(***************************************************************************)
EXTENDS Naturals, FiniteSets, SequencesExt

CONSTANTS
  Panes, NoPane,     \* terminals, reused once destroyed
  Pages, NoPage,     \* EpimonePages, one per tab, reused once destroyed
  Windows, NoWindow,
  MaxOdd             \* bound: things out of the ordinary at a time

ASSUME TabsConstants ==
  /\ NoPane \notin Panes /\ NoPage \notin Pages /\ NoWindow \notin Windows
  /\ IsFiniteSet(Panes) /\ MaxOdd \in Nat

VARIABLES
  panes,        \* per terminal: where it is, and what belongs to it
  pages,        \* per EpimonePage
  windows,      \* per EpimoneWindow
  dimInactive,  \* epimone_dim_inactive
  stranded      \* pages that AdwTabView refused to insert

vars == <<panes, pages, windows, dimInactive, stranded>>

Titles == {"a", "b"}
NoTitle == [zoom |-> FALSE, base |-> "Terminal"]
NoPaneRecord == [page |-> NoPage, path |-> <<>>, bridge |-> NoPage,
                 death |-> "alive", shell |-> "a", scrim |-> FALSE]
NoPageRecord == [focused |-> NoPane, zoomed |-> NoPane, hidden |-> {},
                 custom |-> FALSE, title |-> NoTitle, pinned |-> FALSE]
NoDialog == [kind |-> "none", page |-> NoPage, pane |-> NoPane]
NoWindowRecord == [open |-> FALSE, tabs |-> <<>>, selected |-> NoPage,
                   menuOpen |-> NoPage, menuPage |-> NoPage,
                   menuIdle |-> FALSE, dialog |-> NoDialog]

Screen == [panes |-> panes, pages |-> pages, windows |-> windows,
           dim |-> dimInactive, lost |-> stranded]

\* What is out of the ordinary: panes without a session, with a dead one or
\* retitled, tabs pinned or named, menus up or not forgotten, dialogs, dimming.
Odd(S) ==
  Cardinality({t \in Panes : S.panes[t].page # NoPage /\ S.panes[t].bridge = NoPage})
  + Cardinality({t \in Panes : S.panes[t].death # "alive"})
  + Cardinality({t \in Panes : S.panes[t].shell # "a"})
  + Cardinality({p \in Pages : S.pages[p].custom})
  + Cardinality({p \in Pages : S.pages[p].pinned})
  + Cardinality({w \in Windows : S.windows[w].dialog # NoDialog})
  + Cardinality({w \in Windows : \/ S.windows[w].menuOpen # NoPage
                                 \/ S.windows[w].menuIdle})
  + (IF S.dim THEN 1 ELSE 0)

Becomes(S) ==
  /\ Odd(S) <= MaxOdd
  /\ panes' = S.panes
  /\ pages' = S.pages
  /\ windows' = S.windows
  /\ dimInactive' = S.dim
  /\ stranded' = S.lost

-----------------------------------------------------------------------------
(* The split tree *)

Leaves(S, p) == {t \in Panes : S.panes[t].page = p}
Under(S, p, n) == {t \in Leaves(S, p) : IsPrefix(n, S.panes[t].path)}

Sibling(n) == Append(Front(n), 1 - Last(n))

\* Left to right order of two leaves: they part at some paned.
Before(a, b) ==
  \E i \in 1..Len(a) :
    /\ i <= Len(b)
    /\ SubSeq(a, 1, i - 1) = SubSeq(b, 1, i - 1)
    /\ a[i] = 0 /\ b[i] = 1

FirstTerminal(S, A) ==
  IF A = {} THEN NoPane
  ELSE CHOOSE t \in A : \A u \in A \ {t} : Before(S.panes[t].path, S.panes[u].path)

\* Mutant of Healed: the sibling is left where it was, below a lost paned.
HealedNot(n, m) == m

\* Where node m is once the parent of node n has given way to n's sibling.
Healed(n, m) ==
  IF IsPrefix(Sibling(n), m)
  THEN Front(n) \o SubSeq(m, Len(n) + 1, Len(m))
  ELSE m

\* The tree of p without leaf t, which has a sibling.
TakeOut(S, p, t) ==
  LET n == S.panes[t].path IN
  [S EXCEPT
     !.panes = [u \in Panes |->
        IF u \in Leaves(S, p) \ {t}
        THEN [S.panes[u] EXCEPT !.path = Healed(n, S.panes[u].path)]
        ELSE S.panes[u]],
     !.pages[p].hidden = {Healed(n, m) : m \in S.pages[p].hidden}]

-----------------------------------------------------------------------------
(* Title, focus, dimming and zoom of a page *)

\* epimone_page_update_title
UpdateTitle(S, p) ==
  LET pg == S.pages[p] IN
  [S EXCEPT !.pages[p].title =
     [zoom |-> pg.zoomed # NoPane,
      base |-> IF pg.custom THEN "custom"
               ELSE IF pg.focused = NoPane THEN "Terminal"
               ELSE S.panes[pg.focused].shell]]

\* epimone_page_update_dimming, for the pages of P.
Dimmed(S, P) ==
  [S EXCEPT !.panes = [t \in Panes |->
     LET p == S.panes[t].page IN
     IF p \in P
     THEN [S.panes[t] EXCEPT !.scrim =
             S.dim /\ Cardinality(Leaves(S, p)) > 1 /\ t # S.pages[p].focused]
     ELSE S.panes[t]]]

UpdateDimming(S, p) == Dimmed(S, {p})

\* Mutant of SetFocused: the title is not recomputed.
FocusedUntitled(S, p, t) == UpdateDimming([S EXCEPT !.pages[p].focused = t], p)

SetFocused(S, p, t) ==
  UpdateDimming(UpdateTitle([S EXCEPT !.pages[p].focused = t], p), p)

\* epimone_page_focus_terminal: the focused pane, or else the first one.
FocusTerminal(S, p) ==
  LET t == IF S.pages[p].focused # NoPane THEN S.pages[p].focused
           ELSE FirstTerminal(S, Leaves(S, p))
  IN IF t = NoPane THEN S ELSE SetFocused(S, p, t)

\* epimone_page_apply_zoom: hide the sibling at every paned above the leaf.
ApplyZoom(S, p, t) ==
  LET n == S.panes[t].path IN
  IF n = <<>> THEN S
  ELSE UpdateTitle(
         [S EXCEPT !.pages[p].zoomed = t,
                   !.pages[p].hidden = @ \union
                      {Sibling(SubSeq(n, 1, i)) : i \in 1..Len(n)}], p)

Unzoom(S, p) ==
  IF S.pages[p].zoomed = NoPane THEN S
  ELSE UpdateTitle([S EXCEPT !.pages[p].zoomed = NoPane, !.pages[p].hidden = {}], p)

\* The leaf is on screen: none of the nodes above it is hidden.
Shown(t) ==
  \A m \in pages[panes[t].page].hidden : ~IsPrefix(m, panes[t].path)

-----------------------------------------------------------------------------
(* Tabs and windows *)

InWindow(S, w, p) == \E i \in DOMAIN S.windows[w].tabs : S.windows[w].tabs[i] = p
WindowOf(S, p) ==
  IF \E w \in Windows : InWindow(S, w, p)
  THEN CHOOSE w \in Windows : InWindow(S, w, p)
  ELSE NoWindow
NPinned(S, w) == Cardinality({p \in Pages : InWindow(S, w, p) /\ S.pages[p].pinned})

\* A page that nothing refers to: not shown, not lost, not held by a dialog.
FreePages(S) ==
  {p \in Pages : /\ Leaves(S, p) = {}
                 /\ \A w \in Windows : ~InWindow(S, w, p) /\ S.windows[w].dialog.page # p}
FreePanes(S) ==
  {t \in Panes : /\ S.panes[t].page = NoPage
                 /\ \A w \in Windows : S.windows[w].dialog.pane # t}
FreeWindows(S) == {w \in Windows : ~S.windows[w].open}

\* epimone_window_notify_selected_cb, after AdwTabView selected a page.
Select(S, w, p) == FocusTerminal([S EXCEPT !.windows[w].selected = p], p)

\* The selected tab is going: AdwTabView selects next, one of the others.
SelectionMoves(S, w, p, next) ==
  IF S.windows[w].selected = p
  THEN IF next = NoPage THEN [S EXCEPT !.windows[w].selected = NoPage] ELSE Select(S, w, next)
  ELSE S

\* Destroying the pages of P takes their terminals and bridges along
\* (bridge_free); the weak pointers to their tabs are cleared.
DestroyAll(S, P) ==
  [S EXCEPT
     !.panes = [t \in Panes |-> IF S.panes[t].page \in P THEN NoPaneRecord ELSE S.panes[t]],
     !.pages = [p \in Pages |-> IF p \in P THEN NoPageRecord ELSE S.pages[p]],
     !.windows = [w \in Windows |->
        [S.windows[w] EXCEPT !.menuPage = IF @ \in P THEN NoPage ELSE @,
                             !.menuOpen = IF @ \in P THEN NoPage ELSE @]]]

Destroy(S, p) == DestroyAll(S, {p})

Position(S, w, p) == CHOOSE i \in DOMAIN S.windows[w].tabs : S.windows[w].tabs[i] = p
Without(S, w, p) == RemoveAt(S.windows[w].tabs, Position(S, w, p))
RemoveTab(S, w, p) == [S EXCEPT !.windows[w].tabs = Without(S, w, p)]

\* n-pages reached 0: gtk_window_close, which asks nothing of an empty window.
CloseIfEmpty(S, w) ==
  IF S.windows[w].tabs = <<>> THEN [S EXCEPT !.windows[w] = NoWindowRecord] ELSE S

\* adw_tab_view_close_page: refused for a pinned tab.
ClosePage(S, w, p, next) ==
  IF S.pages[p].pinned THEN S
  ELSE CloseIfEmpty(Destroy(SelectionMoves(RemoveTab(S, w, p), w, p, next), p), w)

\* What AdwTabView may select when p leaves window w.
Successors(S, w, p) ==
  IF w = NoWindow \/ ~InWindow(S, w, p) \/ Len(S.windows[w].tabs) < 2 THEN {NoPage}
  ELSE {q \in Pages : InWindow(S, w, q)} \ {p}

\* Mutant of SignalClose: the window that the signal was connected for.
SignalCloseStale(S, p, next) ==
  LET w == CHOOSE v \in Windows : TRUE IN
  IF InWindow(S, w, p) THEN ClosePage(S, w, p, next) ELSE S

\* epimone_window_page_close_cb: the window is the one that shows the page now.
SignalClose(S, p, next) ==
  LET w == WindowOf(S, p) IN
  IF w = NoWindow THEN S ELSE ClosePage(S, w, p, next)

\* epimone_page_remove_terminal
RemoveTerminal(S, p, t, next) ==
  LET S1 == Unzoom(S, p)
      n == S1.panes[t].path
      heir == FirstTerminal(S1, Under(S1, p, Sibling(n)))
      S2 == [TakeOut(S1, p, t) EXCEPT !.panes[t] = NoPaneRecord]
  IN IF n = <<>> THEN SignalClose([S1 EXCEPT !.pages[p].focused = NoPane], p, next)
     ELSE IF S1.pages[p].focused = t THEN SetFocused(S2, p, heir)
     ELSE S2

\* A page around one new terminal (epimone_page_new_with_cwd); ok: the session
\* could be created and attached, otherwise the pane has no bridge.
NewPage(S, p, t, ok) ==
  SetFocused([S EXCEPT !.panes[t] = [NoPaneRecord EXCEPT
                !.page = p, !.bridge = IF ok THEN p ELSE NoPage]], p, t)

\* epimone_window_attach_page_at, then the selection of the new tab.
AttachAt(S, w, p, pos) ==
  Select([S EXCEPT !.windows[w].tabs = InsertAt(@, pos + 1, p)], w, p)

Append1(S, w, p) == AttachAt(S, w, p, Len(S.windows[w].tabs))

OpenWindow(S, w) == [S EXCEPT !.windows[w] = [NoWindowRecord EXCEPT !.open = TRUE]]

Open(w) == windows[w].open
Current(w) == windows[w].selected

-----------------------------------------------------------------------------
(* The actions of a page *)

\* epimone_page_split, with create_terminal and new_paned.
SplitPage(S, p, t, ok) ==
  LET S1 == Unzoom(S, p)
      old == S1.pages[p].focused
      n == S1.panes[old].path
      S2 == [S1 EXCEPT !.panes[old].path = Append(n, 0),
                       !.panes[t] = [NoPaneRecord EXCEPT
                          !.page = p, !.path = Append(n, 1),
                          !.bridge = IF ok THEN p ELSE NoPage]]
  IN SetFocused(S2, p, t)

Split(w) ==
  /\ Open(w) /\ Current(w) # NoPage
  /\ pages[Current(w)].focused # NoPane
  /\ \E t \in FreePanes(Screen), ok \in BOOLEAN :
       Becomes(SplitPage(Screen, Current(w), t, ok))

\* epimone_page_close_pane: a detach.
ClosePane(w) ==
  /\ Open(w) /\ Current(w) # NoPage
  /\ pages[Current(w)].focused # NoPane
  /\ \E next \in Successors(Screen, w, Current(w)) :
       Becomes(RemoveTerminal(Screen, Current(w), pages[Current(w)].focused, next))

ToggleZoom(w) ==
  /\ Open(w) /\ Current(w) # NoPage
  /\ LET p == Current(w) IN
     IF pages[p].zoomed # NoPane THEN Becomes(Unzoom(Screen, p))
     ELSE pages[p].focused # NoPane /\ Becomes(ApplyZoom(Screen, p, pages[p].focused))

\* epimone_page_focus_direction: geometry picks some other pane, or none.
FocusDirection(w) ==
  /\ Open(w) /\ Current(w) # NoPage
  /\ pages[Current(w)].focused # NoPane
  /\ LET p == Current(w)
         S == Unzoom(Screen, p)
     IN \/ \E t \in Leaves(S, p) \ {S.pages[p].focused} : Becomes(SetFocused(S, p, t))
        \/ Becomes(S)

\* A click on a pane, or any other grab of the focus: on what is shown.
FocusEnter(t) ==
  LET p == panes[t].page IN
  /\ p # NoPage /\ Shown(t) /\ pages[p].focused # t
  /\ \E w \in Windows : Open(w) /\ Current(w) = p
  /\ Becomes(SetFocused(Screen, p, t))

\* VTE reports another title: it is shown if the pane is the focused one.
TitleChanged(t, s) ==
  LET p == panes[t].page
      S == [Screen EXCEPT !.panes[t].shell = s]
  IN /\ p # NoPage /\ panes[t].shell # s
     /\ Becomes(IF pages[p].focused = t THEN UpdateTitle(S, p) ELSE S)

\* epimone_pages_set_dim_inactive, over epimone_all_pages.
SetDimInactive(b) ==
  Becomes(Dimmed([Screen EXCEPT !.dim = b], Pages))

\* EOF or an error on the data channel: schedule_death.
SockEof(t) ==
  /\ panes[t].bridge # NoPage
  /\ panes[t].death = "alive"
  /\ Becomes([Screen EXCEPT !.panes[t].death = "pending"])

\* death_idle, on the page that the bridge points to.
DeathIdle(t) ==
  LET p == panes[t].bridge
      S == [Screen EXCEPT !.panes[t].death = "ran"]
  IN /\ panes[t].death = "pending"
     /\ \E next \in Successors(S, WindowOf(S, p), p) : Becomes(RemoveTerminal(S, p, t, next))

-----------------------------------------------------------------------------
(* The actions of a window *)

NewTab(w) ==
  /\ Open(w)
  /\ \E p \in FreePages(Screen), t \in FreePanes(Screen), ok \in BOOLEAN :
       Becomes(Append1(NewPage(Screen, p, t, ok), w, p))

\* epimone_page_take_focused_leaf, then epimone_page_adopt_leaf: the pane
\* moves with its bridge.
TakeFocusedLeaf(S, p) ==
  LET t == S.pages[p].focused
      S1 == Unzoom(S, p)
      heir == FirstTerminal(S1, Under(S1, p, Sibling(S1.panes[t].path)))
  IN SetFocused([TakeOut(S1, p, t) EXCEPT !.panes[t].page = NoPage], p, heir)

AdoptLeaf(S, p, t) ==
  SetFocused([S EXCEPT !.panes[t].page = p, !.panes[t].path = <<>>,
                       !.panes[t].bridge = IF @ = NoPage THEN NoPage ELSE p], p, t)

\* open_in_new_tab_action.  AdwTabView does not insert before a pinned tab:
\* the page it refuses is never shown.
OpenInNewTab(w) ==
  LET p == Current(w) IN
  /\ Open(w) /\ p # NoPage
  /\ Cardinality(Leaves(Screen, p)) > 1
  /\ pages[p].focused # NoPane
  /\ \E q \in FreePages(Screen) :
       LET S == AdoptLeaf(TakeFocusedLeaf(Screen, p), q, pages[p].focused) IN
       IF Position(Screen, w, p) < NPinned(Screen, w)
       THEN Becomes([S EXCEPT !.lost = @ \union {q}])
       ELSE Becomes(AttachAt(S, w, q, Position(Screen, w, p)))

NewWindow ==
  \E w \in FreeWindows(Screen), p \in FreePages(Screen), t \in FreePanes(Screen), ok \in BOOLEAN :
    /\ stranded = {} \/ \E v \in Windows : Open(v)
    /\ Becomes(Append1(NewPage(OpenWindow(Screen, w), p, t, ok), w, p))

\* The process ends with its last window; what was lost goes with it.
Quit ==
  /\ stranded # {} /\ \A w \in Windows : ~Open(w)
  /\ panes' = [t \in Panes |-> NoPaneRecord]
  /\ pages' = [p \in Pages |-> NoPageRecord]
  /\ stranded' = {}
  /\ UNCHANGED <<windows, dimInactive>>

\* epimone_window_move_page_to_new_window, from the menu of window v or from
\* the overview: the live page is transferred.
MoveToNewWindow(p) ==
  LET w == WindowOf(Screen, p) IN
  /\ w # NoWindow
  /\ Len(windows[w].tabs) > 1
  /\ \E v \in FreeWindows(Screen), next \in Successors(Screen, w, p) :
       LET S == SelectionMoves(RemoveTab(OpenWindow(Screen, v), w, p), w, p, next)
       IN Becomes(FocusTerminal(AttachAt(S, v, p, 0), p))

\* A click on another tab, epimone_window_select_page.
SelectPage(w, p) ==
  /\ Open(w) /\ InWindow(Screen, w, p) /\ Current(w) # p
  /\ Becomes(Select(Screen, w, p))

CloseTab(w, p) ==
  /\ Open(w) /\ InWindow(Screen, w, p)
  /\ \E next \in Successors(Screen, w, p) : Becomes(ClosePage(Screen, w, p, next))

-----------------------------------------------------------------------------
(* The tab menu *)

\* epimone_window_tab_menu_page
MenuTarget(w) ==
  IF windows[w].menuPage # NoPage THEN windows[w].menuPage ELSE windows[w].selected

\* The tab menu is up for p: the capture, and no clearing of it any more.
Captured(r, p) == [r EXCEPT !.menuOpen = p, !.menuPage = p, !.menuIdle = FALSE]

SetupMenu(w, p) ==
  /\ Open(w) /\ InWindow(Screen, w, p)
  /\ windows[w].menuOpen = NoPage /\ windows[w].dialog = NoDialog
  /\ Becomes([Screen EXCEPT !.windows[w] = Captured(@, p)])

MenuClosed(w) ==
  /\ windows[w].menuOpen # NoPage
  /\ Becomes([Screen EXCEPT !.windows[w].menuOpen = NoPage, !.windows[w].menuIdle = TRUE])

ClearMenuPage(w) ==
  /\ windows[w].menuIdle
  /\ Becomes([Screen EXCEPT !.windows[w].menuPage = NoPage, !.windows[w].menuIdle = FALSE])

\* Reordering stays within the pinned tabs or the others, and does not wrap.
TabMove(w) ==
  LET p == MenuTarget(w)
      i == Position(Screen, w, p)
      tabs == windows[w].tabs
  IN /\ Open(w) /\ InWindow(Screen, w, p)
     /\ \E j \in {i - 1, i + 1} \cap DOMAIN tabs :
          /\ pages[tabs[j]].pinned = pages[p].pinned
          /\ Becomes([Screen EXCEPT !.windows[w].tabs = [tabs EXCEPT ![i] = tabs[j], ![j] = p]])

\* adw_tab_view_set_page_pinned: the tab goes to the end of the pinned ones.
TabPin(w) ==
  LET p == MenuTarget(w)
      k == Cardinality({q \in Pages \ {p} : InWindow(Screen, w, q) /\ pages[q].pinned})
  IN /\ Open(w) /\ InWindow(Screen, w, p)
     /\ Becomes([Screen EXCEPT !.pages[p].pinned = ~@,
                   !.windows[w].tabs = InsertAt(Without(Screen, w, p), k + 1, p)])

TabClose(w) == MenuTarget(w) # NoPage /\ CloseTab(w, MenuTarget(w))
TabToNewWindow(w) == Open(w) /\ MenuTarget(w) # NoPage /\ MoveToNewWindow(MenuTarget(w))

\* The pages of P, in the order of their tabs.
InOrder(S, w, P) ==
  {s \in [1 .. Cardinality(P) -> P] :
     /\ Range(s) = P
     /\ \A i, j \in DOMAIN s : i < j => Position(S, w, s[i]) < Position(S, w, s[j])}

\* adw_tab_view_close_other_pages spares the pinned ones; the tab it spares is
\* selected if the selected one goes.
TabCloseOthers(w) ==
  LET p == MenuTarget(w)
      gone == {q \in Pages \ {p} : InWindow(Screen, w, q) /\ ~pages[q].pinned}
      left == {q \in Pages \ gone : InWindow(Screen, w, q)}
  IN /\ Open(w) /\ InWindow(Screen, w, p)
     /\ gone # {}
     /\ LET S1 == IF Current(w) \in gone THEN Select(Screen, w, p) ELSE Screen
        IN \E tabs \in InOrder(Screen, w, left) :
             Becomes(DestroyAll([S1 EXCEPT !.windows[w].tabs = tabs], gone))

-----------------------------------------------------------------------------
(* Dialogs, and the end of a window *)

Ask(w, kind, p, t) ==
  /\ Open(w)
  /\ windows[w].dialog = NoDialog
  /\ Becomes([Screen EXCEPT !.windows[w].dialog = [kind |-> kind, page |-> p, pane |-> t]])

\* win.set-title acts on the current tab, win.tab-set-title on the menu's.
PresentSetTitle(w) ==
  \E p \in {Current(w), MenuTarget(w)} \ {NoPage} : Ask(w, "title", p, NoPane)

\* kill_pane_action: the session of the focused pane, if it has one.
KillPane(w) ==
  /\ Open(w) /\ Current(w) # NoPage
  /\ LET t == pages[Current(w)].focused IN
       t # NoPane /\ panes[t].bridge # NoPage /\ Ask(w, "kill", NoPage, t)

NPanes(w) == Cardinality({t \in Panes : panes[t].page # NoPage /\ InWindow(Screen, w, panes[t].page)})

Destroyed(S, w) ==
  DestroyAll([S EXCEPT !.windows[w] = NoWindowRecord], {p \in Pages : InWindow(S, w, p)})

\* epimone_window_close_request_cb; confirm is the setting, read here.
CloseRequest(w) ==
  /\ Open(w)
  /\ \E confirm \in BOOLEAN :
       IF confirm /\ (Len(windows[w].tabs) > 1 \/ NPanes(w) > 1)
       THEN Ask(w, "close", NoPage, NoPane)
       ELSE Becomes(Destroyed(Screen, w))

\* An answer: the dialog goes and, unless the window does, the current
\* terminal gets the focus back.
Answer(w) ==
  LET d == windows[w].dialog
      S == [Screen EXCEPT !.windows[w].dialog = NoDialog]
      Back(R) == IF Current(w) = NoPage THEN R ELSE FocusTerminal(R, Current(w))
      Renamed(R, custom) ==
        IF R.pages[d.page].custom = custom THEN R
        ELSE UpdateTitle([R EXCEPT !.pages[d.page].custom = custom], d.page)
  IN /\ d.kind # "none"
     /\ \/ Becomes(Back(S))
        \/ d.kind = "close" /\ Becomes(Destroyed(S, w))
        \/ d.kind = "kill" /\ Becomes(Back(
             IF S.panes[d.pane].death = "alive" /\ S.panes[d.pane].bridge # NoPage
             THEN [S EXCEPT !.panes[d.pane].death = "pending"] ELSE S))
        \/ /\ d.kind = "title"
           /\ \E custom \in BOOLEAN :
                LET R == IF Leaves(S, d.page) = {} THEN S ELSE Renamed(S, custom)
                IN Becomes(Back(R))

-----------------------------------------------------------------------------
Init ==
  /\ panes = [t \in Panes |-> NoPaneRecord]
  /\ pages = [p \in Pages |-> NoPageRecord]
  /\ windows = [w \in Windows |-> NoWindowRecord]
  /\ dimInactive = FALSE
  /\ stranded = {}

Next ==
  \/ NewWindow \/ Quit
  \/ \E w \in Windows :
       \/ Split(w) \/ ClosePane(w) \/ ToggleZoom(w) \/ FocusDirection(w)
       \/ NewTab(w) \/ OpenInNewTab(w)
       \/ MenuClosed(w) \/ ClearMenuPage(w) \/ TabMove(w) \/ TabPin(w)
       \/ TabClose(w) \/ TabToNewWindow(w) \/ TabCloseOthers(w)
       \/ PresentSetTitle(w) \/ KillPane(w) \/ CloseRequest(w) \/ Answer(w)
       \/ \E p \in Pages : SelectPage(w, p) \/ CloseTab(w, p) \/ SetupMenu(w, p)
  \/ \E t \in Panes :
       \/ FocusEnter(t) \/ SockEof(t) \/ DeathIdle(t)
       \/ \E s \in Titles : TitleChanged(t, s)
  \/ SetDimInactive(~dimInactive)

Spec == Init /\ [][Next]_vars

-----------------------------------------------------------------------------
Path == Seq({0, 1})
PaneRecord ==
  [page : Pages \union {NoPage}, path : Path, bridge : Pages \union {NoPage},
   death : {"alive", "pending", "ran"}, shell : Titles, scrim : BOOLEAN]
PageRecord ==
  [focused : Panes \union {NoPane}, zoomed : Panes \union {NoPane}, hidden : SUBSET Path,
   custom : BOOLEAN, pinned : BOOLEAN,
   title : [zoom : BOOLEAN, base : Titles \union {"Terminal", "custom"}]]
Dialog ==
  [kind : {"none", "title", "kill", "close"}, page : Pages \union {NoPage},
   pane : Panes \union {NoPane}]
WindowRecord ==
  [open : BOOLEAN, tabs : Seq(Pages), selected : Pages \union {NoPage},
   menuOpen : Pages \union {NoPage}, menuPage : Pages \union {NoPage},
   menuIdle : BOOLEAN, dialog : Dialog]

Screens ==
  [panes : [Panes -> PaneRecord], pages : [Pages -> PageRecord],
   windows : [Windows -> WindowRecord], dim : BOOLEAN, lost : SUBSET Pages]

TypeOK == Screen \in Screens

\* Every paned keeps two children: next to each leaf, at each level, there is
\* another subtree, and no leaf lies below another.
TreesAreFull ==
  \A t \in Panes : panes[t].page # NoPage =>
    /\ \A i \in 1..Len(panes[t].path) :
         Under(Screen, panes[t].page, Sibling(SubSeq(panes[t].path, 1, i))) # {}
    /\ Under(Screen, panes[t].page, panes[t].path) = {t}

\* The active pane of a tab is one of its own; it has none only after its
\* last shell exited and a pin kept the tab.
FocusIsOwn ==
  \A p \in Pages : Leaves(Screen, p) # {} =>
    \/ pages[p].focused \in Leaves(Screen, p)
    \/ /\ pages[p].focused = NoPane
       /\ \A t \in Leaves(Screen, p) : panes[t].path = <<>>

\* A bridge acts on the page that its pane is in, through every move: an
\* exit closes its own pane and no other.
BridgeKnowsPage ==
  \A t \in Panes : panes[t].bridge \in {NoPage, panes[t].page}

\* Zooming shows the zoomed leaf alone; without a zoom nothing is hidden.
ZoomShowsOne ==
  \A p \in Pages : Leaves(Screen, p) # {} =>
    /\ {t \in Leaves(Screen, p) : Shown(t)} =
         IF pages[p].zoomed = NoPane THEN Leaves(Screen, p) ELSE {pages[p].zoomed}
    /\ pages[p].zoomed # NoPane => pages[p].zoomed = pages[p].focused
    /\ pages[p].zoomed = NoPane => pages[p].hidden = {}

\* A scrim covers exactly the panes that are not focused, in tabs with
\* several panes, and only while the setting asks for it.
DimmingIsCurrent ==
  \A t \in Panes : panes[t].page # NoPage =>
    (panes[t].scrim <=> /\ dimInactive
                        /\ Cardinality(Leaves(Screen, panes[t].page)) > 1
                        /\ pages[panes[t].page].focused # t)

\* The title of a tab is that of its focused pane or its own name, and tells
\* of the zoom.
TitleIsCurrent ==
  \A p \in Pages : pages[p].focused # NoPane =>
    pages[p].title = [zoom |-> pages[p].zoomed # NoPane,
                      base |-> IF pages[p].custom THEN "custom"
                               ELSE panes[pages[p].focused].shell]

\* A tab is in one window (or was refused by AdwTabView), an open window has
\* tabs and one of them is selected.
TabsAreInWindows ==
  /\ \A p \in Pages : Leaves(Screen, p) # {} =>
       \/ p \in stranded
       \/ Cardinality({w \in Windows : Open(w) /\ InWindow(Screen, w, p)}) = 1
  /\ \A w \in Windows : Open(w) =>
       /\ IsInjective(windows[w].tabs)
       /\ InWindow(Screen, w, windows[w].selected)
       /\ \A i \in DOMAIN windows[w].tabs : Leaves(Screen, windows[w].tabs[i]) # {}

\* While the menu of a tab is up, its items act on that tab and not on the
\* selected one, however menus before it were closed.
MenuActsOnItsTab ==
  \A w \in Windows : windows[w].menuOpen # NoPage => MenuTarget(w) = windows[w].menuOpen

\* The exit of a shell takes its pane away, and the last one its tab, whichever
\* window the tab is in by then, unless a pin keeps it or no window shows it.
ExitsCloseTheirPane ==
  \A t \in Panes :
    panes[t].death = "pending" /\ panes'[t].death = "ran" =>
      pages[panes[t].page].pinned \/ panes[t].page \in stranded

\* The split trees: after any splits, exits, removals, zooms and moves between
\* tabs a page holds a full binary tree of its own panes, its focus is in it,
\* and their bridges report to it (page.c: remove_terminal, adopt_leaf).
TreeIsWhole == TypeOK /\ TreesAreFull /\ FocusIsOwn /\ BridgeKnowsPage

\* What a page shows follows from its tree, focus, zoom and the setting, though
\* each handler updates scrims, visibility and title piece by piece.
ShownIsCurrent == ZoomShowsOne /\ DimmingIsCurrent /\ TitleIsCurrent

\* Tabs neither vanish, double nor stay behind as panes, tabs and windows close
\* and move, and the menu's items hit the tab it was opened on (window.c).
NothingIsLost == [](TabsAreInWindows /\ MenuActsOnItsTab) /\ [][ExitsCloseTheirPane]_vars

=============================================================================
