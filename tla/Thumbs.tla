------------------------------- MODULE Thumbs -------------------------------
(***************************************************************************)
(* The thumbnails of the overview (epimone-overview.c).  One offscreen     *)
(* terminal draws the panes of one card after the other; each step runs in *)
(* a GLib timeout and arms the next one.  Finished textures are cached per *)
(* group together with a signature of what was drawn, which lets a later   *)
(* open skip a card that has not changed.  Meanwhile the grid may be       *)
(* rebuilt, scrolled or recoloured, shells write, and tabs are rearranged. *)
(*                                                                         *)
(* What a session has written is a version number: PEEK returns the tail   *)
(* of the ring, which differs after every write.                           *)
(***************************************************************************)
EXTENDS Integers, Sequences, Functions

CONSTANTS
  Grid,          \* the cards in the order of the flow box
  Orphans,       \* cards that stand for one session under a sentinel key
  Blobs,         \* of a card: the arrangements that its tab may have
  GridOf,        \* of a session: columns and rows of its pane
  Views,         \* the sets of cards that are near the viewport together
  MaxAttempts,   \* RENDER_MAX_ATTEMPTS
  MaxBuilds,     \* bound: rebuilds of the grid
  MaxEvents      \* bound: writes, rearrangements, recolourings, failed renders
                 \* and captures at the close

Card == Range(Grid)
Session == UNION {Range(b) : b \in UNION {Blobs[c] : c \in Card}}

None == <<>>           \* no texture, no signature
NoTail == -1           \* PEEK fails: the session is gone
Blank == -2            \* the snapshot was taken before VTE parsed the tail
Missing == -3          \* no allocation, no node, or one without an extent
NoGrid == "none"
NoPeek == <<None, NoTail>>
Gone == <<"gone">>

ASSUME ThumbsConstants ==
  /\ Grid \in Seq(Card) /\ MaxAttempts \in Nat /\ {MaxBuilds, MaxEvents} \subseteq Nat
  /\ DOMAIN GridOf = Session
  /\ Orphans \subseteq Card /\ Views \subseteq SUBSET Card
  /\ \A c \in Card : Blobs[c] \subseteq Seq(Session) \ {<<>>, Gone}

VARIABLES
  content, blob,          \* of the sessions; of the tabs, Gone without a group
  near,                   \* cards within a viewport of what is on screen
  palette, build,         \* appearance and grid, by number
  events,                 \* how much of MaxEvents is used
  card,                   \* CardInfo of the present grid
  cache, sigs,            \* thumb_cache and thumb_sig
  queue, rendering,       \* pending (borrowed CardInfo), the busy flag
  timers,                 \* pump_timeout, feed_timeout, settle_backstop/_quiet
  fed, peeked, parsed,    \* fed, pane_sig, whether VTE got through the tail
  last                    \* last_cols and last_rows

world == <<content, blob, near, palette, build, events>>
store == <<cache, sigs>>
term == <<fed, peeked, parsed, last>>
vars == <<world, card, store, queue, rendering, timers, term>>

Event == events < MaxEvents /\ events' = events + 1

-----------------------------------------------------------------------------
(* Cards and signatures.                                                   *)

NoCard == [exists |-> FALSE, leaves |-> <<>>, picture |-> FALSE,
           rendered |-> FALSE, attempts |-> 0, cur |-> 1, nodes |-> <<>>,
           sig |-> <<>>, gaveUp |-> FALSE]

\* A new card starts from the cached texture; only the one that was captured
\* live for this very open counts as rendered.
BuiltCard(c, fresh, texture) ==
  [NoCard EXCEPT !.exists = TRUE, !.leaves = blob[c],
                 !.picture = texture # None,
                 !.rendered = (c = fresh /\ c \notin Orphans)]

PaneSig(s) == <<s, content[s]>>
CurrentSig(leaves) == [i \in DOMAIN leaves |-> PaneSig(leaves[i])]

\* (mutant) The signature is that of the moment at which the pane commits.
FoldedLate(ci) == Append(ci.sig, PaneSig(ci.leaves[ci.cur]))

\* render_finish folds what render_feed peeked into the card's signature.
Folded(ci) == Append(ci.sig, peeked)

InQueue(c) == \E i \in DOMAIN queue : queue[i].card = c
Entry(c, b) == [card |-> c, build |-> b]

Restarted(ci) == [ci EXCEPT !.cur = 1, !.sig = <<>>, !.nodes = <<>>]

\* Serve the head of the queue, or become idle.
RenderPump(cs, q, ts) ==
  /\ queue' = q
  /\ rendering' = (q # <<>>)
  /\ IF q = <<>> THEN card' = cs /\ timers' = ts
     ELSE /\ card' = [cs EXCEPT ![Head(q).card] = Restarted(@)]
          /\ timers' = ts \cup {"pump"}

\* The cards of S in the order of the flow box.
FlowIndex(c) == CHOOSE i \in DOMAIN Grid : Grid[i] = c
InFlowOrder(S) ==
  {s \in UNION {[1 .. n -> S] : n \in 0 .. Len(Grid)} :
     Range(s) = S /\ \A i, j \in DOMAIN s : i < j => FlowIndex(s[i]) < FlowIndex(s[j])}

\* Queue what is near the viewport, has panes and is not rendered, unless its
\* cached texture is of the current content: then it counts as rendered.
\* q, busy, ts: the pipeline's state when it is called.
QueueVisibleRenders(cs, q, busy, ts, b, visible) ==
  LET waiting == {c \in visible : /\ cs[c].exists /\ cs[c].leaves # <<>>
                                  /\ ~cs[c].rendered /\ Entry(c, b) \notin Range(q)}
      skipped == {c \in waiting : /\ sigs'[c] # None /\ cache'[c] # None
                                  /\ CurrentSig(cs[c].leaves) = sigs'[c]}
      marked == [c \in Card |->
                   IF c \notin waiting THEN cs[c]
                   ELSE IF c \in skipped THEN [cs[c] EXCEPT !.rendered = TRUE]
                   ELSE [cs[c] EXCEPT !.gaveUp = FALSE]]
  IN \E new \in InFlowOrder(waiting \ skipped) :
       LET longer == q \o [i \in DOMAIN new |-> Entry(new[i], b)] IN
       IF busy
       THEN queue' = longer /\ card' = marked /\ UNCHANGED <<rendering, timers>>
       ELSE RenderPump(marked, longer, ts)

\* Until the next feed, pane_sig and what VTE still parses do not count.
Unfed == fed' = FALSE /\ peeked' = NoPeek /\ parsed' = FALSE

\* render_abort leaves no timer, no queue and a terminal of unknown grid.
TimersAfterAbort == {}
RenderAbort == Unfed /\ last' = NoGrid

-----------------------------------------------------------------------------
(* The steps of the pipeline: timeouts, and signals of the terminal.       *)

HeadCard == card[Head(queue).card]
HasLeaf == queue # <<>> /\ HeadCard.cur <= Len(HeadCard.leaves)
Leaf == HeadCard.leaves[HeadCard.cur]

Stop(ts) == /\ rendering' = FALSE /\ timers' = ts
            /\ UNCHANGED <<queue, card, store, peeked, parsed>>

\* render_feed, with ts the other timers: PEEK, sign and feed the tail.
Feed(ts) ==
  /\ peeked' = PaneSig(Leaf)
  /\ parsed' = FALSE /\ fed' = TRUE
  /\ timers' = ts \cup {"backstop"}
  /\ UNCHANGED <<queue, card, rendering, store>>

\* A pane of another grid waits one frame for its allocation.
RenderStart ==
  /\ "pump" \in timers
  /\ LET ts == timers \ {"pump"} IN
     IF ~HasLeaf THEN Stop(ts) /\ UNCHANGED <<fed, last>>
     ELSE IF GridOf[Leaf] # last
     THEN /\ last' = GridOf[Leaf]
          /\ fed' = FALSE
          /\ timers' = ts \cup {"feed"}
          /\ UNCHANGED <<queue, card, rendering, store, peeked, parsed>>
     ELSE Feed(ts) /\ UNCHANGED last
  /\ UNCHANGED world

RenderFeed ==
  /\ "feed" \in timers
  /\ LET ts == timers \ {"feed"} IN
     IF HasLeaf THEN Feed(ts) ELSE Stop(ts) /\ UNCHANGED fed
  /\ UNCHANGED <<world, last>>

\* (mutant) The churn of a reset arms the quiet period too.
QuietAlways(ts) == IF rendering THEN ts \cup {"quiet"} ELSE ts

\* contents-changed restarts the quiet period once the tail has been fed.
QuietArmed(ts) == IF rendering /\ fed THEN ts \cup {"quiet"} ELSE ts

VteParses ==
  /\ fed /\ ~parsed
  /\ parsed' = TRUE /\ timers' = QuietArmed(timers)
  /\ UNCHANGED <<world, card, store, queue, rendering, fed, peeked, last>>

VteResets ==
  /\ timers' = QuietArmed(timers)
  /\ UNCHANGED <<world, card, store, queue, rendering, term>>

-----------------------------------------------------------------------------
(* render_finish and render_compose.                                       *)

SettleCancel == timers \ {"backstop", "quiet", "feed"}

\* What the snapshot of this pane shows.  Without an allocation there is none;
\* and with one it may still give no node, or one of no extent (not drawn).
Drawn(drawn) ==
  IF ~drawn THEN Missing
  ELSE IF peeked[2] = NoTail \/ parsed THEN peeked[2] ELSE Blank

\* (mutant) A retry that is not counted.
RetriedFreely(ci) == ci

\* A pane without an allocation gets another frame, a bounded number of times.
Retried(ci) == [ci EXCEPT !.attempts = @ + 1]

\* This pane is drawn and signed; the next one follows.
Committed(ci, node) ==
  [ci EXCEPT !.nodes = Append(@, node), !.sig = Folded(ci), !.cur = @ + 1]

Texture(ci) ==
  [panes |-> {<<ci.leaves[i], ci.nodes[i]>> : i \in DOMAIN ci.leaves},
   palette |-> palette, live |-> FALSE]

\* The three ways in which a card leaves the head of the queue.
Finished(ci) == [ci EXCEPT !.nodes = <<>>, !.rendered = TRUE, !.picture = TRUE]
Requeued(ci) == [Retried(ci) EXCEPT !.nodes = <<>>, !.cur = 1]
GivenUp(ci) == [ci EXCEPT !.nodes = <<>>, !.gaveUp = TRUE]

\* One of the ways in which composing card c may end: no renderer or no
\* texture; nothing drawn, so that the card goes back on the queue while it has
\* attempts; or a texture, with its signature if every pane was committed.
RenderCompose(c, ci, q, works) ==
  IF works /\ \E i \in DOMAIN ci.nodes : ci.nodes[i] # Missing
  THEN /\ cache' = [cache EXCEPT ![c] = Texture(ci)]
       /\ sigs' = IF Len(ci.sig) = Len(ci.leaves)
                  THEN [sigs EXCEPT ![c] = ci.sig] ELSE sigs
       /\ RenderPump([card EXCEPT ![c] = Finished(ci)], q, SettleCancel)
  ELSE /\ UNCHANGED store
       /\ IF works /\ ci.attempts < MaxAttempts
          THEN RenderPump([card EXCEPT ![c] = Requeued(ci)],
                          Append(q, Entry(c, build)), SettleCancel)
          ELSE RenderPump([card EXCEPT ![c] = GivenUp(ci)], q, SettleCancel)

\* The terminal has no allocation and the card has attempts left; or a pane is
\* committed, and another one follows or the card is composed.
RenderFinish ==
  /\ Unfed
  /\ IF queue = <<>>
     THEN /\ rendering' = FALSE /\ timers' = SettleCancel
          /\ UNCHANGED <<queue, card, store, events>>
     ELSE LET c == Head(queue).card
              ci == card[c] IN
       \/ /\ ci.attempts < MaxAttempts /\ UNCHANGED events
          /\ card' = [card EXCEPT ![c] = Retried(ci)]
          /\ timers' = SettleCancel \cup {"pump"}
          /\ UNCHANGED <<queue, rendering, store>>
       \/ \E drawn \in BOOLEAN :
            LET next == Committed(ci, Drawn(drawn)) IN
            \/ /\ next.cur <= Len(ci.leaves) /\ UNCHANGED events
               /\ card' = [card EXCEPT ![c] = next]
               /\ timers' = SettleCancel \cup {"pump"}
               /\ UNCHANGED <<queue, rendering, store>>
            \/ /\ next.cur > Len(ci.leaves)
               /\ \E works \in BOOLEAN :
                    /\ IF works THEN UNCHANGED events ELSE Event
                    /\ RenderCompose(c, next, Tail(queue), works)
  /\ UNCHANGED <<content, blob, near, palette, build, last>>

SettleBackstop == "backstop" \in timers /\ RenderFinish

\* The quiet period may have been armed by the reset: with a tail still
\* unparsed (or one that leaves the screen empty) it is declined.
SettleQuiet ==
  /\ "quiet" \in timers
  /\ peeked[2] = NoTail \/ parsed
  /\ RenderFinish

SettleQuietDeclined ==
  /\ "quiet" \in timers
  /\ peeked[2] # NoTail
  /\ timers' = timers \ {"quiet"}
  /\ UNCHANGED <<world, card, store, queue, rendering, term>>

-----------------------------------------------------------------------------
(* Opening, closing, rebuilding, scrolling and recolouring the grid.       *)

\* What a snapshot of the selected tab shows: the panes now on screen, which
\* may be fewer than the tab's (zoom) or not yet the group's (debounce).
Live(panes) == [panes |-> {<<s, content[s]>> : s \in Range(panes)},
                palette |-> palette, live |-> TRUE]

\* Signatures go with the textures of groups that the daemon no longer lists;
\* the sentinel key of an orphan is never among the groups.
Pruned(table) ==
  [c \in Card |-> IF blob[c] = Gone \/ c \in Orphans THEN None ELSE table[c]]

\* overview_reload: the cards are destroyed; unless GROUP_LIST fails, new ones
\* are built from the cache `textures`, then the cache is pruned.
Reload(textures, fresh, answered) ==
  /\ build < MaxBuilds /\ build' = build + 1
  /\ RenderAbort
  /\ cache' = IF answered THEN Pruned(textures) ELSE textures
  /\ sigs' = IF answered THEN Pruned(sigs) ELSE sigs
  /\ IF answered
     THEN LET built == [c \in Card |->
                IF blob[c] = Gone THEN NoCard
                ELSE BuiltCard(c, fresh, textures[c])]
          IN QueueVisibleRenders(built, <<>>, FALSE, TimersAfterAbort,
                                 build', near)
     ELSE /\ queue' = <<>> /\ rendering' = FALSE /\ timers' = TimersAfterAbort
          /\ card' = [c \in Card |-> NoCard]
  /\ UNCHANGED <<content, blob, near, palette, events>>

\* Kill, rename, Detach Tab, the first map: every other caller of the reload.
Rebuild == \E answered \in BOOLEAN : Reload(cache, None, answered)

\* epimone_overview_animate_open captures the active tab, then reloads.
Open ==
  \E c \in Card \ Orphans, answered \in BOOLEAN :
    /\ blob[c] # Gone
    /\ \/ Reload(cache, None, answered)
       \/ \E panes \in Blobs[c] :
            Reload([cache EXCEPT ![c] = Live(panes)], c, answered)

\* epimone_overview_animate_close captures the tab that is revealed.
Close ==
  \E c \in Card \ Orphans :
    /\ blob[c] # Gone
    /\ \E panes \in Blobs[c] : cache' = [cache EXCEPT ![c] = Live(panes)]
    /\ Event
    /\ UNCHANGED <<content, blob, near, palette, build, card, sigs, queue, rendering, timers, term>>

Scroll ==
  \E visible \in Views :
    /\ near' = visible /\ UNCHANGED store
    /\ QueueVisibleRenders(card, queue, rendering, timers, build, visible)
    /\ UNCHANGED <<content, blob, palette, build, events, term>>

\* Both tables are emptied when the colours or the font change.
AppearanceChanged ==
  /\ Event /\ palette' = palette + 1
  /\ RenderAbort
  /\ cache' = [c \in Card |-> None]
  /\ sigs' = [c \in Card |-> None]
  /\ QueueVisibleRenders(
       [c \in Card |-> IF card[c].leaves = <<>> THEN card[c]
                       ELSE [card[c] EXCEPT !.rendered = FALSE, !.cur = 1,
                                            !.nodes = <<>>]],
       <<>>, FALSE, TimersAfterAbort, build, near)
  /\ UNCHANGED <<content, blob, near, build>>

\* A shell writes, or ends.
Writes ==
  \E s \in Session :
    /\ Event /\ content[s] # NoTail
    /\ content' \in {[content EXCEPT ![s] = @ + 1], [content EXCEPT ![s] = NoTail]}
    /\ UNCHANGED <<blob, near, palette, build,
                   card, store, queue, rendering, timers, term>>

\* A tab is split or loses a pane; a group comes to its end.
Rearranges ==
  \E c \in Card :
    /\ Event /\ blob[c] # Gone
    /\ \E b \in (Blobs[c] \cup {Gone}) \ {blob[c]} : blob' = [blob EXCEPT ![c] = b]
    /\ UNCHANGED <<content, near, palette, build,
                   card, store, queue, rendering, timers, term>>

-----------------------------------------------------------------------------
Init ==
  /\ content = [s \in Session |-> 0]
  /\ blob \in [Card -> UNION {Blobs[c] : c \in Card}]
  /\ \A c \in Card : blob[c] \in Blobs[c]
  /\ near \in Views /\ palette = 0 /\ build = 0 /\ events = 0
  /\ card = [c \in Card |-> NoCard]
  /\ cache = [c \in Card |-> None] /\ sigs = [c \in Card |-> None]
  /\ queue = <<>> /\ rendering = FALSE /\ timers = {}
  /\ fed = FALSE /\ peeked = NoPeek /\ parsed = FALSE /\ last = NoGrid

Timeout == RenderStart \/ RenderFeed \/ SettleBackstop \/ SettleQuiet
           \/ SettleQuietDeclined

Next == Timeout \/ VteParses \/ VteResets \/ Rebuild \/ Open \/ Close \/ Scroll
        \/ AppearanceChanged \/ Writes \/ Rearranges

\* GLib runs every timeout that stays armed.
Fairness == /\ WF_vars(RenderStart) /\ WF_vars(RenderFeed)
            /\ WF_vars(SettleBackstop)

Spec == Init /\ [][Next]_vars /\ Fairness

-----------------------------------------------------------------------------
\* What a texture or a signature says of one pane.
Pane == Session \X Int

CardInfo ==
  [exists : BOOLEAN, leaves : Seq(Session), picture : BOOLEAN, rendered : BOOLEAN,
   attempts : Nat, cur : Nat \ {0}, nodes : Seq(Int), sig : Seq(Pane), gaveUp : BOOLEAN]

\* Every variable has its type.
TypeOK ==
  /\ content \in [Session -> Nat \cup {NoTail}]
  /\ blob \in [Card -> Seq(Session) \cup {Gone}]
  /\ \A c \in Card : blob[c] \in Blobs[c] \cup {Gone}
  /\ near \subseteq Card /\ {palette, build, events} \subseteq Nat
  /\ card \in [Card -> CardInfo]
  /\ cache \in [Card -> [panes : SUBSET Pane, palette : Nat, live : BOOLEAN] \cup {None}]
  /\ sigs \in [Card -> Seq(Pane)]
  /\ queue \in Seq([card : Card, build : Nat])
  /\ {rendering, fed, parsed} \subseteq BOOLEAN
  /\ timers \subseteq {"pump", "feed", "backstop", "quiet"}
  /\ peeked \in (Session \cup {None}) \X Int
  /\ last \in Range(GridOf) \cup {NoGrid}

\* While the pipeline is busy exactly one step is scheduled (the quiet period
\* only beside its backstop), so that no card is started twice and none waits
\* for a timeout that nobody armed; nothing runs once it is idle, and all it
\* refers to are cards of the present grid (render_abort's comment).
OneStepScheduled ==
  /\ rendering <=> queue # <<>>
  /\ IF rendering THEN timers \in {{"pump"}, {"feed"}, {"backstop"},
                                   {"backstop", "quiet"}}
     ELSE timers = {}
  /\ fed <=> "backstop" \in timers
  /\ queue # <<>> => HasLeaf
  /\ \A i \in DOMAIN queue :
       /\ queue[i].build = build /\ card[queue[i].card].exists
       /\ \A j \in 1..(i - 1) : queue[j] # queue[i]

\* No card is left on its placeholder: what is near the viewport is drawn, or
\* on the queue, or was given up after its attempts.
NoneIsStranded ==
  \A c \in near : card[c].exists /\ card[c].leaves # <<>> =>
    card[c].rendered \/ InQueue(c) \/ card[c].gaveUp

PipelineIsWhole == TypeOK /\ OneStepScheduled /\ NoneIsStranded

\* A card that would be skipped as unchanged does show its tab as it is: in the
\* present colours, and each pane that was drawn with all that its session has
\* written.  A texture that the pipeline made also shows just these panes.
SkipIsCurrent ==
  \A c \in Card :
    LET ci == card[c]
        tex == cache[c] IN
    /\ ci.exists /\ tex # None /\ sigs[c] # None
    /\ CurrentSig(ci.leaves) = sigs[c]
    =>
    /\ tex.palette = palette
    /\ \A p \in tex.panes :
         p[1] \in Range(ci.leaves) => p[2] \in {Missing, Blank, content[p[1]]}
    /\ ~tex.live => {p[1] : p \in tex.panes} = Range(ci.leaves)

\* Every card that waits for its thumbnail is served, however often the
\* terminal has no allocation, its snapshots show nothing and the card goes back
\* on the queue, and however much it is redrawn.
EachIsServed == \A c \in Card : InQueue(c) ~> ~InQueue(c)

\* render_finish: a signature is recorded "only when every pane contributed, so
\* a partial render never poses as complete".
SignedIsWhole ==
  \A c \in Card : sigs[c] # None /\ cache[c] # None /\ ~cache[c].live =>
    \A p \in cache[c].panes : p[2] # Missing

=============================================================================
