---------------------------- MODULE ThumbsProofs ----------------------------
(***************************************************************************)
(* The thumbnail pipeline is whole, and what it skips is current, for any  *)
(* cards, arrangements of panes, viewports and numbers of attempts.        *)
(***************************************************************************)
EXTENDS Thumbs, SequenceTheorems, TLAPS

-----------------------------------------------------------------------------
(* The inductive invariant *)

\* Of a queue q of cards cs in grid b: its cards have panes and are in it once.
QueueOK(cs, q, b) ==
  \A i \in DOMAIN q :
    /\ q[i].build = b
    /\ cs[q[i].card].exists /\ cs[q[i].card].leaves # <<>>
    /\ \A j \in DOMAIN q : q[j].card = q[i].card => j = i

Holds(q, c) == \E i \in DOMAIN q : q[i].card = c

QueueInv == QueueOK(card, queue, build)

\* Whether a session that has written b may have written a before.
Older(a, b) == b = NoTail \/ (a # NoTail /\ a <= b)

\* A signature of the past.
Past(sig) == \A i \in DOMAIN sig : Older(sig[i][2], content[sig[i][1]])

\* The nodes of a card show what it signs, and both are those of its panes.
Faithful(ci) ==
  /\ Len(ci.nodes) = ci.cur - 1 /\ Len(ci.sig) = ci.cur - 1
  /\ Past(ci.sig)
  /\ \A i \in 1 .. ci.cur - 1 :
       /\ ci.sig[i][1] = ci.leaves[i]
       /\ ci.nodes[i] \in {Missing, Blank, ci.sig[i][2]}

Begun(ci) == ci.cur <= Len(ci.leaves) /\ Faithful(ci)

HeadInv == queue # <<>> => Begun(HeadCard)

PeekInv == fed => peeked[1] = Leaf /\ Older(peeked[2], content[Leaf])

\* What a texture shows if a card of signature sig is skipped for it.
Explains(sig, tex) ==
  IF tex.live
  THEN \A p \in tex.panes :
         /\ Older(p[2], content[p[1]])
         /\ \A i \in DOMAIN sig : sig[i][1] = p[1] => Older(sig[i][2], p[2])
  ELSE /\ \A p \in tex.panes : \E i \in DOMAIN sig :
            p[1] = sig[i][1] /\ p[2] \in {Missing, Blank, sig[i][2]}
       /\ \A i \in DOMAIN sig : \E p \in tex.panes : p[1] = sig[i][1]

StoreInv ==
  \A c \in Card :
    /\ Past(sigs[c])
    /\ cache[c] # None => /\ cache[c].palette = palette
                          /\ sigs[c] # None => Explains(sigs[c], cache[c])

Scheduled ==
  /\ rendering <=> queue # <<>>
  /\ IF rendering THEN timers \in {{"pump"}, {"feed"}, {"backstop"},
                                   {"backstop", "quiet"}}
     ELSE timers = {}
  /\ fed <=> "backstop" \in timers

IInv == TypeOK /\ Scheduled /\ QueueInv /\ HeadInv /\ PeekInv /\ StoreInv /\ NoneIsStranded

-----------------------------------------------------------------------------
(* What a session has written *)

LEMMA OlderFact ==
  /\ \A a \in Int : Older(a, a)
  /\ \A a, b, c \in Int : Older(a, b) /\ Older(b, c) => Older(a, c)
  /\ \A a, b \in Int : Older(a, b) /\ Older(b, a) => a = b
  BY DEF Older, NoTail

-----------------------------------------------------------------------------
(* Cards *)

LEMMA CardFields ==
  ASSUME NEW ci \in CardInfo
  PROVE  /\ {ci.exists, ci.picture, ci.rendered, ci.gaveUp} \subseteq BOOLEAN
         /\ ci.leaves \in Seq(Session) /\ ci.nodes \in Seq(Int) /\ ci.sig \in Seq(Pane)
         /\ ci.attempts \in Nat /\ ci.cur \in Nat /\ ci.cur > 0
         /\ {Len(ci.leaves), Len(ci.nodes), Len(ci.sig)} \subseteq Nat
         /\ DOMAIN ci.leaves = 1 .. Len(ci.leaves)
         /\ DOMAIN ci.nodes = 1 .. Len(ci.nodes) /\ DOMAIN ci.sig = 1 .. Len(ci.sig)
<1>1. /\ {ci.exists, ci.picture, ci.rendered, ci.gaveUp} \subseteq BOOLEAN
      /\ ci.leaves \in Seq(Session) /\ ci.nodes \in Seq(Int) /\ ci.sig \in Seq(Pane)
      /\ ci.attempts \in Nat /\ ci.cur \in Nat \ {0}
  BY DEF CardInfo
<1> QED BY <1>1, LenProperties

\* A card starts over with nothing drawn.
LEMMA RestartedFact ==
  ASSUME NEW ci \in CardInfo
  PROVE  /\ Restarted(ci) \in CardInfo
         /\ Restarted(ci).exists = ci.exists /\ Restarted(ci).leaves = ci.leaves
         /\ Restarted(ci).rendered = ci.rendered /\ Restarted(ci).gaveUp = ci.gaveUp
         /\ Restarted(ci).cur = 1 /\ Restarted(ci).nodes = <<>> /\ Restarted(ci).sig = <<>>
<1>1. <<>> \in Seq(Int) /\ <<>> \in Seq(Pane) /\ 1 \in Nat \ {0}
  BY EmptySeq
<1>2. Restarted(ci) \in CardInfo
  BY <1>1, Zenon DEF Restarted, CardInfo
<1>3. /\ Restarted(ci).exists = ci.exists /\ Restarted(ci).leaves = ci.leaves
      /\ Restarted(ci).cur = 1 /\ Restarted(ci).nodes = <<>> /\ Restarted(ci).sig = <<>>
  BY DEF Restarted, CardInfo
<1>4. Restarted(ci).rendered = ci.rendered /\ Restarted(ci).gaveUp = ci.gaveUp
  BY DEF Restarted, CardInfo
<1> QED BY <1>2, <1>3, <1>4

\* What QueueVisibleRenders writes into a card.
LEMMA MarkedFact ==
  ASSUME NEW ci \in CardInfo, NEW ri,
         ri \in {ci, [ci EXCEPT !.rendered = TRUE], [ci EXCEPT !.gaveUp = FALSE]}
  PROVE  /\ ri \in CardInfo
         /\ ri.exists = ci.exists /\ ri.leaves = ci.leaves
         /\ ri.cur = ci.cur /\ ri.nodes = ci.nodes /\ ri.sig = ci.sig
<1>1. ri \in CardInfo
  BY Zenon DEF CardInfo
<1>2. ri.exists = ci.exists /\ ri.leaves = ci.leaves
  BY DEF CardInfo
<1>3. ri.cur = ci.cur /\ ri.nodes = ci.nodes /\ ri.sig = ci.sig
  BY DEF CardInfo
<1> QED BY <1>1, <1>2, <1>3

\* Cards that differ only in what has been drawn of them, or how they stand.
SameShape(cs, ds) ==
  \A c \in Card : ds[c].exists = cs[c].exists /\ ds[c].leaves = cs[c].leaves

-----------------------------------------------------------------------------
(* The render queue *)

Entries == [card : Card, build : Nat]

LEMMA EntryFact ==
  ASSUME NEW c \in Card, NEW b \in Nat
  PROVE  Entry(c, b) \in Entries /\ Entry(c, b).card = c /\ Entry(c, b).build = b
  BY DEF Entry, Entries

LEMMA SeqFact ==
  ASSUME NEW S, NEW q \in Seq(S)
  PROVE  /\ Len(q) \in Nat /\ DOMAIN q = 1 .. Len(q)
         /\ \A i \in DOMAIN q : q[i] \in S
         /\ q # <<>> <=> Len(q) > 0
         /\ q # <<>> => Head(q) = q[1] /\ q[1] \in S /\ 1 \in DOMAIN q
<1>1. Len(q) \in Nat /\ DOMAIN q = 1 .. Len(q) /\ q \in [1 .. Len(q) -> S]
  BY LenProperties
<1>2. q # <<>> <=> Len(q) > 0
  BY <1>1, EmptySeq
<1>3. q # <<>> => Head(q) = q[1]
  BY <1>1, <1>2
<1> QED BY <1>1, <1>2, <1>3

LEMMA QueueFact ==
  ASSUME NEW q \in Seq(Entries)
  PROVE  /\ Len(q) \in Nat /\ DOMAIN q = 1 .. Len(q)
         /\ \A i \in DOMAIN q : q[i].card \in Card /\ q[i].build \in Nat
         /\ q # <<>> <=> Len(q) > 0
         /\ q # <<>> => Head(q) = q[1] /\ 1 \in DOMAIN q
<1>1. /\ Len(q) \in Nat /\ DOMAIN q = 1 .. Len(q)
      /\ \A i \in DOMAIN q : q[i] \in Entries
      /\ q # <<>> <=> Len(q) > 0
      /\ q # <<>> => Head(q) = q[1] /\ 1 \in DOMAIN q
  BY SeqFact
<1>2. \A e \in Entries : e.card \in Card /\ e.build \in Nat
  BY DEF Entries
<1> QED BY <1>1, <1>2

LEMMA TailFact ==
  ASSUME NEW q \in Seq(Entries), NEW cs, NEW b, QueueOK(cs, q, b), q # <<>>
  PROVE  /\ Tail(q) \in Seq(Entries) /\ QueueOK(cs, Tail(q), b)
         /\ \A j \in DOMAIN Tail(q) : Tail(q)[j].card # Head(q).card
         /\ \A i \in DOMAIN q : q[i].card # Head(q).card =>
              \E j \in DOMAIN Tail(q) : Tail(q)[j] = q[i]
<1>1. /\ Tail(q) \in Seq(Entries) /\ Len(Tail(q)) = Len(q) - 1
      /\ \A i \in 1 .. Len(Tail(q)) : Tail(q)[i] = q[i + 1]
  BY HeadTailProperties
<1>2. /\ Len(q) \in Nat /\ Len(q) > 0 /\ DOMAIN q = 1 .. Len(q) /\ Head(q) = q[1]
      /\ DOMAIN Tail(q) = 1 .. Len(Tail(q))
  BY <1>1, SeqFact
<1>3. \A i \in DOMAIN Tail(q) : i \in 1 .. Len(q) - 1 /\ i + 1 \in DOMAIN q /\ Tail(q)[i] = q[i + 1]
  BY <1>1, <1>2
<1>4. \A i, j \in DOMAIN q : q[j].card = q[i].card => j = i
  BY DEF QueueOK
<1>5. QueueOK(cs, Tail(q), b)
  <2> SUFFICES ASSUME NEW i \in DOMAIN Tail(q)
               PROVE /\ q[i + 1].build = b /\ cs[q[i + 1].card].exists
                     /\ cs[q[i + 1].card].leaves # <<>>
                     /\ \A j \in DOMAIN Tail(q) : q[j + 1].card = q[i + 1].card => j = i
    BY <1>3 DEF QueueOK
  <2>1. i + 1 \in DOMAIN q
    BY <1>3
  <2>2. \A j \in DOMAIN Tail(q) : q[j + 1].card = q[i + 1].card => j = i
    <3> SUFFICES ASSUME NEW j \in DOMAIN Tail(q), q[j + 1].card = q[i + 1].card
                 PROVE j = i
      OBVIOUS
    <3>1. j + 1 = i + 1
      BY <1>3, <1>4
    <3> QED BY <1>3, <3>1
  <2> QED BY <2>1, <2>2 DEF QueueOK
<1>6. \A j \in DOMAIN Tail(q) : Tail(q)[j].card # Head(q).card
  <2> SUFFICES ASSUME NEW j \in DOMAIN Tail(q), q[j + 1].card = q[1].card
               PROVE FALSE
    BY <1>2, <1>3
  <2>1. j + 1 = 1
    BY <1>2, <1>3, <1>4
  <2> QED BY <1>3, <2>1
<1>7. ASSUME NEW i \in DOMAIN q, q[i].card # Head(q).card
      PROVE \E j \in DOMAIN Tail(q) : Tail(q)[j] = q[i]
  <2>1. i # 1 /\ i \in 1 .. Len(q)
    BY <1>2, <1>7
  <2>2. i - 1 \in DOMAIN Tail(q) /\ (i - 1) + 1 = i
    BY <1>1, <1>2, <2>1
  <2> QED BY <1>3, <2>2
<1> QED BY <1>1, <1>5, <1>6, <1>7

\* The new entries are the cards that wait, each once.
LEMMA OrderFact ==
  ASSUME NEW S \in SUBSET Card, NEW new \in InFlowOrder(S)
  PROVE  /\ new \in Seq(S) /\ Len(new) \in Nat /\ DOMAIN new = 1 .. Len(new)
         /\ \A i \in DOMAIN new : new[i] \in S
         /\ \A c \in S : \E i \in DOMAIN new : new[i] = c
         /\ \A i, j \in DOMAIN new : new[i] = new[j] => i = j
<1>1. PICK n \in 0 .. Len(Grid) : new \in [1 .. n -> S]
  BY DEF InFlowOrder
<1>2. /\ Range(new) = S
      /\ \A i, j \in DOMAIN new : i < j => FlowIndex(new[i]) < FlowIndex(new[j])
  BY DEF InFlowOrder
<1>3. n \in Nat /\ new \in Seq(S)
  BY <1>1, SeqDef
<1>4. /\ Len(new) \in Nat /\ DOMAIN new = 1 .. Len(new)
      /\ \A i \in DOMAIN new : new[i] \in S
  BY <1>3, SeqFact
<1>5. \A c \in S : \E i \in DOMAIN new : new[i] = c
  BY <1>2 DEF Range
<1>6. \A c \in Card : FlowIndex(c) \in Nat
  <2> SUFFICES ASSUME NEW c \in Card PROVE FlowIndex(c) \in Nat
    OBVIOUS
  <2>1. DOMAIN Grid \subseteq Nat
    BY ThumbsConstants, SeqFact
  <2>2. \E i \in DOMAIN Grid : Grid[i] = c
    BY DEF Card, Range
  <2> QED BY <2>1, <2>2 DEF FlowIndex
<1>7. \A i, j \in DOMAIN new : new[i] = new[j] => i = j
  <2> SUFFICES ASSUME NEW i \in DOMAIN new, NEW j \in DOMAIN new, new[i] = new[j], i < j
               PROVE FALSE
    BY <1>4
  <2>1. FlowIndex(new[i]) < FlowIndex(new[j]) /\ new[i] \in Card
    BY <1>2, <1>4
  <2> QED BY <1>6, <2>1
<1> QED BY <1>3, <1>4, <1>5, <1>7

\* RenderPump starts the card at the head, and leaves the others as they are.
LEMMA PumpFact ==
  ASSUME NEW cs \in [Card -> CardInfo], NEW q \in Seq(Entries), NEW ts, NEW b,
         QueueOK(cs, q, b), RenderPump(cs, q, ts), UNCHANGED content
  PROVE  /\ card' \in [Card -> CardInfo] /\ SameShape(cs, card')
         /\ queue' = q /\ (rendering' <=> q # <<>>) /\ rendering' \in BOOLEAN
         /\ timers' = IF q = <<>> THEN ts ELSE ts \cup {"pump"}
         /\ \A c \in Card : card'[c].rendered = cs[c].rendered /\ card'[c].gaveUp = cs[c].gaveUp
         /\ HeadInv' /\ QueueOK(card', q, b)
<1>1. /\ queue' = q /\ (rendering' <=> q # <<>>) /\ rendering' \in BOOLEAN
      /\ timers' = IF q = <<>> THEN ts ELSE ts \cup {"pump"}
  BY DEF RenderPump
<1>2. CASE q = <<>>
  BY <1>1, <1>2 DEF RenderPump, SameShape, HeadInv
<1>3. CASE q # <<>>
  <2> DEFINE h == q[1].card
  <2>1. Head(q) = q[1] /\ h \in Card /\ 1 \in DOMAIN q
    BY <1>3, QueueFact
  <2>2. card' = [cs EXCEPT ![h] = Restarted(cs[h])]
    BY <1>3, <2>1 DEF RenderPump
  <2>3. cs[h] \in CardInfo /\ cs[h].leaves # <<>>
    BY <2>1 DEF QueueOK
  <2>4. card' \in [Card -> CardInfo] /\ card'[h] = Restarted(cs[h])
        /\ \A c \in Card \ {h} : card'[c] = cs[c]
    BY <2>1, <2>2, <2>3, RestartedFact
  <2>5. /\ SameShape(cs, card')
        /\ \A c \in Card : card'[c].rendered = cs[c].rendered /\ card'[c].gaveUp = cs[c].gaveUp
    BY <2>3, <2>4, RestartedFact DEF SameShape
  <2>6. HeadInv'
    <3>1. HeadCard' = Restarted(cs[h])
      BY <1>1, <2>1, <2>4 DEF HeadCard
    <3>2. /\ HeadCard'.cur = 1 /\ HeadCard'.nodes = <<>> /\ HeadCard'.sig = <<>>
          /\ HeadCard'.leaves = cs[h].leaves
      BY <2>3, <3>1, RestartedFact
    <3>3. Len(cs[h].leaves) >= 1
      BY <2>3, CardFields, EmptySeq
    <3>4. Len(<<>>) = 0 /\ DOMAIN <<>> = {}
      BY EmptySeq
    <3>5. Begun(HeadCard)'
      BY <3>2, <3>3, <3>4 DEF Begun, Faithful, Past
    <3> QED BY <3>5 DEF HeadInv
  <2>7. \A i \in DOMAIN q : q[i].card \in Card
    BY QueueFact
  <2> QED BY <1>1, <2>4, <2>5, <2>6, <2>7 DEF QueueOK, SameShape
<1> QED BY <1>2, <1>3

\* What QueueVisibleRenders makes of the pipeline, busy or not.
LEMMA VisibleFact ==
  ASSUME NEW cs \in [Card -> CardInfo], NEW q \in Seq(Entries), NEW busy \in BOOLEAN,
         NEW ts, NEW b \in Nat, NEW visible \in SUBSET Card,
         QueueOK(cs, q, b), QueueVisibleRenders(cs, q, busy, ts, b, visible),
         UNCHANGED content,
         busy => q # <<>> /\ Begun(cs[Head(q).card])
  PROVE  /\ card' \in [Card -> CardInfo] /\ SameShape(cs, card')
         /\ queue' \in Seq(Entries) /\ QueueOK(card', queue', b)
         /\ \A c \in visible : card'[c].exists /\ card'[c].leaves # <<>> =>
              card'[c].rendered \/ Holds(queue', c)
         /\ HeadInv'
         /\ busy => /\ queue' # <<>> /\ Head(queue') = Head(q)
                    /\ card'[Head(q).card].cur = cs[Head(q).card].cur
                    /\ UNCHANGED <<rendering, timers>>
         /\ ~busy => /\ (rendering' <=> queue' # <<>>) /\ rendering' \in BOOLEAN
                     /\ timers' = IF queue' = <<>> THEN ts ELSE ts \cup {"pump"}
<1> DEFINE waiting == {c \in visible : /\ cs[c].exists /\ cs[c].leaves # <<>>
                                       /\ ~cs[c].rendered /\ Entry(c, b) \notin Range(q)}
           skipped == {c \in waiting : /\ sigs'[c] # None /\ cache'[c] # None
                                       /\ CurrentSig(cs[c].leaves) = sigs'[c]}
           marked == [c \in Card |->
                        IF c \notin waiting THEN cs[c]
                        ELSE IF c \in skipped THEN [cs[c] EXCEPT !.rendered = TRUE]
                        ELSE [cs[c] EXCEPT !.gaveUp = FALSE]]
           late == waiting \ skipped
<1>1. PICK new \in InFlowOrder(late) :
        LET longer == q \o [i \in DOMAIN new |-> Entry(new[i], b)] IN
        IF busy
        THEN queue' = longer /\ card' = marked /\ UNCHANGED <<rendering, timers>>
        ELSE RenderPump(marked, longer, ts)
  BY DEF QueueVisibleRenders
<1> DEFINE added == [i \in DOMAIN new |-> Entry(new[i], b)]
           longer == q \o added
<1>2. /\ Len(new) \in Nat /\ DOMAIN new = 1 .. Len(new)
      /\ \A i \in DOMAIN new : new[i] \in late
      /\ \A c \in late : \E i \in DOMAIN new : new[i] = c
      /\ \A i, j \in DOMAIN new : new[i] = new[j] => i = j
  <2>1. late \in SUBSET Card
    OBVIOUS
  <2> HIDE DEF late
  <2> QED BY <1>1, <2>1, OrderFact
<1>3. /\ marked \in [Card -> CardInfo] /\ SameShape(cs, marked)
      /\ \A c \in Card : /\ marked[c].cur = cs[c].cur /\ marked[c].nodes = cs[c].nodes
                         /\ marked[c].sig = cs[c].sig
      /\ \A c \in Card \ waiting : marked[c] = cs[c]
      /\ \A c \in skipped : marked[c].rendered
  <2>1. \A c \in Card : marked[c] \in {cs[c], [cs[c] EXCEPT !.rendered = TRUE],
                                       [cs[c] EXCEPT !.gaveUp = FALSE]}
    BY Zenon
  <2>2. \A c \in Card : /\ marked[c] \in CardInfo
                        /\ marked[c].exists = cs[c].exists /\ marked[c].leaves = cs[c].leaves
                        /\ marked[c].cur = cs[c].cur /\ marked[c].nodes = cs[c].nodes
                        /\ marked[c].sig = cs[c].sig
    <3> HIDE DEF marked
    <3> SUFFICES ASSUME NEW c \in Card
                 PROVE  /\ marked[c] \in CardInfo
                        /\ marked[c].exists = cs[c].exists /\ marked[c].leaves = cs[c].leaves
                        /\ marked[c].cur = cs[c].cur /\ marked[c].nodes = cs[c].nodes
                        /\ marked[c].sig = cs[c].sig
      OBVIOUS
    <3>1. cs[c] \in CardInfo
      OBVIOUS
    <3> QED BY <2>1, <3>1, MarkedFact
  <2>3. \A c \in skipped : c \in Card /\ marked[c] = [cs[c] EXCEPT !.rendered = TRUE]
    OBVIOUS
  <2>4. \A ci \in CardInfo : [ci EXCEPT !.rendered = TRUE].rendered
    BY DEF CardInfo
  <2>5. \A c \in skipped : marked[c].rendered
    <3> HIDE DEF marked, skipped
    <3> QED BY <2>3, <2>4
  <2>6. \A c \in Card \ waiting : marked[c] = cs[c]
    OBVIOUS
  <2>7. marked \in [Card -> CardInfo]
    BY <2>2, Zenon
  <2> HIDE DEF marked, skipped, waiting
  <2> QED BY <2>2, <2>5, <2>6, <2>7 DEF SameShape
<1>4. /\ added \in Seq(Entries) /\ Len(added) = Len(new)
      /\ \A i \in DOMAIN new : added[i].card = new[i] /\ added[i].build = b
  <2> HIDE DEF late
  <2>1. \A i \in DOMAIN new : new[i] \in Card
    BY <1>2 DEF late
  <2>2. added \in [1 .. Len(new) -> Entries]
    BY <1>2, <2>1, EntryFact
  <2>3. added \in Seq(Entries)
    BY <1>2, <2>2, SeqDef
  <2>4. DOMAIN added = 1 .. Len(added) /\ Len(added) \in Nat
    BY <2>3, SeqFact
  <2>5. Len(added) = Len(new)
    BY <1>2, <2>4
  <2> QED BY <2>1, <2>3, <2>5, EntryFact
<1>5. /\ longer \in Seq(Entries) /\ Len(longer) = Len(q) + Len(new)
      /\ DOMAIN longer = 1 .. Len(q) + Len(new) /\ Len(q) \in Nat /\ DOMAIN q = 1 .. Len(q)
      /\ \A i \in DOMAIN q : i \in DOMAIN longer /\ longer[i] = q[i]
      /\ \A i \in DOMAIN longer \ DOMAIN q :
           i - Len(q) \in DOMAIN new /\ longer[i] = added[i - Len(q)]
      /\ \A i \in DOMAIN new : i + Len(q) \in DOMAIN longer /\ longer[i + Len(q)] = added[i]
  <2> HIDE DEF added
  <2>1. /\ longer \in Seq(Entries) /\ Len(longer) = Len(q) + Len(added)
        /\ \A i \in 1 .. Len(q) + Len(added) :
             longer[i] = IF i <= Len(q) THEN q[i] ELSE added[i - Len(q)]
    <3>1. added \in Seq(Entries)
      BY <1>4
    <3>2. /\ q \o added \in Seq(Entries) /\ Len(q \o added) = Len(q) + Len(added)
          /\ \A i \in 1 .. Len(q) + Len(added) :
               (q \o added)[i] = IF i <= Len(q) THEN q[i] ELSE added[i - Len(q)]
      BY <3>1, ConcatProperties, Zenon
    <3> QED BY <3>2
  <2>2. Len(q) \in Nat /\ DOMAIN q = 1 .. Len(q) /\ DOMAIN longer = 1 .. Len(longer)
    BY <2>1, QueueFact
  <2> HIDE DEF longer
  <2>3. DOMAIN longer = 1 .. Len(q) + Len(new)
    BY <1>4, <2>1, <2>2
  <2>4. \A i \in DOMAIN q : i \in DOMAIN longer /\ longer[i] = q[i]
    BY <1>2, <1>4, <2>1, <2>2
  <2>5. \A i \in DOMAIN longer \ DOMAIN q :
           i - Len(q) \in DOMAIN new /\ longer[i] = added[i - Len(q)]
    BY <1>2, <1>4, <2>1, <2>2, <2>3
  <2>6. \A i \in DOMAIN new : i + Len(q) \in DOMAIN longer /\ longer[i + Len(q)] = added[i]
    BY <1>2, <1>4, <2>1, <2>2, <2>3
  <2> QED BY <1>4, <2>1, <2>2, <2>3, <2>4, <2>5, <2>6
<1>6. \A c \in late, i \in DOMAIN q : q[i].card # c
  <2> SUFFICES ASSUME NEW i \in DOMAIN q PROVE Entry(q[i].card, b) \in Range(q)
    OBVIOUS
  <2>1. q[i] \in Entries /\ q[i].build = b
    BY SeqFact DEF QueueOK
  <2>2. q[i] = Entry(q[i].card, b)
    BY <2>1 DEF Entries, Entry
  <2> QED BY <2>2 DEF Range
<1> HIDE DEF waiting, skipped, marked, late, added, longer
<1>7. QueueOK(marked, longer, b)
  <2>1. \A i \in DOMAIN longer \ DOMAIN q : longer[i].card \in late /\ longer[i].build = b
    BY <1>2, <1>4, <1>5
  <2>2. \A c \in late : c \in Card /\ cs[c].exists /\ cs[c].leaves # <<>>
    BY DEF late, waiting
  <2>3. \A i \in DOMAIN longer : longer[i].card \in Card
    BY <1>5, QueueFact
  <2>4. ASSUME NEW i \in DOMAIN longer
        PROVE  /\ longer[i].build = b /\ cs[longer[i].card].exists
               /\ cs[longer[i].card].leaves # <<>>
    <3>1. CASE i \in DOMAIN q
      BY <1>5, <3>1 DEF QueueOK
    <3>2. CASE i \notin DOMAIN q
      BY <2>1, <2>2, <3>2
    <3> QED BY <3>1, <3>2
  <2>5. ASSUME NEW i \in DOMAIN longer, NEW j \in DOMAIN longer, longer[j].card = longer[i].card
        PROVE j = i
    <3>1. CASE i \in DOMAIN q /\ j \in DOMAIN q
      BY <1>5, <2>5, <3>1 DEF QueueOK
    <3>2. CASE i \in DOMAIN q /\ j \notin DOMAIN q
      BY <1>5, <1>6, <2>1, <2>5, <3>2
    <3>3. CASE i \notin DOMAIN q /\ j \in DOMAIN q
      BY <1>5, <1>6, <2>1, <2>5, <3>3
    <3>4. CASE i \notin DOMAIN q /\ j \notin DOMAIN q
      <4>1. i - Len(q) \in DOMAIN new /\ j - Len(q) \in DOMAIN new
        BY <1>5, <3>4
      <4>2. new[j - Len(q)] = new[i - Len(q)]
        BY <1>4, <1>5, <2>5, <3>4, <4>1
      <4>3. j - Len(q) = i - Len(q)
        BY <1>2, <4>1, <4>2
      <4> QED BY <1>5, <2>5, <4>3
    <3> QED BY <3>1, <3>2, <3>3, <3>4
  <2> QED BY <1>3, <2>3, <2>4, <2>5 DEF QueueOK, SameShape
<1>8. \A c \in visible : marked[c].exists /\ marked[c].leaves # <<>> =>
        marked[c].rendered \/ Holds(longer, c)
  <2> SUFFICES ASSUME NEW c \in visible, cs[c].exists, cs[c].leaves # <<>>,
                      ~marked[c].rendered
               PROVE  \E i \in DOMAIN longer : longer[i].card = c
    BY <1>3 DEF SameShape, Holds
  <2>1. CASE c \in waiting
    <3>1. c \in late
      BY <1>3, <2>1 DEF late
    <3>2. PICK i \in DOMAIN new : new[i] = c
      BY <1>2, <3>1
    <3>3. i + Len(q) \in DOMAIN longer /\ longer[i + Len(q)].card = c
      BY <1>4, <1>5, <3>2
    <3> QED BY <3>3
  <2>2. CASE c \notin waiting
    <3>1. ~cs[c].rendered
      BY <1>3, <2>2
    <3>2. Entry(c, b) \in Range(q)
      BY <2>2, <3>1 DEF waiting
    <3>3. \E i \in DOMAIN q : q[i] = Entry(c, b)
      BY <3>2 DEF Range
    <3> QED BY <1>5, <3>3, EntryFact
  <2> QED BY <2>1, <2>2
<1>9. CASE busy
  <2>1. queue' = longer /\ card' = marked /\ UNCHANGED <<rendering, timers>>
    BY <1>1, <1>9 DEF marked, longer, added, waiting, skipped
  <2>2. q # <<>> /\ 1 \in DOMAIN q /\ Head(q) = q[1] /\ q[1].card \in Card
    BY <1>9, QueueFact
  <2>3. longer # <<>> /\ Head(longer) = q[1]
    BY <1>5, <2>2, QueueFact
  <2>4. HeadCard'.cur = cs[q[1].card].cur /\ HeadCard'.leaves = cs[q[1].card].leaves
        /\ HeadCard'.nodes = cs[q[1].card].nodes /\ HeadCard'.sig = cs[q[1].card].sig
    <3>1. HeadCard' = marked[q[1].card]
      BY <2>1, <2>3 DEF HeadCard
    <3>2. PICK h \in Card : h = q[1].card
      BY <2>2
    <3>3. /\ marked[h].cur = cs[h].cur /\ marked[h].leaves = cs[h].leaves
          /\ marked[h].nodes = cs[h].nodes /\ marked[h].sig = cs[h].sig
      BY <1>3, <3>2 DEF SameShape
    <3> QED BY <3>1, <3>2, <3>3
  <2>5. HeadInv'
    <3>1. PICK ci : ci = cs[q[1].card]
      OBVIOUS
    <3>2. Begun(ci)
      BY <1>9, <2>2, <3>1
    <3>3. Begun(HeadCard)'
      BY <2>4, <3>1, <3>2 DEF Begun, Faithful, Past
    <3> QED BY <3>3 DEF HeadInv
  <2> QED BY <1>3, <1>5, <1>7, <1>8, <1>9, <2>1, <2>2, <2>3, <2>4, <2>5
<1>10. CASE ~busy
  <2>1. RenderPump(marked, longer, ts)
    BY <1>1, <1>10 DEF marked, longer, added, waiting, skipped
  <2>2. /\ card' \in [Card -> CardInfo] /\ SameShape(marked, card')
        /\ queue' = longer /\ (rendering' <=> longer # <<>>) /\ rendering' \in BOOLEAN
        /\ timers' = IF longer = <<>> THEN ts ELSE ts \cup {"pump"}
        /\ \A c \in Card : card'[c].rendered = marked[c].rendered
        /\ HeadInv' /\ QueueOK(card', longer, b)
    BY <1>3, <1>5, <1>7, <2>1, PumpFact
  <2> QED BY <1>3, <1>5, <1>8, <1>10, <2>2 DEF SameShape
<1> QED BY <1>9, <1>10

-----------------------------------------------------------------------------
(* Facts about states *)

LEMMA TypeFact ==
  ASSUME TypeOK
  PROVE  /\ queue \in Seq(Entries) /\ card \in [Card -> CardInfo]
         /\ content \in [Session -> Int] /\ build \in Nat /\ near \in SUBSET Card
         /\ \A c \in Card : sigs[c] \in Seq(Pane)
         /\ rendering \in BOOLEAN
  BY DEF TypeOK, Entries, NoTail

\* The card and the pane that are being drawn.
LEMMA HeadFact ==
  ASSUME TypeOK, QueueInv, HeadInv, queue # <<>>
  PROVE  /\ Head(queue) = queue[1] /\ queue[1].card \in Card /\ 1 \in DOMAIN queue
         /\ HeadCard = card[queue[1].card] /\ HeadCard \in CardInfo /\ Begun(HeadCard)
         /\ HeadCard.exists /\ HeadCard.leaves # <<>>
         /\ HasLeaf /\ Leaf = HeadCard.leaves[HeadCard.cur] /\ Leaf \in Session
<1>1. queue \in Seq(Entries) /\ card \in [Card -> CardInfo]
  BY TypeFact
<1>2. Head(queue) = queue[1] /\ queue[1].card \in Card /\ 1 \in DOMAIN queue
  BY <1>1, QueueFact
<1>3. HeadCard = card[queue[1].card] /\ HeadCard \in CardInfo
  BY <1>1, <1>2 DEF HeadCard
<1>4. HeadCard.exists /\ HeadCard.leaves # <<>>
  BY <1>2, <1>3 DEF QueueInv, QueueOK
<1>5. Begun(HeadCard)
  BY DEF HeadInv
<1>6. HeadCard.cur \in DOMAIN HeadCard.leaves /\ HeadCard.leaves \in Seq(Session)
  BY <1>3, <1>5, CardFields DEF Begun
<1>7. HeadCard.leaves[HeadCard.cur] \in Session
  BY <1>6, SeqFact
<1> QED BY <1>2, <1>3, <1>4, <1>5, <1>7 DEF HasLeaf, Leaf, Begun

\* A timeout is armed only while the pipeline is busy, and for one step.
LEMMA TimerFact ==
  ASSUME Scheduled
  PROVE  /\ "pump" \in timers => timers = {"pump"} /\ ~fed /\ queue # <<>> /\ rendering
         /\ "feed" \in timers => timers = {"feed"} /\ ~fed /\ queue # <<>> /\ rendering
         /\ "quiet" \in timers => timers = {"backstop", "quiet"}
         /\ "backstop" \in timers =>
              fed /\ queue # <<>> /\ rendering /\ SettleCancel = {}
  BY DEF Scheduled, SettleCancel

LEMMA SameQueue ==
  ASSUME QueueInv, HeadInv, UNCHANGED <<queue, card, build, content>>
  PROVE  QueueInv' /\ HeadInv' /\ HeadCard' = HeadCard /\ Leaf' = Leaf /\ HasLeaf' = HasLeaf
  BY DEF QueueInv, QueueOK, HeadInv, HeadCard, Leaf, HasLeaf, Begun, Faithful, Past

LEMMA SameStore ==
  ASSUME StoreInv, UNCHANGED <<cache, sigs, palette, content>>
  PROVE  StoreInv'
  BY DEF StoreInv, Past, Explains

LEMMA SameCards ==
  ASSUME NoneIsStranded, UNCHANGED <<queue, card, near>>
  PROVE  NoneIsStranded'
  BY DEF NoneIsStranded, InQueue

-----------------------------------------------------------------------------
(* Steps of the pipeline *)

LEMMA FeedStep ==
  ASSUME IInv, NEW t \in {"pump", "feed"}, t \in timers, Feed(timers \ {t}),
         last' \in Range(GridOf) \cup {NoGrid}, UNCHANGED world
  PROVE  IInv'
<1>1. /\ TypeOK /\ Scheduled /\ QueueInv /\ HeadInv /\ PeekInv /\ StoreInv /\ NoneIsStranded
      /\ UNCHANGED <<content, blob, near, palette, build, events, queue, card, rendering, cache, sigs>>
      /\ peeked' = PaneSig(Leaf) /\ ~parsed' /\ fed' /\ timers' = (timers \ {t}) \cup {"backstop"}
      /\ parsed' \in BOOLEAN /\ fed' \in BOOLEAN
  BY DEF IInv, Feed, world, store
<1>2. timers = {t} /\ queue # <<>> /\ rendering
  BY <1>1, TimerFact
<1>3. Leaf \in Session
  BY <1>1, <1>2, HeadFact
<1>4. peeked' = <<Leaf, content[Leaf]>> /\ content[Leaf] \in Int
  BY <1>1, <1>3, TypeFact DEF PaneSig
<1>5. TypeOK'
  BY <1>1, <1>2, <1>3, <1>4 DEF TypeOK
<1>6. timers' = {"backstop"}
  BY <1>1, <1>2
<1>7. Scheduled'
  BY <1>1, <1>2, <1>6 DEF Scheduled
<1>8. PeekInv'
  <2>1. Leaf' = Leaf
    BY <1>1, SameQueue
  <2>2. Older(content[Leaf], content[Leaf])
    BY <1>4, OlderFact
  <2> QED BY <1>1, <1>4, <2>1, <2>2 DEF PeekInv
<1> QED BY <1>1, <1>5, <1>7, <1>8, SameQueue, SameStore, SameCards DEF IInv

LEMMA StartStep == IInv /\ RenderStart => IInv'
<1> SUFFICES ASSUME IInv, RenderStart PROVE IInv'
  OBVIOUS
<1>1. /\ TypeOK /\ Scheduled /\ QueueInv /\ HeadInv /\ PeekInv /\ StoreInv /\ NoneIsStranded
      /\ "pump" \in timers /\ UNCHANGED world
  BY DEF IInv, RenderStart
<1>2. timers = {"pump"} /\ ~fed /\ queue # <<>> /\ rendering
  BY <1>1, TimerFact
<1>3. HasLeaf /\ Leaf \in Session
  BY <1>1, <1>2, HeadFact
<1>4. CASE GridOf[Leaf] # last
  <2>1. /\ last' = GridOf[Leaf] /\ ~fed' /\ fed' \in BOOLEAN /\ timers' = {"feed"}
        /\ UNCHANGED <<content, blob, near, palette, build, events,
                       queue, card, rendering, cache, sigs, peeked, parsed>>
    BY <1>1, <1>2, <1>3, <1>4 DEF RenderStart, world, store
  <2>2. last' \in Range(GridOf)
    BY <1>3, <2>1, ThumbsConstants DEF Range
  <2>3. TypeOK'
    BY <1>1, <2>1, <2>2 DEF TypeOK
  <2>4. Scheduled' /\ PeekInv'
    BY <1>1, <1>2, <2>1 DEF Scheduled, PeekInv
  <2> QED BY <1>1, <2>1, <2>3, <2>4, SameQueue, SameStore, SameCards DEF IInv
<1>5. CASE GridOf[Leaf] = last
  <2>1. Feed(timers \ {"pump"}) /\ UNCHANGED last
    BY <1>3, <1>5 DEF RenderStart
  <2>2. last' \in Range(GridOf) \cup {NoGrid}
    BY <1>1, <2>1 DEF TypeOK
  <2> QED BY <1>1, <2>1, <2>2, FeedStep
<1> QED BY <1>4, <1>5

LEMMA FeedTimeoutStep == IInv /\ RenderFeed => IInv'
<1> SUFFICES ASSUME IInv, RenderFeed PROVE IInv'
  OBVIOUS
<1>1. /\ TypeOK /\ Scheduled /\ QueueInv /\ HeadInv
      /\ "feed" \in timers /\ UNCHANGED world /\ UNCHANGED last
  BY DEF IInv, RenderFeed
<1>2. HasLeaf
  BY <1>1, TimerFact, HeadFact
<1>3. Feed(timers \ {"feed"})
  BY <1>2 DEF RenderFeed
<1>4. last' \in Range(GridOf) \cup {NoGrid}
  BY <1>1 DEF TypeOK
<1> QED BY <1>1, <1>3, <1>4, FeedStep

\* contents-changed, and a quiet period that is declined.
LEMMA QuietStep == IInv /\ (VteParses \/ VteResets \/ SettleQuietDeclined) => IInv'
<1> SUFFICES ASSUME IInv, VteParses \/ VteResets \/ SettleQuietDeclined PROVE IInv'
  OBVIOUS
<1>1. /\ TypeOK /\ Scheduled /\ QueueInv /\ HeadInv /\ PeekInv /\ StoreInv /\ NoneIsStranded
      /\ UNCHANGED <<content, blob, near, palette, build, events, queue, card, rendering,
                     cache, sigs, fed, peeked, last>>
      /\ timers' = QuietArmed(timers) \/ timers' = timers \ {"quiet"}
      /\ parsed' \in BOOLEAN
  BY DEF IInv, TypeOK, VteParses, VteResets, SettleQuietDeclined, world, store, term
<1>2. TypeOK'
  BY <1>1 DEF TypeOK, QuietArmed
<1>3. Scheduled'
  BY <1>1 DEF Scheduled, QuietArmed
<1>4. PeekInv'
  BY <1>1, SameQueue DEF PeekInv
<1> QED BY <1>1, <1>2, <1>3, <1>4, SameQueue, SameStore, SameCards DEF IInv

-----------------------------------------------------------------------------
(* render_finish *)

\* The pane that is committed shows what was peeked, if anything.
LEMMA CommittedFact ==
  ASSUME NEW ci \in CardInfo, Begun(ci), NEW node \in Int,
         node \in {Missing, Blank, peeked[2]}, peeked \in Pane,
         peeked[1] = ci.leaves[ci.cur], Older(peeked[2], content[peeked[1]])
  PROVE  /\ Committed(ci, node) \in CardInfo /\ Faithful(Committed(ci, node))
         /\ Committed(ci, node).exists = ci.exists
         /\ Committed(ci, node).leaves = ci.leaves
         /\ Committed(ci, node).rendered = ci.rendered
         /\ Committed(ci, node).gaveUp = ci.gaveUp
         /\ Committed(ci, node).cur = ci.cur + 1
<1> DEFINE n == Committed(ci, node)
<1>1. /\ ci.nodes \in Seq(Int) /\ ci.sig \in Seq(Pane) /\ ci.cur \in Nat /\ ci.cur > 0
      /\ Len(ci.nodes) = ci.cur - 1 /\ Len(ci.sig) = ci.cur - 1
      /\ DOMAIN ci.nodes = 1 .. ci.cur - 1 /\ DOMAIN ci.sig = 1 .. ci.cur - 1
  BY CardFields DEF Begun, Faithful
<1>2. /\ Append(ci.nodes, node) \in Seq(Int) /\ Len(Append(ci.nodes, node)) = ci.cur
      /\ \A i \in 1 .. ci.cur - 1 : Append(ci.nodes, node)[i] = ci.nodes[i]
      /\ Append(ci.nodes, node)[ci.cur] = node
  <2>1. /\ Append(ci.nodes, node) \in Seq(Int) /\ Len(Append(ci.nodes, node)) = Len(ci.nodes) + 1
        /\ \A i \in 1 .. Len(ci.nodes) : Append(ci.nodes, node)[i] = ci.nodes[i]
        /\ Append(ci.nodes, node)[Len(ci.nodes) + 1] = node
    BY <1>1, AppendProperties
  <2>2. Len(ci.nodes) + 1 = ci.cur
    BY <1>1
  <2> QED BY <1>1, <2>1, <2>2
<1>3. /\ Folded(ci) \in Seq(Pane) /\ Len(Folded(ci)) = ci.cur
      /\ DOMAIN Folded(ci) = 1 .. ci.cur
      /\ \A i \in 1 .. ci.cur - 1 : Folded(ci)[i] = ci.sig[i]
      /\ Folded(ci)[ci.cur] = peeked
  <2>1. /\ Folded(ci) \in Seq(Pane) /\ Len(Folded(ci)) = Len(ci.sig) + 1
        /\ \A i \in 1 .. Len(ci.sig) : Folded(ci)[i] = ci.sig[i]
        /\ Folded(ci)[Len(ci.sig) + 1] = peeked
    BY <1>1, AppendProperties DEF Folded
  <2>2. Len(ci.sig) + 1 = ci.cur
    BY <1>1
  <2>3. DOMAIN Folded(ci) = 1 .. Len(Folded(ci))
    BY <2>1, SeqFact
  <2> QED BY <1>1, <2>1, <2>2, <2>3
<1>4. n \in CardInfo
  <2>1. ci.cur + 1 \in Nat \ {0}
    BY <1>1
  <2> QED BY <1>2, <1>3, <2>1, Zenon DEF Committed, CardInfo
<1>5. /\ n.exists = ci.exists /\ n.leaves = ci.leaves /\ n.cur = ci.cur + 1
      /\ n.nodes = Append(ci.nodes, node) /\ n.sig = Folded(ci)
  BY DEF Committed, CardInfo
<1>6. n.rendered = ci.rendered /\ n.gaveUp = ci.gaveUp
  BY DEF Committed, CardInfo
<1> HIDE DEF n
<1>7. Past(n.sig)
  <2> SUFFICES ASSUME NEW i \in 1 .. ci.cur
               PROVE Older(Folded(ci)[i][2], content[Folded(ci)[i][1]])
    BY <1>3, <1>5 DEF Past
  <2>1. CASE i = ci.cur
    BY <1>3, <2>1
  <2>2. CASE i # ci.cur
    <3>1. i \in 1 .. ci.cur - 1
      BY <1>1, <2>2
    <3> QED BY <1>1, <1>3, <3>1 DEF Begun, Faithful, Past
  <2> QED BY <2>1, <2>2
<1>8. ASSUME NEW i \in 1 .. ci.cur
      PROVE  /\ n.sig[i][1] = n.leaves[i]
             /\ n.nodes[i] \in {Missing, Blank, n.sig[i][2]}
  <2>1. CASE i = ci.cur
    BY <1>2, <1>3, <1>5, <2>1
  <2>2. CASE i # ci.cur
    <3>1. i \in 1 .. ci.cur - 1
      BY <1>1, <2>2
    <3>2. ci.sig[i][1] = ci.leaves[i] /\ ci.nodes[i] \in {Missing, Blank, ci.sig[i][2]}
      BY <3>1 DEF Begun, Faithful
    <3>3. n.sig[i] = ci.sig[i] /\ n.nodes[i] = ci.nodes[i]
      BY <1>2, <1>3, <1>5, <3>1
    <3> QED BY <1>5, <3>2, <3>3
  <2> QED BY <2>1, <2>2
<1>9. n.cur - 1 = ci.cur
  BY <1>1, <1>5
<1>10. Faithful(n)
  BY <1>2, <1>3, <1>5, <1>7, <1>8, <1>9 DEF Faithful
<1> QED BY <1>4, <1>5, <1>6, <1>10 DEF n

\* The texture of a card is explained by the card's signature.
LEMMA TextureFact ==
  ASSUME TypeOK, NEW ci \in CardInfo, Faithful(ci), ci.cur = Len(ci.leaves) + 1
  PROVE  /\ Texture(ci) \in [panes : SUBSET Pane, palette : Nat, live : BOOLEAN]
         /\ Texture(ci).palette = palette /\ Explains(ci.sig, Texture(ci))
         /\ Len(ci.sig) = Len(ci.leaves) /\ Past(ci.sig)
<1> DEFINE shown == {<<ci.leaves[i], ci.nodes[i]>> : i \in DOMAIN ci.leaves}
<1>1. /\ Len(ci.sig) = Len(ci.leaves) /\ Len(ci.nodes) = Len(ci.leaves) /\ Past(ci.sig)
      /\ DOMAIN ci.sig = DOMAIN ci.leaves /\ DOMAIN ci.nodes = DOMAIN ci.leaves
      /\ ci.leaves \in Seq(Session) /\ ci.nodes \in Seq(Int)
      /\ DOMAIN ci.leaves = 1 .. Len(ci.leaves) /\ Len(ci.leaves) \in Nat
  BY CardFields DEF Faithful
<1>2. \A i \in DOMAIN ci.leaves :
        ci.sig[i][1] = ci.leaves[i] /\ ci.nodes[i] \in {Missing, Blank, ci.sig[i][2]}
  BY <1>1 DEF Faithful
<1>3. shown \in SUBSET Pane
  <2>1. \A i \in DOMAIN ci.leaves : ci.leaves[i] \in Session /\ ci.nodes[i] \in Int
    BY <1>1, SeqFact
  <2> QED BY <2>1 DEF Pane
<1>4. palette \in Nat
  BY DEF TypeOK
<1>5. /\ Texture(ci).panes = shown /\ Texture(ci).palette = palette
      /\ Texture(ci).live = FALSE
  BY DEF Texture
<1>6. Texture(ci) \in [panes : SUBSET Pane, palette : Nat, live : BOOLEAN]
  BY <1>3, <1>4 DEF Texture
<1>7. \A p \in shown : \E i \in DOMAIN ci.sig :
         p[1] = ci.sig[i][1] /\ p[2] \in {Missing, Blank, ci.sig[i][2]}
  BY <1>1, <1>2
<1>8. \A i \in DOMAIN ci.sig : \E p \in shown : p[1] = ci.sig[i][1]
  <2> SUFFICES ASSUME NEW i \in DOMAIN ci.sig PROVE \E p \in shown : p[1] = ci.sig[i][1]
    OBVIOUS
  <2>1. <<ci.leaves[i], ci.nodes[i]>> \in shown
    BY <1>1
  <2>2. <<ci.leaves[i], ci.nodes[i]>>[1] = ci.sig[i][1]
    BY <1>1, <1>2
  <2> HIDE DEF shown
  <2> QED BY <2>1, <2>2
<1> HIDE DEF shown
<1>9. Explains(ci.sig, Texture(ci))
  BY <1>5, <1>7, <1>8 DEF Explains
<1> QED BY <1>1, <1>5, <1>6, <1>9

\* What render_compose writes into a card.
LEMMA FinishedFact ==
  ASSUME NEW ci \in CardInfo
  PROVE  /\ Finished(ci) \in CardInfo /\ Finished(ci).rendered
         /\ Finished(ci).exists = ci.exists /\ Finished(ci).leaves = ci.leaves
<1>1. Finished(ci) \in CardInfo
  BY EmptySeq, Zenon DEF Finished, CardInfo
<1>2. Finished(ci).exists = ci.exists /\ Finished(ci).leaves = ci.leaves
  BY DEF Finished, CardInfo
<1>3. Finished(ci).rendered
  BY DEF Finished, CardInfo
<1> QED BY <1>1, <1>2, <1>3

LEMMA RetriedFact ==
  ASSUME NEW ci \in CardInfo
  PROVE  /\ Retried(ci) \in CardInfo
         /\ Retried(ci).exists = ci.exists /\ Retried(ci).leaves = ci.leaves
         /\ Retried(ci).rendered = ci.rendered /\ Retried(ci).gaveUp = ci.gaveUp
         /\ Retried(ci).cur = ci.cur /\ Retried(ci).nodes = ci.nodes /\ Retried(ci).sig = ci.sig
<1>1. ci.attempts + 1 \in Nat
  BY CardFields
<1>2. Retried(ci) \in CardInfo
  BY <1>1, Zenon DEF Retried, CardInfo
<1>3. /\ Retried(ci).exists = ci.exists /\ Retried(ci).leaves = ci.leaves
      /\ Retried(ci).cur = ci.cur /\ Retried(ci).nodes = ci.nodes /\ Retried(ci).sig = ci.sig
  BY DEF Retried, CardInfo
<1>4. Retried(ci).rendered = ci.rendered /\ Retried(ci).gaveUp = ci.gaveUp
  BY DEF Retried, CardInfo
<1> QED BY <1>2, <1>3, <1>4

LEMMA RequeuedFact ==
  ASSUME NEW ci \in CardInfo
  PROVE  /\ Requeued(ci) \in CardInfo
         /\ Requeued(ci).exists = ci.exists /\ Requeued(ci).leaves = ci.leaves
<1> DEFINE ri == Retried(ci)
<1>1. ri \in CardInfo /\ ri.exists = ci.exists /\ ri.leaves = ci.leaves
  BY RetriedFact
<1>2. <<>> \in Seq(Int) /\ 1 \in Nat \ {0}
  BY EmptySeq
<1>3. Requeued(ci) = [ri EXCEPT !.nodes = <<>>, !.cur = 1]
  BY DEF Requeued
<1> HIDE DEF ri
<1>4. [ri EXCEPT !.nodes = <<>>, !.cur = 1] \in CardInfo
  BY <1>1, <1>2, Zenon DEF CardInfo
<1>5. /\ [ri EXCEPT !.nodes = <<>>, !.cur = 1].exists = ri.exists
      /\ [ri EXCEPT !.nodes = <<>>, !.cur = 1].leaves = ri.leaves
  BY <1>1 DEF CardInfo
<1> QED BY <1>1, <1>3, <1>4, <1>5

LEMMA GivenUpFact ==
  ASSUME NEW ci \in CardInfo
  PROVE  /\ GivenUp(ci) \in CardInfo /\ GivenUp(ci).gaveUp
         /\ GivenUp(ci).exists = ci.exists /\ GivenUp(ci).leaves = ci.leaves
<1>1. GivenUp(ci) \in CardInfo
  BY EmptySeq, Zenon DEF GivenUp, CardInfo
<1>2. GivenUp(ci).exists = ci.exists /\ GivenUp(ci).leaves = ci.leaves
  BY DEF GivenUp, CardInfo
<1>3. GivenUp(ci).gaveUp
  BY DEF GivenUp, CardInfo
<1> QED BY <1>1, <1>2, <1>3

\* The card goes back to the end of the queue.
LEMMA RequeueFact ==
  ASSUME NEW q \in Seq(Entries), NEW cs, NEW b \in Nat, QueueOK(cs, q, b),
         NEW c \in Card, cs[c].exists, cs[c].leaves # <<>>,
         \A i \in DOMAIN q : q[i].card # c, NEW r, r = Append(q, Entry(c, b))
  PROVE  /\ r \in Seq(Entries) /\ QueueOK(cs, r, b)
         /\ \A d : Holds(q, d) => Holds(r, d)
         /\ Holds(r, c)
<1>1. /\ r \in Seq(Entries) /\ Len(r) = Len(q) + 1
      /\ \A i \in 1 .. Len(q) : r[i] = q[i]
      /\ r[Len(q) + 1] = Entry(c, b)
  <2>1. PICK e \in Entries : e = Entry(c, b)
    BY EntryFact
  <2>2. /\ Append(q, e) \in Seq(Entries) /\ Len(Append(q, e)) = Len(q) + 1
        /\ \A i \in 1 .. Len(q) : Append(q, e)[i] = q[i]
        /\ Append(q, e)[Len(q) + 1] = e
    BY AppendProperties
  <2> QED BY <2>1, <2>2
<1>2. /\ Len(q) \in Nat /\ DOMAIN q = 1 .. Len(q) /\ DOMAIN r = 1 .. Len(q) + 1
      /\ \A i \in DOMAIN r \ DOMAIN q : i = Len(q) + 1
  BY <1>1, QueueFact
<1>3. r[Len(q) + 1].card = c /\ r[Len(q) + 1].build = b
  BY <1>1, EntryFact
<1>4. QueueOK(cs, r, b)
  <2> SUFFICES ASSUME NEW i \in DOMAIN r
               PROVE /\ r[i].build = b /\ cs[r[i].card].exists /\ cs[r[i].card].leaves # <<>>
                     /\ \A j \in DOMAIN r : r[j].card = r[i].card => j = i
    BY DEF QueueOK
  <2>1. CASE i \in DOMAIN q
    BY <1>1, <1>2, <1>3, <2>1 DEF QueueOK
  <2>2. CASE i \notin DOMAIN q
    BY <1>1, <1>2, <1>3, <2>2
  <2> QED BY <2>1, <2>2
<1>5. \A i \in DOMAIN q : i \in DOMAIN r /\ r[i] = q[i]
  BY <1>1, <1>2
<1>6. Len(q) + 1 \in DOMAIN r
  BY <1>2
<1> QED BY <1>1, <1>3, <1>4, <1>5, <1>6 DEF Holds

\* A card leaves the head of the queue, or starts again at its end, as ri.
LEMMA LeaveFact ==
  ASSUME TypeOK, QueueInv, HeadInv, NoneIsStranded, queue # <<>>,
         NEW ri \in CardInfo, ri.exists, ri.leaves # <<>>,
         NEW q, \/ q = Tail(queue) /\ (ri.rendered \/ ri.gaveUp)
                \/ q = Append(Tail(queue), Entry(Head(queue).card, build)),
         RenderPump([card EXCEPT ![Head(queue).card] = ri], q, {}),
         UNCHANGED <<content, build, near>>, fed' = FALSE
  PROVE  /\ queue' \in Seq(Entries) /\ card' \in [Card -> CardInfo] /\ rendering' \in BOOLEAN
         /\ timers' \subseteq {"pump", "feed", "backstop", "quiet"}
         /\ Scheduled' /\ QueueInv' /\ HeadInv' /\ NoneIsStranded'
<1> DEFINE h == Head(queue).card
           cs == [card EXCEPT ![h] = ri]
<1>1. /\ queue \in Seq(Entries) /\ card \in [Card -> CardInfo] /\ build \in Nat
      /\ near \subseteq Card /\ h \in Card /\ card[h] \in CardInfo
  BY TypeFact, HeadFact
<1>2. /\ cs \in [Card -> CardInfo] /\ cs[h] = ri
      /\ \A c \in Card \ {h} : cs[c] = card[c]
  BY <1>1
<1> HIDE DEF cs
<1>3. /\ Tail(queue) \in Seq(Entries) /\ QueueOK(card, Tail(queue), build)
      /\ \A j \in DOMAIN Tail(queue) : Tail(queue)[j].card # h /\ Tail(queue)[j].card \in Card
      /\ \A i \in DOMAIN queue : queue[i].card # h =>
           \E j \in DOMAIN Tail(queue) : Tail(queue)[j].card = queue[i].card
  <2>1. QueueOK(card, queue, build)
    BY DEF QueueInv
  <2>2. /\ Tail(queue) \in Seq(Entries) /\ QueueOK(card, Tail(queue), build)
        /\ \A j \in DOMAIN Tail(queue) : Tail(queue)[j].card # h
        /\ \A i \in DOMAIN queue : queue[i].card # h =>
             \E j \in DOMAIN Tail(queue) : Tail(queue)[j] = queue[i]
    BY <1>1, <2>1, TailFact
  <2>3. \A j \in DOMAIN Tail(queue) : Tail(queue)[j].card \in Card
    BY <2>2, QueueFact
  <2> QED BY <2>2, <2>3
<1>4. PICK t \in Seq(Entries) : t = Tail(queue)
  BY <1>3
<1>5. QueueOK(cs, t, build)
  BY <1>2, <1>3, <1>4 DEF QueueOK
<1>6. /\ q \in Seq(Entries) /\ QueueOK(cs, q, build)
      /\ \A c : Holds(t, c) => Holds(q, c)
      /\ ri.rendered \/ ri.gaveUp \/ Holds(q, h)
  <2>1. CASE q = t /\ (ri.rendered \/ ri.gaveUp)
    BY <1>5, <2>1
  <2>2. CASE q = Append(t, Entry(h, build))
    <3>1. PICK k \in Card, b \in Nat : k = h /\ b = build
      BY <1>1
    <3>2. /\ QueueOK(cs, t, b) /\ cs[k].exists /\ cs[k].leaves # <<>>
          /\ \A i \in DOMAIN t : t[i].card # k
          /\ q = Append(t, Entry(k, b))
          /\ k \in Card /\ b \in Nat /\ t \in Seq(Entries)
      BY <1>2, <1>3, <1>4, <1>5, <2>2, <3>1
    <3>3. /\ q \in Seq(Entries) /\ QueueOK(cs, q, b)
          /\ \A c : Holds(t, c) => Holds(q, c)
          /\ Holds(q, k)
      BY <3>2, RequeueFact
    <3> QED BY <3>1, <3>3
  <2> QED BY <1>4, <2>1, <2>2
<1>7. /\ card' \in [Card -> CardInfo] /\ SameShape(cs, card')
      /\ queue' = q /\ (rendering' <=> q # <<>>) /\ rendering' \in BOOLEAN
      /\ timers' = IF q = <<>> THEN {} ELSE {} \cup {"pump"}
      /\ \A c \in Card : card'[c].rendered = cs[c].rendered /\ card'[c].gaveUp = cs[c].gaveUp
      /\ HeadInv' /\ QueueOK(card', q, build)
  <2>1. RenderPump(cs, q, {})
    BY DEF cs
  <2> QED BY <1>2, <1>6, <2>1, PumpFact
<1>8. Scheduled' /\ timers' \subseteq {"pump", "feed", "backstop", "quiet"}
  BY <1>7 DEF Scheduled
<1>9. QueueInv'
  BY <1>7 DEF QueueInv
<1>10. NoneIsStranded'
  <2> SUFFICES ASSUME NEW c \in near, card'[c].exists, card'[c].leaves # <<>>,
                      ~card'[c].rendered, ~card'[c].gaveUp
               PROVE  Holds(q, c)
    BY <1>7 DEF NoneIsStranded, InQueue, Holds
  <2>1. c \in Card
    BY <1>1
  <2>2. CASE c = h
    <3>1. ~ri.rendered /\ ~ri.gaveUp
      BY <1>2, <1>7, <2>1, <2>2
    <3> QED BY <1>4, <1>6, <2>2, <3>1
  <2>3. CASE c # h
    <3>1. /\ card[c].exists /\ card[c].leaves # <<>>
          /\ ~card[c].rendered /\ ~card[c].gaveUp
      BY <1>2, <1>7, <2>1, <2>3 DEF SameShape
    <3>2. \E i \in DOMAIN queue : queue[i].card = c
      BY <3>1 DEF NoneIsStranded, InQueue
    <3>3. Holds(t, c)
      BY <1>3, <1>4, <2>3, <3>2 DEF Holds
    <3> QED BY <1>6, <3>3
  <2> QED BY <2>2, <2>3
<1> QED BY <1>6, <1>7, <1>8, <1>9, <1>10

\* A card at the head changes what has been drawn of it, and nothing else.
LEMMA DrawFact ==
  ASSUME TypeOK, QueueInv, HeadInv, NoneIsStranded, queue # <<>>,
         NEW ri \in CardInfo, Begun(ri),
         ri.exists = HeadCard.exists, ri.leaves = HeadCard.leaves,
         ri.rendered = HeadCard.rendered, ri.gaveUp = HeadCard.gaveUp,
         card' = [card EXCEPT ![Head(queue).card] = ri],
         UNCHANGED <<content, build, near, queue>>
  PROVE  card' \in [Card -> CardInfo] /\ QueueInv' /\ HeadInv' /\ NoneIsStranded'
<1> DEFINE h == Head(queue).card
<1>1. /\ queue \in Seq(Entries) /\ card \in [Card -> CardInfo] /\ near \in SUBSET Card
      /\ h \in Card /\ HeadCard = card[h] /\ \A i \in DOMAIN queue : queue[i].card \in Card
  BY TypeFact, HeadFact, QueueFact DEF HeadCard
<1>2. /\ card' \in [Card -> CardInfo] /\ card'[h] = ri
      /\ \A c \in Card \ {h} : card'[c] = card[c]
  BY <1>1
<1> HIDE DEF h
<1>3. \A c \in Card : /\ card'[c].exists = card[c].exists /\ card'[c].leaves = card[c].leaves
                      /\ card'[c].rendered = card[c].rendered
                      /\ card'[c].gaveUp = card[c].gaveUp
  BY <1>1, <1>2
<1>4. QueueInv'
  BY <1>1, <1>3 DEF QueueInv, QueueOK
<1>5. HeadInv'
  <2>1. HeadCard' = ri
    BY <1>2 DEF HeadCard, h
  <2> QED BY <2>1 DEF HeadInv, Begun, Faithful, Past
<1>6. NoneIsStranded'
  BY <1>1, <1>3 DEF NoneIsStranded, InQueue
<1> QED BY <1>2, <1>4, <1>5, <1>6

LEMMA FinishStep ==
  ASSUME IInv, "backstop" \in timers, RenderFinish
  PROVE  IInv'
<1>1. /\ TypeOK /\ Scheduled /\ QueueInv /\ HeadInv /\ PeekInv /\ StoreInv /\ NoneIsStranded
  BY DEF IInv
<1>2. fed /\ queue # <<>> /\ rendering /\ SettleCancel = {}
  BY <1>1, TimerFact
<1>3. /\ UNCHANGED <<content, blob, near, palette, build, last>>
      /\ fed' = FALSE /\ peeked' = NoPeek /\ parsed' = FALSE
  BY DEF RenderFinish, Unfed
<1>4. peeked' \in (Session \cup {None}) \X Int
  BY <1>3 DEF NoPeek, NoTail
<1>5. PeekInv'
  BY <1>3 DEF PeekInv
<1> DEFINE c == Head(queue).card
           ci == card[c]
<1> DEFINE Retries == /\ card' = [card EXCEPT ![c] = Retried(ci)] /\ UNCHANGED events
                      /\ timers' = SettleCancel \cup {"pump"}
                      /\ UNCHANGED <<queue, rendering, store>>
           Goes(n) == /\ n.cur <= Len(ci.leaves) /\ UNCHANGED events
                      /\ card' = [card EXCEPT ![c] = n]
                      /\ timers' = SettleCancel \cup {"pump"}
                      /\ UNCHANGED <<queue, rendering, store>>
           Ends(n, works) == /\ n.cur > Len(ci.leaves)
                             /\ IF works THEN UNCHANGED events ELSE Event
                             /\ RenderCompose(c, n, Tail(queue), works)
<1>6. PICK drawn \in BOOLEAN, works \in BOOLEAN :
        \/ Retries
        \/ Goes(Committed(ci, Drawn(drawn)))
        \/ Ends(Committed(ci, Drawn(drawn)), works)
  <2>1. \/ Retries
        \/ \E drawn \in BOOLEAN :
             \/ Goes(Committed(ci, Drawn(drawn)))
             \/ \E works \in BOOLEAN : Ends(Committed(ci, Drawn(drawn)), works)
    BY <1>2 DEF RenderFinish
  <2> QED BY <2>1
<1>7. /\ c \in Card /\ ci = HeadCard /\ ci \in CardInfo /\ Begun(ci) /\ ci.exists
      /\ ci.leaves # <<>> /\ Leaf = ci.leaves[ci.cur] /\ Leaf \in Session
      /\ card \in [Card -> CardInfo]
  BY <1>1, <1>2, HeadFact, TypeFact
<1> DEFINE node == Drawn(drawn)
           next == Committed(ci, node)
<1>8. /\ next \in CardInfo /\ Faithful(next) /\ next.cur = ci.cur + 1
      /\ next.exists = ci.exists /\ next.leaves = ci.leaves
      /\ next.rendered = ci.rendered /\ next.gaveUp = ci.gaveUp
  <2>1. peeked \in Pane /\ peeked[1] = Leaf /\ Older(peeked[2], content[peeked[1]])
    BY <1>1, <1>2, <1>7 DEF PeekInv, TypeOK, Pane
  <2>2. node \in {Missing, Blank, peeked[2]} /\ node \in Int
    BY <2>1 DEF Drawn, Missing, Blank, Pane
  <2> HIDE DEF ci, node
  <2>3. ci \in CardInfo /\ Begun(ci) /\ peeked[1] = ci.leaves[ci.cur]
    BY <1>7, <2>1
  <2> QED BY <2>1, <2>2, <2>3, CommittedFact DEF next
<1> HIDE DEF next, node, ci
\* The state after a retry or after a pane.
<1>9. ASSUME NEW ri \in CardInfo, Begun(ri), ri.exists = ci.exists, ri.leaves = ci.leaves,
             ri.rendered = ci.rendered, ri.gaveUp = ci.gaveUp,
             card' = [card EXCEPT ![c] = ri], UNCHANGED events,
             timers' = SettleCancel \cup {"pump"}, UNCHANGED <<queue, rendering, store>>
      PROVE  IInv'
  <2>1. card' \in [Card -> CardInfo] /\ QueueInv' /\ HeadInv' /\ NoneIsStranded'
    BY <1>1, <1>2, <1>3, <1>7, <1>9, DrawFact
  <2>2. timers' = {"pump"} /\ UNCHANGED <<queue, rendering, cache, sigs, events>>
    BY <1>2, <1>9 DEF store
  <2>3. TypeOK'
    BY <1>1, <1>3, <1>4, <2>1, <2>2 DEF TypeOK
  <2>4. Scheduled'
    BY <1>1, <1>2, <1>3, <2>2 DEF Scheduled
  <2> QED BY <1>1, <1>3, <1>5, <2>1, <2>2, <2>3, <2>4, SameStore DEF IInv
<1>10. CASE Retries
  <2>1. /\ Retried(ci) \in CardInfo
        /\ Retried(ci).exists = ci.exists /\ Retried(ci).leaves = ci.leaves
        /\ Retried(ci).rendered = ci.rendered /\ Retried(ci).gaveUp = ci.gaveUp
        /\ Retried(ci).cur = ci.cur /\ Retried(ci).nodes = ci.nodes
        /\ Retried(ci).sig = ci.sig
    BY <1>7, RetriedFact
  <2>2. Begun(Retried(ci))
    BY <1>7, <2>1 DEF Begun, Faithful, Past
  <2> QED BY <1>9, <1>10, <2>1, <2>2
<1>11. CASE Goes(next)
  <2>1. Begun(next)
    BY <1>8, <1>11 DEF Begun
  <2> QED BY <1>8, <1>9, <1>11, <2>1
<1>12. CASE Ends(next, works)
  <2>1. next.cur = Len(next.leaves) + 1
    BY <1>7, <1>8, <1>12, CardFields DEF Begun
  <2>2. events' \in Nat
    BY <1>1, <1>12 DEF Event, TypeOK
  <2>3. next.exists /\ next.leaves # <<>>
    BY <1>7, <1>8
  <2>4. CASE works /\ \E i \in DOMAIN next.nodes : next.nodes[i] # Missing
    <3>1. /\ cache' = [cache EXCEPT ![c] = Texture(next)]
          /\ sigs' = IF Len(next.sig) = Len(next.leaves)
                     THEN [sigs EXCEPT ![c] = next.sig] ELSE sigs
          /\ RenderPump([card EXCEPT ![c] = Finished(next)], Tail(queue), {})
      BY <1>2, <1>12, <2>4 DEF RenderCompose
    <3>2. /\ Finished(next) \in CardInfo /\ Finished(next).rendered
          /\ Finished(next).exists /\ Finished(next).leaves # <<>>
      BY <1>8, <2>3, FinishedFact
    <3>3. /\ queue' \in Seq(Entries) /\ card' \in [Card -> CardInfo] /\ rendering' \in BOOLEAN
          /\ timers' \subseteq {"pump", "feed", "backstop", "quiet"}
          /\ Scheduled' /\ QueueInv' /\ HeadInv' /\ NoneIsStranded'
      BY <1>1, <1>2, <1>3, <3>1, <3>2, LeaveFact
    <3>4. /\ Texture(next) \in [panes : SUBSET Pane, palette : Nat, live : BOOLEAN]
          /\ Texture(next).palette = palette /\ Explains(next.sig, Texture(next))
          /\ Len(next.sig) = Len(next.leaves) /\ Past(next.sig) /\ next.sig \in Seq(Pane)
      BY <1>1, <1>8, <2>1, TextureFact, CardFields
    <3>5. sigs' = [sigs EXCEPT ![c] = next.sig]
      BY <3>1, <3>4
    <3>6. TypeOK'
      <4>1. /\ cache \in [Card -> [panes : SUBSET Pane, palette : Nat, live : BOOLEAN] \cup {None}]
            /\ sigs \in [Card -> Seq(Pane)]
        BY <1>1 DEF TypeOK
      <4>2. /\ cache' \in [Card -> [panes : SUBSET Pane, palette : Nat, live : BOOLEAN] \cup {None}]
            /\ sigs' \in [Card -> Seq(Pane)]
        BY <1>7, <3>1, <3>4, <3>5, <4>1
      <4> QED BY <1>1, <1>3, <1>4, <2>2, <3>3, <4>2 DEF TypeOK, Entries
    <3>7. StoreInv'
      <4>1. PICK k \in Card : k = c
        BY <1>7
      <4>2. /\ cache'[k] = Texture(next) /\ sigs'[k] = next.sig
            /\ \A d \in Card \ {k} : cache'[d] = cache[d] /\ sigs'[d] = sigs[d]
        BY <1>1, <1>7, <3>1, <3>5, <4>1 DEF TypeOK
      <4>3. /\ Past(sigs[k])' /\ cache'[k].palette = palette'
            /\ Explains(sigs[k], cache[k])'
        BY <1>3, <3>4, <4>2 DEF Past, Explains
      <4>4. ASSUME NEW d \in Card, d # k
            PROVE  /\ Past(sigs[d])'
                   /\ cache'[d] # None => /\ cache'[d].palette = palette'
                                          /\ sigs'[d] # None => Explains(sigs[d], cache[d])'
        <5>1. /\ Past(sigs[d])
              /\ cache[d] # None => /\ cache[d].palette = palette
                                    /\ sigs[d] # None => Explains(sigs[d], cache[d])
          BY <1>1 DEF StoreInv
        <5>2. cache'[d] = cache[d] /\ sigs'[d] = sigs[d]
          BY <4>2, <4>4
        <5> QED BY <1>3, <5>1, <5>2 DEF Past, Explains
      <4> QED BY <4>3, <4>4 DEF StoreInv
    <3> QED BY <1>5, <3>3, <3>6, <3>7 DEF IInv
  <2>5. CASE ~(works /\ \E i \in DOMAIN next.nodes : next.nodes[i] # Missing)
    <3>1. \/ RenderPump([card EXCEPT ![c] = Requeued(next)],
                        Append(Tail(queue), Entry(c, build)), {})
          \/ RenderPump([card EXCEPT ![c] = GivenUp(next)], Tail(queue), {})
      BY <1>2, <1>12, <2>5 DEF RenderCompose
    <3>2. UNCHANGED <<cache, sigs>>
      BY <1>12, <2>5 DEF RenderCompose, store
    <3>3. /\ queue' \in Seq(Entries) /\ card' \in [Card -> CardInfo] /\ rendering' \in BOOLEAN
          /\ timers' \subseteq {"pump", "feed", "backstop", "quiet"}
          /\ Scheduled' /\ QueueInv' /\ HeadInv' /\ NoneIsStranded'
      <4>1. /\ Requeued(next) \in CardInfo
            /\ Requeued(next).exists /\ Requeued(next).leaves # <<>>
        BY <1>8, <2>3, RequeuedFact
      <4>2. /\ GivenUp(next) \in CardInfo /\ GivenUp(next).gaveUp
            /\ GivenUp(next).exists /\ GivenUp(next).leaves # <<>>
        BY <1>8, <2>3, GivenUpFact
      <4>3. CASE RenderPump([card EXCEPT ![c] = Requeued(next)],
                            Append(Tail(queue), Entry(c, build)), {})
        BY <1>1, <1>2, <1>3, <4>1, <4>3, LeaveFact
      <4>4. CASE RenderPump([card EXCEPT ![c] = GivenUp(next)], Tail(queue), {})
        BY <1>1, <1>2, <1>3, <4>2, <4>4, LeaveFact
      <4> QED BY <3>1, <4>3, <4>4
    <3>4. TypeOK'
      BY <1>1, <1>3, <1>4, <2>2, <3>2, <3>3 DEF TypeOK, Entries
    <3> QED BY <1>1, <1>3, <1>5, <3>2, <3>3, <3>4, SameStore DEF IInv
  <2> QED BY <2>4, <2>5
<1> QED BY <1>6, <1>10, <1>11, <1>12 DEF next, node

-----------------------------------------------------------------------------
(* The world moves on *)

\* What was signed before a session wrote more is still of the past.
LEMMA PastStays ==
  ASSUME NEW sig \in Seq(Pane), Past(sig), content \in [Session -> Int],
         content' \in [Session -> Int],
         \A s \in Session : Older(content[s], content'[s])
  PROVE  \A i \in DOMAIN sig : Older(sig[i][2], content'[sig[i][1]])
<1> SUFFICES ASSUME NEW i \in DOMAIN sig
             PROVE Older(sig[i][2], content'[sig[i][1]])
  OBVIOUS
<1>1. sig[i] \in Pane
  BY SeqFact
<1>2. sig[i][1] \in Session /\ sig[i][2] \in Int
  BY <1>1 DEF Pane
<1>3. Older(sig[i][2], content[sig[i][1]]) /\ Older(content[sig[i][1]], content'[sig[i][1]])
  BY <1>2 DEF Past
<1> QED BY <1>2, <1>3, OlderFact

LEMMA WriteStep == IInv /\ Writes => IInv'
<1> SUFFICES ASSUME IInv, Writes PROVE IInv'
  OBVIOUS
<1>1. /\ TypeOK /\ Scheduled /\ QueueInv /\ HeadInv /\ PeekInv /\ StoreInv /\ NoneIsStranded
      /\ UNCHANGED <<blob, near, palette, build, card, cache, sigs, queue, rendering, timers,
                     fed, peeked, parsed, last>>
      /\ events' \in Nat
  BY DEF IInv, Writes, Event, store, term, TypeOK
<1>2. PICK s \in Session :
        /\ content[s] # NoTail
        /\ content' \in {[content EXCEPT ![s] = @ + 1], [content EXCEPT ![s] = NoTail]}
  BY DEF Writes
<1>3. content \in [Session -> Nat \cup {NoTail}] /\ content[s] \in Nat
  BY <1>1, <1>2 DEF TypeOK
<1>4. /\ content' \in [Session -> Nat \cup {NoTail}]
      /\ \A r \in Session : Older(content[r], content'[r])
  <2>1. content[s] + 1 \in Nat /\ content[s] <= content[s] + 1
    BY <1>3
  <2>2. content' \in [Session -> Nat \cup {NoTail}]
    BY <1>2, <1>3, <2>1
  <2>3. ASSUME NEW r \in Session PROVE Older(content[r], content'[r])
    <3>1. CASE r = s
      BY <1>2, <1>3, <2>1, <3>1 DEF Older, NoTail
    <3>2. CASE r # s
      <4>1. content'[r] = content[r] /\ content[r] \in Int
        BY <1>2, <1>3, <3>2 DEF NoTail
      <4> QED BY <4>1, OlderFact
    <3> QED BY <3>1, <3>2
  <2> QED BY <2>2, <2>3
<1>5. content \in [Session -> Int] /\ content' \in [Session -> Int]
  BY <1>3, <1>4 DEF NoTail
<1>6. TypeOK'
  BY <1>1, <1>4 DEF TypeOK
<1>7. Scheduled' /\ QueueInv'
  BY <1>1 DEF Scheduled, QueueInv, QueueOK
<1>8. HeadInv'
  <2> SUFFICES ASSUME queue # <<>> PROVE Begun(HeadCard)'
    BY <1>1 DEF HeadInv
  <2>1. HeadCard \in CardInfo /\ Begun(HeadCard)
    BY <1>1, HeadFact
  <2>2. PICK ci \in CardInfo : ci = HeadCard
    BY <2>1
  <2>3. HeadCard' = ci
    BY <1>1, <2>2 DEF HeadCard
  <2>4. Past(ci.sig) /\ ci.sig \in Seq(Pane)
    BY <2>1, <2>2, CardFields DEF Begun, Faithful
  <2>5. \A i \in DOMAIN ci.sig : Older(ci.sig[i][2], content'[ci.sig[i][1]])
    BY <1>4, <1>5, <2>4, PastStays
  <2> QED BY <2>1, <2>2, <2>3, <2>5 DEF Begun, Faithful, Past
<1>9. PeekInv'
  <2> SUFFICES ASSUME fed PROVE peeked[1] = Leaf /\ Older(peeked[2], content'[Leaf])
    BY <1>1 DEF PeekInv, Leaf, HeadCard
  <2>1. queue # <<>>
    BY <1>1 DEF Scheduled
  <2>2. Leaf \in Session /\ peeked[2] \in Int
    BY <1>1, <2>1, HeadFact DEF TypeOK
  <2>3. peeked[1] = Leaf /\ Older(peeked[2], content[Leaf])
    BY <1>1 DEF PeekInv
  <2> QED BY <1>4, <1>5, <2>2, <2>3, OlderFact
<1>10. StoreInv'
  <2> SUFFICES ASSUME NEW c \in Card
               PROVE  /\ Past(sigs[c])'
                      /\ cache[c] # None => /\ cache[c].palette = palette
                                            /\ sigs[c] # None => Explains(sigs[c], cache[c])'
    BY <1>1 DEF StoreInv
  <2>1. /\ Past(sigs[c]) /\ sigs[c] \in Seq(Pane)
        /\ cache[c] # None => /\ cache[c].palette = palette
                              /\ sigs[c] # None => Explains(sigs[c], cache[c])
    BY <1>1, TypeFact DEF StoreInv
  <2>2. \A i \in DOMAIN sigs[c] : Older(sigs[c][i][2], content'[sigs[c][i][1]])
    BY <1>4, <1>5, <2>1, PastStays
  <2>3. Past(sigs[c])'
    BY <1>1, <2>2 DEF Past
  <2>4. ASSUME cache[c] # None, sigs[c] # None PROVE Explains(sigs[c], cache[c])'
    <3>1. cache[c].panes \subseteq Pane
      BY <1>1, <2>4 DEF TypeOK
    <3>2. Explains(sigs[c], cache[c])
      BY <2>1, <2>4
    <3>3. ASSUME cache[c].live, NEW p \in cache[c].panes
          PROVE  Older(p[2], content'[p[1]])
      <4>1. p[1] \in Session /\ p[2] \in Int
        BY <3>1, <3>3 DEF Pane
      <4>2. Older(p[2], content[p[1]])
        BY <3>2, <3>3 DEF Explains
      <4> QED BY <1>4, <1>5, <4>1, <4>2, OlderFact
    <3> QED BY <1>1, <3>2, <3>3 DEF Explains
  <2> QED BY <2>1, <2>3, <2>4
<1> QED BY <1>1, <1>6, <1>7, <1>8, <1>9, <1>10, SameCards DEF IInv

LEMMA RearrangeStep == IInv /\ Rearranges => IInv'
<1> SUFFICES ASSUME IInv, Rearranges PROVE IInv'
  OBVIOUS
<1>1. /\ TypeOK /\ Scheduled /\ QueueInv /\ HeadInv /\ PeekInv /\ StoreInv /\ NoneIsStranded
      /\ UNCHANGED <<content, near, palette, build, card, cache, sigs, queue, rendering, timers,
                     fed, peeked, parsed, last>>
      /\ events' \in Nat
  BY DEF IInv, Rearranges, Event, store, term, TypeOK
<1>2. PICK c \in Card :
        \E b \in (Blobs[c] \cup {Gone}) \ {blob[c]} : blob' = [blob EXCEPT ![c] = b]
  BY DEF Rearranges
<1>3. PICK b \in Blobs[c] \cup {Gone} : blob' = [blob EXCEPT ![c] = b]
  BY <1>2
<1>4. b \in Seq(Session) \cup {Gone}
  BY <1>2, <1>3, ThumbsConstants
<1>5. TypeOK'
  BY <1>1, <1>2, <1>3, <1>4 DEF TypeOK
<1>6. Scheduled' /\ PeekInv'
  BY <1>1, SameQueue DEF Scheduled, PeekInv
<1> QED BY <1>1, <1>5, <1>6, SameQueue, SameStore, SameCards DEF IInv

-----------------------------------------------------------------------------
(* The grid is opened, closed, scrolled, rebuilt and recoloured *)

\* A table of textures, each in the present colours and explained.
Textures == [panes : SUBSET Pane, palette : Nat, live : BOOLEAN]
TableOK(table) ==
  /\ table \in [Card -> Textures \cup {None}]
  /\ \A c \in Card : table[c] # None =>
       /\ table[c].palette = palette
       /\ sigs[c] # None => Explains(sigs[c], table[c])

LEMMA CacheFact == IInv => TableOK(cache) /\ \A c \in Card : Past(sigs[c])
  BY DEF IInv, TypeOK, StoreInv, TableOK, Textures

\* A live capture shows no less than what was signed before it.
LEMMA LiveFact ==
  ASSUME IInv, NEW c \in Card, NEW panes \in Blobs[c]
  PROVE  TableOK([cache EXCEPT ![c] = Live(panes)])
<1> DEFINE shown == {<<s, content[s]>> : s \in Range(panes)}
           table == [cache EXCEPT ![c] = Live(panes)]
<1>1. TypeOK /\ TableOK(cache) /\ Past(sigs[c]) /\ palette \in Nat
  BY CacheFact DEF IInv, TypeOK
<1>2. panes \in Seq(Session)
  BY ThumbsConstants
<1>3. Range(panes) \subseteq Session
  BY <1>2, SeqFact DEF Range
<1>4. content \in [Session -> Int] /\ sigs[c] \in Seq(Pane)
  BY <1>1, TypeFact
<1>5. shown \subseteq Pane
  BY <1>3, <1>4 DEF Pane
<1>6. Live(panes).panes = shown /\ Live(panes).palette = palette /\ Live(panes).live = TRUE
  BY DEF Live
<1>7. Live(panes) \in Textures
  BY <1>1, <1>5 DEF Live, Textures
<1>8. ASSUME NEW p \in shown
      PROVE  /\ Older(p[2], content[p[1]])
             /\ \A i \in DOMAIN sigs[c] : sigs[c][i][1] = p[1] => Older(sigs[c][i][2], p[2])
  <2>1. PICK s \in Session : p = <<s, content[s]>>
    BY <1>3
  <2>2. p[1] = s /\ p[2] = content[s] /\ content[s] \in Int
    BY <1>4, <2>1
  <2> QED BY <1>1, <2>2, OlderFact DEF Past
<1> HIDE DEF shown
<1>9. Explains(sigs[c], Live(panes))
  BY <1>6, <1>8 DEF Explains
<1>10. table \in [Card -> Textures \cup {None}]
  BY <1>1, <1>7 DEF TableOK
<1>11. table[c] = Live(panes) /\ \A d \in Card \ {c} : table[d] = cache[d]
  BY <1>1 DEF TableOK
<1> HIDE DEF table
<1>12. TableOK(table)
  BY <1>1, <1>6, <1>9, <1>10, <1>11 DEF TableOK
<1> QED BY <1>12 DEF table

LEMMA CloseStep == IInv /\ Close => IInv'
<1> SUFFICES ASSUME IInv, Close PROVE IInv'
  OBVIOUS
<1>1. /\ TypeOK /\ Scheduled /\ QueueInv /\ HeadInv /\ PeekInv /\ NoneIsStranded
      /\ UNCHANGED <<content, blob, near, palette, build, card, sigs, queue, rendering, timers,
                     fed, peeked, parsed, last>>
      /\ events' \in Nat /\ \A c \in Card : Past(sigs[c])
  BY CacheFact DEF IInv, Close, Event, term, TypeOK
<1>2. PICK c \in Card \ Orphans :
        \E panes \in Blobs[c] : cache' = [cache EXCEPT ![c] = Live(panes)]
  BY DEF Close
<1>3. PICK panes \in Blobs[c] : cache' = [cache EXCEPT ![c] = Live(panes)]
  BY <1>2
<1>4. TableOK([cache EXCEPT ![c] = Live(panes)])
  BY <1>3, LiveFact
<1>5. TableOK(cache')
  BY <1>3, <1>4
<1>6. TypeOK'
  BY <1>1, <1>5 DEF TypeOK, TableOK, Textures
<1>7. StoreInv'
  BY <1>1, <1>5 DEF StoreInv, TableOK, Past, Explains
<1>8. Scheduled' /\ PeekInv'
  BY <1>1, SameQueue DEF Scheduled, PeekInv
<1> QED BY <1>1, <1>6, <1>7, <1>8, SameQueue, SameCards DEF IInv

LEMMA ScrollStep == IInv /\ Scroll => IInv'
<1> SUFFICES ASSUME IInv, Scroll PROVE IInv'
  OBVIOUS
<1>1. /\ TypeOK /\ Scheduled /\ QueueInv /\ HeadInv /\ PeekInv /\ StoreInv
      /\ UNCHANGED <<content, blob, palette, build, events, cache, sigs,
                     fed, peeked, parsed, last>>
  BY DEF IInv, Scroll, store, term
<1>2. PICK visible \in Views :
        /\ near' = visible
        /\ QueueVisibleRenders(card, queue, rendering, timers, build, visible)
  BY DEF Scroll
<1>3. /\ visible \in SUBSET Card /\ queue \in Seq(Entries) /\ card \in [Card -> CardInfo]
      /\ build \in Nat /\ rendering \in BOOLEAN /\ QueueOK(card, queue, build)
  BY <1>1, TypeFact, ThumbsConstants DEF QueueInv
<1>4. rendering => queue # <<>> /\ Begun(card[Head(queue).card])
  BY <1>1 DEF Scheduled, HeadInv, HeadCard
<1>5. /\ card' \in [Card -> CardInfo] /\ SameShape(card, card')
      /\ queue' \in Seq(Entries) /\ QueueOK(card', queue', build)
      /\ \A c \in visible : card'[c].exists /\ card'[c].leaves # <<>> =>
           card'[c].rendered \/ Holds(queue', c)
      /\ HeadInv'
      /\ rendering => /\ queue' # <<>> /\ Head(queue') = Head(queue)
                      /\ card'[Head(queue).card].cur = card[Head(queue).card].cur
                      /\ UNCHANGED <<rendering, timers>>
      /\ ~rendering => /\ (rendering' <=> queue' # <<>>) /\ rendering' \in BOOLEAN
                       /\ timers' = IF queue' = <<>> THEN timers ELSE timers \cup {"pump"}
  BY <1>1, <1>2, <1>3, <1>4, VisibleFact
<1>6. rendering' \in BOOLEAN /\ timers' \subseteq {"pump", "feed", "backstop", "quiet"}
  BY <1>1, <1>5 DEF TypeOK
<1>7. TypeOK'
  BY <1>1, <1>2, <1>3, <1>5, <1>6 DEF TypeOK, Entries
<1>8. Scheduled'
  <2>1. CASE rendering
    BY <1>1, <1>5, <2>1 DEF Scheduled
  <2>2. CASE ~rendering
    BY <1>1, <1>5, <2>2 DEF Scheduled
  <2> QED BY <2>1, <2>2
<1>9. QueueInv' /\ NoneIsStranded'
  BY <1>1, <1>2, <1>5 DEF QueueInv, NoneIsStranded, InQueue, Holds
<1>10. PeekInv'
  <2> SUFFICES ASSUME fed PROVE PeekInv'
    BY <1>1 DEF PeekInv
  <2>1. rendering /\ queue # <<>>
    BY <1>1 DEF Scheduled
  <2>2. Head(queue).card \in Card
    BY <1>1, <2>1, HeadFact
  <2>3. Leaf' = Leaf
    BY <1>5, <2>1, <2>2 DEF Leaf, HeadCard, SameShape
  <2> QED BY <1>1, <2>3 DEF PeekInv
<1> QED BY <1>1, <1>5, <1>7, <1>8, <1>9, <1>10, SameStore DEF IInv

\* After render_abort, the pipeline starts from what the grid then shows.
LEMMA RestartStep ==
  ASSUME TypeOK, NEW cs \in [Card -> CardInfo], build' \in Nat, RenderAbort,
         QueueVisibleRenders(cs, <<>>, FALSE, TimersAfterAbort, build', near),
         UNCHANGED <<content, near>>
  PROVE  /\ card' \in [Card -> CardInfo] /\ queue' \in Seq(Entries)
         /\ {rendering', fed', parsed'} \subseteq BOOLEAN
         /\ timers' \subseteq {"pump", "feed", "backstop", "quiet"}
         /\ peeked' \in (Session \cup {None}) \X Int /\ last' = NoGrid
         /\ Scheduled' /\ QueueInv' /\ HeadInv' /\ PeekInv' /\ NoneIsStranded'
<1>1. /\ <<>> \in Seq(Entries) /\ FALSE \in BOOLEAN /\ near \in SUBSET Card
      /\ QueueOK(cs, <<>>, build')
  BY TypeFact, EmptySeq DEF QueueOK
<1>2. PICK b \in Nat : b = build'
  OBVIOUS
<1>3. PICK q \in Seq(Entries), busy \in BOOLEAN, ts, visible \in SUBSET Card :
        q = <<>> /\ busy = FALSE /\ ts = {} /\ visible = near
  BY <1>1
<1>9. /\ QueueVisibleRenders(cs, q, busy, ts, b, visible) /\ QueueOK(cs, q, b)
      /\ busy => q # <<>> /\ Begun(cs[Head(q).card])
  BY <1>1, <1>2, <1>3 DEF TimersAfterAbort
<1>10. /\ card' \in [Card -> CardInfo]
       /\ queue' \in Seq(Entries) /\ QueueOK(card', queue', b)
       /\ \A c \in visible : card'[c].exists /\ card'[c].leaves # <<>> =>
            card'[c].rendered \/ Holds(queue', c)
       /\ HeadInv'
       /\ ~busy => /\ (rendering' <=> queue' # <<>>) /\ rendering' \in BOOLEAN
                   /\ timers' = IF queue' = <<>> THEN ts ELSE ts \cup {"pump"}
  BY <1>2, <1>3, <1>9, VisibleFact
<1>4. /\ card' \in [Card -> CardInfo]
      /\ queue' \in Seq(Entries) /\ QueueOK(card', queue', b)
      /\ \A c \in near : card'[c].exists /\ card'[c].leaves # <<>> =>
           card'[c].rendered \/ Holds(queue', c)
      /\ HeadInv'
      /\ (rendering' <=> queue' # <<>>) /\ rendering' \in BOOLEAN
      /\ timers' = IF queue' = <<>> THEN {} ELSE {"pump"}
  BY <1>3, <1>10
<1>5. fed' = FALSE /\ parsed' = FALSE /\ peeked' = NoPeek /\ last' = NoGrid
  BY DEF RenderAbort, Unfed
<1>6. Scheduled'
  BY <1>4, <1>5 DEF Scheduled
<1>7. QueueInv' /\ NoneIsStranded'
  BY <1>2, <1>4 DEF QueueInv, NoneIsStranded, InQueue, Holds
<1>8. PeekInv' /\ peeked' \in (Session \cup {None}) \X Int
  BY <1>5 DEF PeekInv, NoPeek, NoTail
<1> QED BY <1>4, <1>5, <1>6, <1>7, <1>8

LEMMA AppearanceStep == IInv /\ AppearanceChanged => IInv'
<1> SUFFICES ASSUME IInv, AppearanceChanged PROVE IInv'
  OBVIOUS
<1> DEFINE cs == [c \in Card |-> IF card[c].leaves = <<>> THEN card[c]
                                 ELSE [card[c] EXCEPT !.rendered = FALSE, !.cur = 1,
                                                      !.nodes = <<>>]]
<1>1. /\ TypeOK /\ UNCHANGED <<content, blob, near, build>> /\ RenderAbort
      /\ events' \in Nat /\ palette' \in Nat /\ build' \in Nat
      /\ cache' = [c \in Card |-> None] /\ sigs' = [c \in Card |-> None]
  <2>1. TypeOK /\ {palette, build, events} \subseteq Nat
    BY DEF IInv, TypeOK
  <2>2. /\ UNCHANGED <<content, blob, near, build>> /\ RenderAbort
        /\ events' = events + 1 /\ palette' = palette + 1
        /\ cache' = [c \in Card |-> None] /\ sigs' = [c \in Card |-> None]
    BY DEF AppearanceChanged, Event
  <2> QED BY <2>1, <2>2
<1>7. QueueVisibleRenders(cs, <<>>, FALSE, TimersAfterAbort, build', near)
  <2>1. QueueVisibleRenders(cs, <<>>, FALSE, TimersAfterAbort, build, near)
    BY Zenon DEF AppearanceChanged
  <2> HIDE DEF cs
  <2> QED BY <1>1, <2>1
<1>2. cs \in [Card -> CardInfo]
  <2>1. card \in [Card -> CardInfo] /\ <<>> \in Seq(Int) /\ 1 \in Nat \ {0}
    <3>1. card \in [Card -> CardInfo]
      BY <1>1, TypeFact
    <3>2. <<>> \in Seq(Int)
      BY EmptySeq
    <3> QED BY <3>1, <3>2
  <2>2. \A ci \in CardInfo :
          [ci EXCEPT !.rendered = FALSE, !.cur = 1, !.nodes = <<>>] \in CardInfo
    BY <2>1, Zenon DEF CardInfo
  <2> QED BY <2>1, <2>2
<1> HIDE DEF cs
<1>3. /\ card' \in [Card -> CardInfo] /\ queue' \in Seq(Entries)
      /\ {rendering', fed', parsed'} \subseteq BOOLEAN
      /\ timers' \subseteq {"pump", "feed", "backstop", "quiet"}
      /\ peeked' \in (Session \cup {None}) \X Int /\ last' = NoGrid
      /\ Scheduled' /\ QueueInv' /\ HeadInv' /\ PeekInv' /\ NoneIsStranded'
  BY <1>1, <1>2, <1>7, RestartStep
<1>4. None \in Seq(Pane) /\ DOMAIN None = {}
  BY EmptySeq DEF None
<1>5. TypeOK'
  BY <1>1, <1>3, <1>4 DEF TypeOK, Entries
<1>6. StoreInv'
  BY <1>1, <1>4 DEF StoreInv, Past
<1> QED BY <1>3, <1>5, <1>6 DEF IInv

\* A card of the new grid has nothing drawn of it.
LEMMA BuiltFact ==
  /\ NoCard \in CardInfo /\ ~NoCard.exists
  /\ \A c \in Card : blob[c] \in Seq(Session) =>
       \A fresh, texture : BuiltCard(c, fresh, texture) \in CardInfo
<1>1. <<>> \in Seq(Session) /\ <<>> \in Seq(Int) /\ <<>> \in Seq(Pane)
      /\ 0 \in Nat /\ 1 \in Nat \ {0}
  BY EmptySeq
<1>2. NoCard \in CardInfo
  BY <1>1, Zenon DEF NoCard, CardInfo
<1>3. ~NoCard.exists
  BY DEF NoCard
<1>4. ASSUME NEW c \in Card, NEW fresh, NEW texture, blob[c] \in Seq(Session)
      PROVE  BuiltCard(c, fresh, texture) \in CardInfo
  <2>1. (texture # None) \in BOOLEAN /\ (c = fresh /\ c \notin Orphans) \in BOOLEAN
    OBVIOUS
  <2> QED BY <1>2, <1>4, <2>1, Zenon DEF BuiltCard, CardInfo
<1> QED BY <1>2, <1>3, <1>4

\* Pruning leaves textures and signatures explained.
LEMMA PrunedFact ==
  ASSUME TypeOK, NEW textures, TableOK(textures), \A c \in Card : Past(sigs[c]),
         UNCHANGED <<content, palette>>,
         \/ cache' = textures /\ sigs' = sigs
         \/ cache' = Pruned(textures) /\ sigs' = Pruned(sigs)
  PROVE  /\ StoreInv' /\ sigs' \in [Card -> Seq(Pane)]
         /\ cache' \in [Card -> Textures \cup {None}]
<1>1. textures \in [Card -> Textures \cup {None}] /\ sigs \in [Card -> Seq(Pane)]
  BY DEF TableOK, TypeOK
<1>2. None \in Seq(Pane) /\ DOMAIN None = {}
  BY EmptySeq DEF None
<1>3. \A c \in Card : \/ cache'[c] = textures[c] /\ sigs'[c] = sigs[c]
                      \/ cache'[c] = None /\ sigs'[c] = None
  BY DEF Pruned
<1>4. /\ sigs' \in [Card -> Seq(Pane)]
      /\ cache' \in [Card -> Textures \cup {None}]
  BY <1>1, <1>2 DEF Pruned
<1>5. ASSUME NEW c \in Card
      PROVE  /\ Past(sigs[c])'
             /\ cache'[c] # None => /\ cache'[c].palette = palette'
                                    /\ sigs'[c] # None => Explains(sigs[c], cache[c])'
  <2>1. CASE cache'[c] = None /\ sigs'[c] = None
    BY <1>2, <2>1 DEF Past
  <2>2. CASE cache'[c] = textures[c] /\ sigs'[c] = sigs[c]
    BY <2>2 DEF Past, Explains, TableOK
  <2> QED BY <1>3, <2>1, <2>2
<1> QED BY <1>4, <1>5 DEF StoreInv

LEMMA ReloadStep ==
  ASSUME IInv, NEW textures, TableOK(textures), NEW fresh, NEW answered \in BOOLEAN,
         Reload(textures, fresh, answered)
  PROVE  IInv'
<1> DEFINE built == [c \in Card |->
                       IF blob[c] = Gone THEN NoCard
                       ELSE BuiltCard(c, fresh, textures[c])]
<1>1. /\ TypeOK /\ build' \in Nat /\ RenderAbort /\ \A c \in Card : Past(sigs[c])
      /\ UNCHANGED <<content, blob, near, palette, events>>
  BY CacheFact DEF IInv, Reload, TypeOK
<1>2. /\ StoreInv' /\ sigs' \in [Card -> Seq(Pane)]
      /\ cache' \in [Card -> Textures \cup {None}]
  <2>1. \/ cache' = textures /\ sigs' = sigs
        \/ cache' = Pruned(textures) /\ sigs' = Pruned(sigs)
    BY DEF Reload
  <2> QED BY <1>1, <2>1, PrunedFact
<1>3. /\ card' \in [Card -> CardInfo] /\ queue' \in Seq(Entries)
      /\ {rendering', fed', parsed'} \subseteq BOOLEAN
      /\ timers' \subseteq {"pump", "feed", "backstop", "quiet"}
      /\ peeked' \in (Session \cup {None}) \X Int /\ last' = NoGrid
      /\ Scheduled' /\ QueueInv' /\ HeadInv' /\ PeekInv' /\ NoneIsStranded'
  <2>1. CASE answered
    <3>1. \A c \in Card : blob[c] # Gone => blob[c] \in Seq(Session)
      BY <1>1 DEF TypeOK
    <3>2. built \in [Card -> CardInfo]
      BY <3>1, BuiltFact, Zenon
    <3>3. QueueVisibleRenders(built, <<>>, FALSE, TimersAfterAbort, build', near)
      BY <2>1 DEF Reload
    <3> HIDE DEF built
    <3> QED BY <1>1, <3>2, <3>3, RestartStep
  <2>2. CASE ~answered
    <3>1. /\ queue' = <<>> /\ rendering' = FALSE /\ timers' = {}
          /\ card' = [c \in Card |-> NoCard]
      BY <2>2 DEF Reload, TimersAfterAbort
    <3>2. fed' = FALSE /\ parsed' = FALSE /\ peeked' = NoPeek /\ last' = NoGrid
      BY <1>1 DEF RenderAbort, Unfed
    <3>3. <<>> \in Seq(Entries)
      BY EmptySeq
    <3>4. card' \in [Card -> CardInfo] /\ \A c \in Card : ~card'[c].exists
      BY <3>1, BuiltFact
    <3>5. Scheduled' /\ HeadInv' /\ PeekInv'
      BY <3>1, <3>2 DEF Scheduled, HeadInv, PeekInv
    <3>6. QueueInv'
      BY <3>1, <3>3, EmptySeq DEF QueueInv, QueueOK
    <3>7. NoneIsStranded'
      BY <1>1, <3>4 DEF NoneIsStranded, TypeOK
    <3>8. peeked' \in (Session \cup {None}) \X Int
      BY <3>2 DEF NoPeek, NoTail
    <3> QED BY <3>1, <3>2, <3>3, <3>4, <3>5, <3>6, <3>7, <3>8
  <2> QED BY <2>1, <2>2
<1>4. TypeOK'
  BY <1>1, <1>2, <1>3 DEF TypeOK, Entries, Textures
<1> QED BY <1>2, <1>3, <1>4 DEF IInv

LEMMA GridStep == IInv /\ (Rebuild \/ Open) => IInv'
<1> SUFFICES ASSUME IInv, Rebuild \/ Open PROVE IInv'
  OBVIOUS
<1>1. TableOK(cache)
  BY CacheFact
<1>2. ASSUME NEW answered \in BOOLEAN, Reload(cache, None, answered)
      PROVE  IInv'
  BY <1>1, <1>2, ReloadStep
<1>3. ASSUME NEW c \in Card \ Orphans, NEW answered \in BOOLEAN, NEW panes \in Blobs[c],
             Reload([cache EXCEPT ![c] = Live(panes)], c, answered)
      PROVE  IInv'
  <2>1. PICK textures : textures = [cache EXCEPT ![c] = Live(panes)]
    OBVIOUS
  <2>2. TableOK(textures)
    BY <2>1, LiveFact
  <2>3. Reload(textures, c, answered)
    BY <1>3, <2>1
  <2> QED BY <2>2, <2>3, ReloadStep
<1>4. CASE Rebuild
  BY <1>2, <1>4 DEF Rebuild
<1>5. CASE Open
  BY <1>2, <1>3, <1>5, Zenon DEF Open
<1> QED BY <1>4, <1>5

-----------------------------------------------------------------------------
(* The theorems *)

LEMMA InitInv == Init => IInv
<1> SUFFICES ASSUME Init PROVE IInv
  OBVIOUS
<1>1. /\ content = [s \in Session |-> 0] /\ blob \in [Card -> UNION {Blobs[c] : c \in Card}]
      /\ \A c \in Card : blob[c] \in Blobs[c]
      /\ near \in Views /\ palette = 0 /\ build = 0 /\ events = 0
      /\ card = [c \in Card |-> NoCard]
      /\ cache = [c \in Card |-> None] /\ sigs = [c \in Card |-> None]
      /\ queue = <<>> /\ rendering = FALSE /\ timers = {}
      /\ fed = FALSE /\ peeked = NoPeek /\ parsed = FALSE /\ last = NoGrid
  BY DEF Init
<1>2. <<>> \in Seq(Pane) /\ <<>> \in Seq([card : Card, build : Nat])
  BY EmptySeq
<1>3. DOMAIN <<>> = {} /\ None = <<>>
  BY EmptySeq DEF None
<1>4. card \in [Card -> CardInfo] /\ \A c \in Card : ~card[c].exists
  BY <1>1, BuiltFact
<1>5. blob \in [Card -> Seq(Session) \cup {Gone}]
  BY <1>1, ThumbsConstants
<1>6. near \subseteq Card
  BY <1>1, ThumbsConstants
<1>7. peeked \in (Session \cup {None}) \X Int
  BY <1>1 DEF NoPeek, NoTail
<1>8. content \in [Session -> Nat \cup {NoTail}]
  <2>1. content = [s \in Session |-> 0]
    BY <1>1
  <2>2. 0 \in Nat
    OBVIOUS
  <2> QED BY <2>1, <2>2, Zenon
<1>9. TypeOK
  <2>1. queue \in Seq([card : Card, build : Nat])
    BY <1>1, <1>2, Zenon
  <2>3. {palette, build, events} \subseteq Nat
    BY DEF Init
  <2>5. {rendering, fed, parsed} \subseteq BOOLEAN
    BY <1>1, Zenon
  <2>4. /\ timers \subseteq {"pump", "feed", "backstop", "quiet"}
        /\ last \in Range(GridOf) \cup {NoGrid}
    BY DEF Init
  <2>2. /\ cache \in [Card -> Textures \cup {None}]
        /\ sigs \in [Card -> Seq(Pane)] /\ \A c \in Card : blob[c] \in Blobs[c] \cup {Gone}
    BY <1>1, <1>2, <1>3
  <2> QED BY <1>4, <1>5, <1>6, <1>7, <1>8, <2>1, <2>2, <2>3, <2>4, <2>5 DEF TypeOK, Textures
<1>10. Scheduled /\ QueueInv /\ HeadInv /\ PeekInv
  BY <1>1, <1>3 DEF Scheduled, QueueInv, QueueOK, HeadInv, PeekInv
<1>11. StoreInv /\ NoneIsStranded
  BY <1>1, <1>3, <1>4, <1>6 DEF StoreInv, Past, NoneIsStranded
<1> QED BY <1>9, <1>10, <1>11 DEF IInv

LEMMA NextInv == IInv /\ [Next]_vars => IInv'
<1> SUFFICES ASSUME IInv, [Next]_vars PROVE IInv'
  OBVIOUS
<1>1. CASE RenderStart
  BY <1>1, StartStep
<1>2. CASE RenderFeed
  BY <1>2, FeedTimeoutStep
<1>3. CASE SettleBackstop
  BY <1>3, FinishStep DEF SettleBackstop
<1>4. CASE SettleQuiet
  <2>1. "backstop" \in timers
    BY <1>4, TimerFact DEF SettleQuiet, IInv
  <2> QED BY <1>4, <2>1, FinishStep DEF SettleQuiet
<1>5. CASE VteParses \/ VteResets \/ SettleQuietDeclined
  BY <1>5, QuietStep
<1>6. CASE Rebuild \/ Open
  BY <1>6, GridStep
<1>7. CASE Close
  BY <1>7, CloseStep
<1>8. CASE Scroll
  BY <1>8, ScrollStep
<1>9. CASE AppearanceChanged
  BY <1>9, AppearanceStep
<1>10. CASE Writes
  BY <1>10, WriteStep
<1>11. CASE Rearranges
  BY <1>11, RearrangeStep
<1>12. CASE UNCHANGED vars
  <2>1. UNCHANGED <<content, blob, near, palette, build, events, card, cache, sigs, queue,
                    rendering, timers, fed, peeked, parsed, last>>
    BY <1>12 DEF vars, world, store, term
  <2>2. /\ TypeOK /\ Scheduled /\ QueueInv /\ HeadInv /\ PeekInv /\ StoreInv /\ NoneIsStranded
    BY DEF IInv
  <2>3. TypeOK'
    BY <2>1, <2>2 DEF TypeOK
  <2>4. Scheduled' /\ PeekInv'
    BY <2>1, <2>2, SameQueue DEF Scheduled, PeekInv
  <2> QED BY <2>1, <2>2, <2>3, <2>4, SameQueue, SameStore, SameCards DEF IInv
<1> QED BY <1>1, <1>2, <1>3, <1>4, <1>5, <1>6, <1>7, <1>8, <1>9, <1>10, <1>11, <1>12
        DEF Next, Timeout

\* In every reachable state the inductive invariant of render_pump, render_start,
\* render_feed, render_finish, render_compose and of all that interrupts them holds.
THEOREM Invariance == Spec => []IInv
<1>1. Init => IInv
  BY InitInv
<1>2. IInv /\ [Next]_vars => IInv'
  BY NextInv
<1> QED BY <1>1, <1>2, PTL DEF Spec

\* However reloads, scrolling, recolouring and the signals of the terminal
\* interleave with render_pump and its timeouts, exactly one step is armed while
\* the pipeline is busy and none while it is idle, what is queued are cards of the
\* present grid, each once, and no card near the viewport is left on its placeholder.
THEOREM PipelineCorrect == Spec => []PipelineIsWhole
<1>1. IInv => PipelineIsWhole
  <2> SUFFICES ASSUME IInv PROVE OneStepScheduled
    BY DEF IInv, PipelineIsWhole
  <2>1. TypeOK /\ Scheduled /\ QueueInv /\ HeadInv
    BY DEF IInv
  <2>2. queue # <<>> => HasLeaf
    BY <2>1, HeadFact
  <2>3. ASSUME NEW i \in DOMAIN queue
        PROVE  /\ queue[i].build = build /\ card[queue[i].card].exists
               /\ \A j \in 1 .. (i - 1) : queue[j] # queue[i]
    <3>1. DOMAIN queue = 1 .. Len(queue) /\ Len(queue) \in Nat
      BY <2>1, TypeFact, QueueFact
    <3>2. /\ queue[i].build = build /\ card[queue[i].card].exists
          /\ \A j \in DOMAIN queue : queue[j].card = queue[i].card => j = i
      BY <2>1, <2>3 DEF QueueInv, QueueOK
    <3>3. ASSUME NEW j \in 1 .. (i - 1), queue[j] = queue[i] PROVE FALSE
      <4>1. j \in DOMAIN queue /\ j # i
        BY <2>3, <3>1, <3>3
      <4>2. queue[j].card = queue[i].card
        BY <3>3
      <4> QED BY <3>2, <4>1, <4>2
    <3> QED BY <3>2, <3>3
  <2> QED BY <2>1, <2>2, <2>3 DEF OneStepScheduled, Scheduled
<1> QED BY <1>1, Invariance, PTL

\* A card that queue_visible_renders skips because its cached signature is the
\* present one does have a texture in the present colours, of just its panes, each
\* drawn with all that its session has written: although render_finish signs what
\* render_feed peeked, and captures overwrite the texture and not the signature.
THEOREM SkipsCorrect == Spec => []SkipIsCurrent
<1>1. IInv => SkipIsCurrent
  <2> SUFFICES ASSUME IInv, NEW c \in Card, card[c].exists, cache[c] # None,
                      sigs[c] # None, CurrentSig(card[c].leaves) = sigs[c]
               PROVE  /\ cache[c].palette = palette
                      /\ \A p \in cache[c].panes :
                           p[1] \in Range(card[c].leaves) =>
                             p[2] \in {Missing, Blank, content[p[1]]}
                      /\ ~cache[c].live =>
                           {p[1] : p \in cache[c].panes} = Range(card[c].leaves)
    BY DEF SkipIsCurrent
  <2> DEFINE leaves == card[c].leaves
             tex == cache[c]
             sig == sigs[c]
  <2>1. TypeOK /\ tex.palette = palette /\ Explains(sig, tex)
    BY DEF IInv, StoreInv
  <2>2. /\ DOMAIN sig = DOMAIN leaves
        /\ \A i \in DOMAIN sig : sig[i][1] = leaves[i] /\ sig[i][2] = content[leaves[i]]
    BY DEF CurrentSig, PaneSig
  <2>3. tex.panes \subseteq Pane /\ content \in [Session -> Int] /\ tex.live \in BOOLEAN
    BY <2>1, TypeFact DEF TypeOK
  <2> HIDE DEF leaves, tex, sig
  <2>4. CASE tex.live
    <3>1. ASSUME NEW p \in tex.panes, p[1] \in Range(leaves)
          PROVE  p[2] = content[p[1]]
      <4>1. PICK i \in DOMAIN leaves : leaves[i] = p[1]
        BY <3>1 DEF Range
      <4>2. p[1] \in Session /\ p[2] \in Int /\ content[p[1]] \in Int
        BY <2>3, <3>1 DEF Pane
      <4>3. Older(p[2], content[p[1]])
        BY <2>1, <2>4, <3>1 DEF Explains
      <4>4. Older(content[p[1]], p[2])
        BY <2>1, <2>2, <2>4, <3>1, <4>1 DEF Explains
      <4> QED BY <4>2, <4>3, <4>4, OlderFact
    <3> QED BY <2>1, <2>4, <3>1 DEF leaves, tex
  <2>5. CASE ~tex.live
    <3>1. \A p \in tex.panes : \E i \in DOMAIN leaves :
            p[1] = leaves[i] /\ p[2] \in {Missing, Blank, content[leaves[i]]}
      BY <2>1, <2>2, <2>5 DEF Explains
    <3>2. \A i \in DOMAIN leaves : \E p \in tex.panes : p[1] = leaves[i]
      BY <2>1, <2>2, <2>5 DEF Explains
    <3>3. \A p \in tex.panes : p[2] \in {Missing, Blank, content[p[1]]}
      BY <3>1
    <3>4. {p[1] : p \in tex.panes} = Range(leaves)
      BY <3>1, <3>2 DEF Range
    <3> QED BY <2>1, <3>3, <3>4 DEF leaves, tex
  <2> QED BY <2>4, <2>5
<1> QED BY <1>1, Invariance, PTL

=============================================================================
