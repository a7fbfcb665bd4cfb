------------------------------ MODULE TabsProofs ------------------------------
(***************************************************************************)
(* The split trees stay whole and what the pages show stays current, for   *)
(* any panes, pages, windows and sequence of splits, exits, moves between  *)
(* tabs and windows, zooms and settings.                                   *)
(***************************************************************************)
EXTENDS Tabs, FiniteSetTheorems, SequenceTheorems, TLAPS

-----------------------------------------------------------------------------
(* Paths *)

\* The paths a and b part at the i-th paned.
Parts(a, b, i) ==
  /\ i \in 1..Len(a) /\ i \in 1..Len(b)
  /\ \A j \in 1 .. i - 1 : a[j] = b[j]
  /\ a[i] # b[i]

Fork(a, b) == \E i \in 1..Len(a) : Parts(a, b, i)

\* A path is a function to 0 and 1 on an initial segment of the naturals.
LEMMA PathType ==
  ASSUME NEW a \in Path
  PROVE  /\ Len(a) \in Nat /\ DOMAIN a = 1..Len(a)
         /\ \A i \in 1..Len(a) : a[i] \in {0, 1}
  BY LenProperties, ElementOfSeq DEF Path

\* The start of a path is a path.
LEMMA StartOf ==
  ASSUME NEW a \in Path, NEW k \in 0 .. Len(a)
  PROVE  /\ SubSeq(a, 1, k) \in Path
         /\ Len(SubSeq(a, 1, k)) = k
         /\ \A j \in 1..k : SubSeq(a, 1, k)[j] = a[j]
  <1>1. Len(a) \in Nat /\ k \in Int /\ \A i \in 1..k : a[i] \in {0, 1}  BY PathType
  <1>2. SubSeq(a, 1, k) \in Seq({0, 1})
        /\ Len(SubSeq(a, 1, k)) = (IF 1 <= k THEN k - 1 + 1 ELSE 0)
        /\ \A i \in 1 .. k - 1 + 1 : SubSeq(a, 1, k)[i] = a[1 + i - 1]
    BY <1>1, SubSeqProperties
  <1>3. \A i \in 1..k : i \in 1 .. k - 1 + 1 /\ 1 + i - 1 = i  BY <1>1
  <1>4. k - 1 + 1 = k /\ (~(1 <= k) => k = 0)  BY <1>1
  <1>5. QED  BY <1>2, <1>3, <1>4 DEF Path

\* A prefix agrees with the path as far as it goes.
LEMMA PrefixOf ==
  ASSUME NEW a \in Path, NEW b \in Path
  PROVE  IsPrefix(a, b) <=> (Len(a) <= Len(b) /\ \A j \in 1..Len(a) : a[j] = b[j])
  <1>1. Len(a) \in Nat /\ Len(b) \in Nat  BY PathType
  <1>2. CASE ~(Len(a) <= Len(b))  BY <1>2 DEF IsPrefix
  <1>3. CASE Len(a) <= Len(b)
    <2>1. Len(a) \in 0 .. Len(a) /\ Len(a) \in 0 .. Len(b)  BY <1>1, <1>3
    <2> DEFINE x == SubSeq(a, 1, Len(a))
               y == SubSeq(b, 1, Len(a))
    <2>2. x \in Path /\ Len(x) = Len(a) /\ \A j \in 1..Len(a) : x[j] = a[j]  BY <2>1, StartOf
    <2>3. y \in Path /\ Len(y) = Len(a) /\ \A j \in 1..Len(a) : y[j] = b[j]  BY <2>1, StartOf
    <2> HIDE DEF x, y
    <2>4. (\A j \in 1..Len(a) : a[j] = b[j]) => x = y
      <3> SUFFICES ASSUME \A j \in 1..Len(a) : a[j] = b[j] PROVE x = y  OBVIOUS
      <3>1. \A j \in 1..Len(x) : x[j] = y[j]  BY <2>2, <2>3
      <3>2. x \in Seq({0, 1}) /\ y \in Seq({0, 1}) /\ Len(x) = Len(y)  BY <2>2, <2>3 DEF Path
      <3>3. QED  BY <3>1, <3>2, SeqEqual
    <2>5. x = y => \A j \in 1..Len(a) : a[j] = b[j]  BY <2>2, <2>3
    <2>6. IsPrefix(a, b) <=> x = y  BY <1>3 DEF IsPrefix, x, y
    <2>7. QED  BY <1>3, <2>4, <2>5, <2>6
  <1>4. QED  BY <1>2, <1>3

\* The sibling of a node differs from it in the last step only.
LEMMA SiblingOf ==
  ASSUME NEW n \in Path, n # <<>>
  PROVE  /\ Len(n) \in Nat \ {0}
         /\ Sibling(n) \in Path /\ Len(Sibling(n)) = Len(n)
         /\ \A j \in 1 .. Len(n) - 1 : Sibling(n)[j] = n[j]
         /\ Sibling(n)[Len(n)] = 1 - n[Len(n)]
  <1>1. Len(n) \in Nat \ {0}  BY EmptySeq DEF Path
  <1>2. Len(n) - 1 \in 0 .. Len(n)  BY <1>1
  <1> DEFINE f == SubSeq(n, 1, Len(n) - 1)
             e == 1 - n[Len(n)]
  <1>3. f \in Path /\ Len(f) = Len(n) - 1 /\ \A j \in 1 .. Len(n) - 1 : f[j] = n[j]
    BY <1>2, StartOf
  <1>4. Len(n) \in 1..Len(n)  BY <1>1
  <1>4a. n[Len(n)] \in {0, 1}  BY <1>4, PathType
  <1>4b. e \in {0, 1}  BY <1>4a
  <1> HIDE DEF f, e
  <1>5. /\ Append(f, e) \in Seq({0, 1}) /\ Len(Append(f, e)) = Len(f) + 1
        /\ \A i \in 1..Len(f) : Append(f, e)[i] = f[i]
        /\ Append(f, e)[Len(f) + 1] = e
    BY <1>3, <1>4b, AppendProperties DEF Path
  <1>6. Sibling(n) = Append(f, e)  BY DEF Sibling, Front, Last, f, e
  <1>7. Len(f) + 1 = Len(n)  BY <1>1, <1>3
  <1>8. QED  BY <1>1, <1>3, <1>5, <1>6, <1>7 DEF Path, e

\* What lies below the sibling of a node parts from that node last.
LEMMA BelowSibling ==
  ASSUME NEW n \in Path, n # <<>>, NEW b \in Path
  PROVE  IsPrefix(Sibling(n), b) <=> Parts(n, b, Len(n))
  <1> DEFINE s == Sibling(n)
             k == Len(n)
  <1>1. k \in Nat \ {0} /\ s \in Path /\ Len(s) = k
        /\ (\A j \in 1 .. k - 1 : s[j] = n[j]) /\ s[k] = 1 - n[k]
    BY SiblingOf
  <1>2. IsPrefix(s, b) <=> (Len(s) <= Len(b) /\ \A j \in 1..Len(s) : s[j] = b[j])  BY <1>1, PrefixOf
  <1>3. Len(b) \in Nat /\ (\A j \in 1..Len(b) : b[j] \in {0, 1})
        /\ \A j \in 1..k : n[j] \in {0, 1}
    BY PathType
  <1> HIDE DEF s, k
  <1>4. ASSUME k <= Len(b) PROVE (\A j \in 1..k : s[j] = b[j])
                              <=> ((\A j \in 1 .. k - 1 : n[j] = b[j]) /\ n[k] # b[k])
    <2>1. \A j \in 1..k : j \in 1 .. k - 1 \/ j = k  BY <1>1
    <2>2. \A j \in 1 .. k - 1 : j \in 1..k  BY <1>1
    <2>3. k \in 1..k /\ k \in 1..Len(b)  BY <1>1, <1>3, <1>4
    <2>4. n[k] \in {0, 1} /\ b[k] \in {0, 1}  BY <1>3, <2>3
    <2>5. s[k] = b[k] <=> n[k] # b[k]  BY <1>1, <2>4
    <2>6. QED  BY <1>1, <2>1, <2>2, <2>3, <2>5
  <1>5. Parts(n, b, k) <=> /\ k <= Len(b)
                           /\ (\A j \in 1 .. k - 1 : n[j] = b[j]) /\ n[k] # b[k]
    BY <1>1, <1>3 DEF Parts, k
  <1>6. QED  BY <1>1, <1>2, <1>4, <1>5 DEF s, k

\* The same for the node above a leaf at any level.
LEMMA BelowSiblings ==
  ASSUME NEW a \in Path, NEW b \in Path, NEW i \in 1..Len(a)
  PROVE  /\ SubSeq(a, 1, i) \in Path /\ SubSeq(a, 1, i) # <<>>
         /\ Sibling(SubSeq(a, 1, i)) \in Path
         /\ IsPrefix(Sibling(SubSeq(a, 1, i)), b) <=> Parts(a, b, i)
  <1>1. Len(a) \in Nat /\ i \in 0 .. Len(a) /\ i \in Nat \ {0}  BY PathType
  <1> DEFINE n == SubSeq(a, 1, i)
  <1>2. n \in Path /\ Len(n) = i /\ \A j \in 1..i : n[j] = a[j]  BY <1>1, StartOf
  <1>3. n # <<>>
    <2>1. Len(<<>>) = 0  BY EmptySeq
    <2>2. QED  BY <1>1, <1>2, <2>1
  <1> HIDE DEF n
  <1>4. Sibling(n) \in Path /\ (IsPrefix(Sibling(n), b) <=> Parts(n, b, i))
    BY <1>2, <1>3, SiblingOf, BelowSibling
  <1>5. Parts(n, b, i) <=> Parts(a, b, i)
    <2>1. i \in 1..Len(n) /\ i \in 1..i /\ \A j \in 1 .. i - 1 : j \in 1..i  BY <1>1, <1>2
    <2>2. QED  BY <1>2, <2>1 DEF Parts
  <1>6. QED  BY <1>2, <1>3, <1>4, <1>5 DEF n

\* Nothing is below the sibling of a node but what parts from it there.
LEMMA HealedOf ==
  ASSUME NEW n \in Path, n # <<>>, NEW m \in Path
  PROVE  /\ Healed(n, m) \in Path
         /\ ~Parts(n, m, Len(n)) => Healed(n, m) = m
         /\ Parts(n, m, Len(n)) =>
              /\ Len(Healed(n, m)) = Len(m) - 1
              /\ \A j \in 1 .. Len(m) - 1 :
                   Healed(n, m)[j] = IF j < Len(n) THEN m[j] ELSE m[j + 1]
  <1> DEFINE k == Len(n)
  <1>1. IsPrefix(Sibling(n), m) <=> Parts(n, m, k)  BY BelowSibling
  <1>2. CASE ~Parts(n, m, k)  BY <1>1, <1>2 DEF Healed
  <1>3. CASE Parts(n, m, k)
    <2> DEFINE f == SubSeq(n, 1, k - 1)
               g == SubSeq(m, k + 1, Len(m))
    <2>1. k \in Nat \ {0} /\ Len(m) \in Nat  BY SiblingOf, PathType
    <2>2. k <= Len(m) /\ \A j \in 1 .. k - 1 : n[j] = m[j]  BY <1>3, <2>1 DEF Parts
    <2>3. k - 1 \in 0 .. Len(n)  BY <2>1
    <2>4. f \in Seq({0, 1}) /\ Len(f) = k - 1 /\ \A j \in 1 .. k - 1 : f[j] = n[j]
      BY <2>3, StartOf DEF Path
    <2>5. k + 1 \in Int /\ Len(m) \in Int /\ \A i \in k + 1 .. Len(m) : m[i] \in {0, 1}
      <3>1. \A i \in k + 1 .. Len(m) : i \in 1..Len(m)  BY <2>1
      <3>2. QED  BY <2>1, <3>1, PathType
    <2>6. g \in Seq({0, 1})
          /\ Len(g) = (IF k + 1 <= Len(m) THEN Len(m) - (k + 1) + 1 ELSE 0)
          /\ \A i \in 1 .. Len(m) - (k + 1) + 1 : g[i] = m[k + 1 + i - 1]
      BY <2>5, SubSeqProperties
    <2>7. Healed(n, m) = f \o g  BY <1>1, <1>3 DEF Healed, Front
    <2> HIDE DEF f, g, k
    <2>8. Len(g) = Len(m) - k  BY <2>1, <2>2, <2>6
    <2>9. f \o g \in Seq({0, 1}) /\ Len(f \o g) = Len(f) + Len(g)
          /\ \A i \in 1 .. Len(f) + Len(g) :
               (f \o g)[i] = IF i <= Len(f) THEN f[i] ELSE g[i - Len(f)]
      BY <2>4, <2>6, ConcatProperties
    <2>10. Len(f) + Len(g) = Len(m) - 1  BY <2>1, <2>4, <2>8
    <2>11. ASSUME NEW j \in 1 .. Len(m) - 1
           PROVE  (f \o g)[j] = IF j < k THEN m[j] ELSE m[j + 1]
      <3>1. CASE j < k
        <4>1. j \in 1 .. k - 1 /\ j <= Len(f)  BY <2>1, <2>4, <3>1
        <4>2. QED  BY <2>2, <2>4, <2>9, <2>10, <2>11, <3>1, <4>1
      <3>2. CASE ~(j < k)
        <4>1. j - (k - 1) \in 1 .. Len(m) - (k + 1) + 1 /\ ~(j <= k - 1)
              /\ k + 1 + (j - (k - 1)) - 1 = j + 1
          BY <2>1, <2>2, <2>11, <3>2
        <4>2. (f \o g)[j] = g[j - (k - 1)]  BY <2>4, <2>9, <2>10, <2>11, <4>1
        <4>3. g[j - (k - 1)] = m[k + 1 + (j - (k - 1)) - 1]  BY <2>6, <4>1
        <4>4. QED  BY <3>2, <4>1, <4>2, <4>3
      <3>3. QED  BY <3>1, <3>2
    <2>12. QED  BY <1>3, <2>7, <2>9, <2>10, <2>11 DEF Path, k
  <1>4. QED  BY <1>2, <1>3

-----------------------------------------------------------------------------
(* Trees: the leaves of L, leaf t at path f[t] *)

FullTree(L, f) ==
  \A t \in L :
    /\ f[t] \in Path
    /\ \A i \in 1..Len(f[t]) : \E u \in L : Parts(f[t], f[u], i)
    /\ \A u \in L \ {t} : Fork(f[t], f[u])

\* A path does not fork from itself, and forks are mutual.
LEMMA ForkProperties ==
  ASSUME NEW a, NEW b
  PROVE  /\ \A i : ~Parts(a, a, i)
         /\ \A i : Parts(a, b, i) => Parts(b, a, i)
         /\ Fork(a, b) => Fork(b, a)
  BY DEF Parts, Fork

\* Two leaves part at one place, so what agrees beyond it is not one of them.
LEMMA PartsOnce ==
  ASSUME NEW a, NEW b, NEW i \in Nat, NEW j \in Nat, Parts(a, b, i), Parts(a, b, j)
  PROVE  i = j
  <1>1. i \in 1..Len(a) /\ j \in 1..Len(a)  BY DEF Parts
  <1>2. ~(i < j) /\ ~(j < i)
    <2>1. CASE i < j
      <3>1. i \in 1 .. j - 1  BY <2>1, <1>1
      <3>2. QED  BY <3>1 DEF Parts
    <2>2. CASE j < i
      <3>1. j \in 1 .. i - 1  BY <2>2, <1>1
      <3>2. QED  BY <3>1 DEF Parts
    <2>3. QED  BY <2>1, <2>2
  <1>3. QED  BY <1>1, <1>2

\* One leaf alone is a tree, if it is the root.
LEMMA LoneTree ==
  ASSUME NEW t, NEW f, f[t] = <<>>
  PROVE  FullTree({t}, f)
  <1>1. <<>> \in Path /\ Len(<<>>) = 0  BY EmptySeq DEF Path
  <1>2. 1 .. 0 = {}  OBVIOUS
  <1>3. QED  BY <1>1, <1>2 DEF FullTree

\* The leaf at the root is alone.
LEMMA RootIsAlone ==
  ASSUME NEW L, NEW f, FullTree(L, f), NEW t \in L, f[t] = <<>>
  PROVE  L = {t}
  <1>1. Len(f[t]) = 0  BY EmptySeq
  <1>2. 1 .. 0 = {}  OBVIOUS
  <1>3. \A u : ~Fork(f[t], f[u])  BY <1>1, <1>2 DEF Fork
  <1>4. QED  BY <1>3 DEF FullTree

\* A tree depends on the paths of its leaves only.
LEMMA SameTree ==
  ASSUME NEW L, NEW f, NEW g, FullTree(L, f), \A t \in L : g[t] = f[t]
  PROVE  FullTree(L, g)
  BY DEF FullTree

\* Appending a step keeps where a path parts from others.
LEMMA PartsAppend ==
  ASSUME NEW a \in Path, NEW b \in Path, NEW c \in {0, 1}, NEW i \in 1..Len(a),
         Parts(a, b, i)
  PROVE  Parts(Append(a, c), b, i) /\ Parts(b, Append(a, c), i)
  <1>1. Len(a) \in Nat /\ Len(b) \in Nat  BY PathType
  <1>2. Len(Append(a, c)) = Len(a) + 1 /\ \A j \in 1..Len(a) : Append(a, c)[j] = a[j]
    BY AppendProperties DEF Path
  <1>3. i \in 1 .. Len(a) + 1 /\ \A j \in 1 .. i - 1 : j \in 1..Len(a)  BY <1>1
  <1>4. QED  BY <1>1, <1>2, <1>3 DEF Parts

\* Two children of a paned part at that paned.
LEMMA PartsHere ==
  ASSUME NEW a \in Path
  PROVE  /\ Parts(Append(a, 0), Append(a, 1), Len(a) + 1)
         /\ Append(a, 0) \in Path /\ Append(a, 1) \in Path
         /\ Len(Append(a, 0)) = Len(a) + 1 /\ Len(Append(a, 1)) = Len(a) + 1
  <1>1. Len(a) \in Nat  BY PathType
  <1>2. ASSUME NEW c \in {0, 1}
        PROVE  /\ Append(a, c) \in Path /\ Len(Append(a, c)) = Len(a) + 1
               /\ \A j \in 1..Len(a) : Append(a, c)[j] = a[j]
               /\ Append(a, c)[Len(a) + 1] = c
    BY AppendProperties DEF Path
  <1>3. Len(a) + 1 \in 1 .. Len(a) + 1 /\ Len(a) + 1 - 1 = Len(a)  BY <1>1
  <1>4. QED  BY <1>2, <1>3 DEF Parts

\* Splitting leaf o for a new leaf t keeps a tree full.
LEMMA SplitTree ==
  ASSUME NEW L, NEW f, NEW g, FullTree(L, f), NEW o \in L, NEW t, t \notin L,
         \A u \in L \ {o} : g[u] = f[u],
         g[o] = Append(f[o], 0), g[t] = Append(f[o], 1)
  PROVE  FullTree(L \union {t}, g)
  <1> DEFINE a == f[o]
  <1>1. a \in Path /\ Len(a) \in Nat  BY PathType DEF FullTree
  <1>2. g[o] \in Path /\ g[t] \in Path /\ Len(g[o]) = Len(a) + 1 /\ Len(g[t]) = Len(a) + 1
        /\ Parts(g[o], g[t], Len(a) + 1) /\ Parts(g[t], g[o], Len(a) + 1)
    <2>1. g[o] \in Path /\ g[t] \in Path /\ Len(g[o]) = Len(a) + 1 /\ Len(g[t]) = Len(a) + 1
          /\ Parts(g[o], g[t], Len(a) + 1)
      BY <1>1, PartsHere
    <2>2. QED  BY <2>1 DEF Parts
  <1>3. ASSUME NEW u \in L \ {o}, NEW c \in {o, t}, NEW i, Parts(f[u], a, i) \/ Parts(a, f[u], i)
        PROVE  Parts(g[u], g[c], i) /\ Parts(g[c], g[u], i)
    <2>1. g[u] = f[u] /\ f[u] \in Path  BY <1>3 DEF FullTree
    <2>2. Parts(a, f[u], i) /\ i \in 1..Len(a)  BY <1>3, ForkProperties DEF Parts
    <2>3. QED  BY <1>1, <2>1, <2>2, PartsAppend
  <1>4. ASSUME NEW u \in L \ {o} PROVE
          /\ g[u] \in Path
          /\ \A i \in 1..Len(g[u]) : \E v \in L \union {t} : Parts(g[u], g[v], i)
          /\ \A v \in (L \union {t}) \ {u} : Fork(g[u], g[v])
    <2>1. g[u] = f[u] /\ f[u] \in Path /\ u \in L /\ u # t  BY <1>4 DEF FullTree
    <2>2. ASSUME NEW i \in 1..Len(g[u]) PROVE \E v \in L \union {t} : Parts(g[u], g[v], i)
      <3>1. PICK v \in L : Parts(f[u], f[v], i)  BY <2>1, <2>2 DEF FullTree
      <3>2. CASE v = o
        <4>1. Parts(g[u], g[o], i)  BY <1>3, <1>4, <3>1, <3>2
        <4>2. QED  BY <4>1
      <3>3. CASE v # o  BY <2>1, <3>1, <3>3
      <3>4. QED  BY <3>2, <3>3
    <2>3. ASSUME NEW v \in (L \union {t}) \ {u} PROVE Fork(g[u], g[v])
      <3>1. CASE v \in {o, t}
        <4>1. Fork(f[u], a)  BY <2>1, <1>4 DEF FullTree
        <4>2. PICK i \in 1..Len(f[u]) : Parts(f[u], a, i)  BY <4>1 DEF Fork
        <4>3. Parts(g[u], g[v], i)  BY <1>3, <1>4, <3>1, <4>2
        <4>4. QED  BY <4>2, <4>3, <2>1 DEF Fork
      <3>2. CASE v \notin {o, t}
        <4>1. v \in L \ {u} /\ g[v] = f[v]  BY <2>3, <3>2
        <4>2. QED  BY <4>1, <2>1 DEF FullTree
      <3>3. QED  BY <3>1, <3>2
    <2>4. QED  BY <2>1, <2>2, <2>3
  <1>5. ASSUME NEW c \in {o, t} PROVE
          /\ g[c] \in Path
          /\ \A i \in 1..Len(g[c]) : \E v \in L \union {t} : Parts(g[c], g[v], i)
          /\ \A v \in (L \union {t}) \ {c} : Fork(g[c], g[v])
    <2>1. g[c] \in Path /\ Len(g[c]) = Len(a) + 1  BY <1>2, <1>5
    <2> DEFINE d == IF c = o THEN t ELSE o
    <2>2. d \in {o, t} /\ Parts(g[c], g[d], Len(a) + 1) /\ d # c  BY <1>2, <1>5
    <2> HIDE DEF d
    <2>3. ASSUME NEW i \in 1..Len(g[c]) PROVE \E v \in L \union {t} : Parts(g[c], g[v], i)
      <3>1. CASE i = Len(a) + 1
        <4>1. d \in L \union {t}  BY <2>2
        <4>2. QED  BY <2>2, <3>1, <4>1
      <3>2. CASE i # Len(a) + 1
        <4>1. i \in 1..Len(a)  BY <1>1, <2>1, <2>3, <3>2
        <4>2. PICK v \in L : Parts(a, f[v], i)  BY <4>1 DEF FullTree
        <4>3. v # o  BY <4>2, ForkProperties
        <4>4. Parts(g[c], g[v], i)  BY <1>3, <1>5, <4>2, <4>3
        <4>5. QED  BY <4>4
      <3>3. QED  BY <3>1, <3>2
    <2>4. ASSUME NEW v \in (L \union {t}) \ {c} PROVE Fork(g[c], g[v])
      <3>1. CASE v \in {o, t}
        <4>1. v = d  BY <1>5, <2>2, <2>4, <3>1
        <4>2. Len(a) + 1 \in 1..Len(g[c])  BY <1>1, <2>1
        <4>3. QED  BY <2>2, <4>1, <4>2 DEF Fork
      <3>2. CASE v \notin {o, t}
        <4>1. v \in L \ {o}  BY <2>4, <3>2
        <4>2. Fork(a, f[v])  BY <4>1 DEF FullTree
        <4>3. PICK i \in 1..Len(a) : Parts(a, f[v], i)  BY <4>2 DEF Fork
        <4>4. Parts(g[c], g[v], i)  BY <1>3, <1>5, <4>1, <4>3
        <4>5. QED  BY <4>4 DEF Parts, Fork
      <3>3. QED  BY <3>1, <3>2
    <2>5. QED  BY <2>1, <2>3, <2>4
  <1>6. ASSUME NEW u \in L \union {t} PROVE u \in L \ {o} \/ u \in {o, t}  BY <1>6
  <1>7. QED  BY <1>4, <1>5, <1>6 DEF FullTree

\* Healing keeps two leaves apart that are not the leaf n that goes: it drops
\* the place of n's paned from what is below n's sibling.
LEMMA HealedParts ==
  ASSUME NEW n \in Path, n # <<>>, NEW a \in Path, NEW b \in Path, NEW i,
         Fork(n, a), Fork(n, b), Parts(a, b, i)
  PROVE  Parts(Healed(n, a), Healed(n, b),
               IF Parts(n, a, Len(n)) /\ Len(n) < i THEN i - 1 ELSE i)
  <1> DEFINE k == Len(n)
             x == Healed(n, a)
             y == Healed(n, b)
  <1>1. k \in Nat \ {0} /\ Len(a) \in Nat /\ Len(b) \in Nat  BY PathType, SiblingOf
  <1>2. /\ \A j \in 1..k : n[j] \in {0, 1}
        /\ \A j \in 1..Len(a) : a[j] \in {0, 1}
        /\ \A j \in 1..Len(b) : b[j] \in {0, 1}
    BY PathType
  <1>3. /\ ~Parts(n, a, k) => x = a
        /\ Parts(n, a, k) => /\ Len(x) = Len(a) - 1
                             /\ \A j \in 1 .. Len(a) - 1 : x[j] = IF j < k THEN a[j] ELSE a[j + 1]
    BY HealedOf
  <1>4. /\ ~Parts(n, b, k) => y = b
        /\ Parts(n, b, k) => /\ Len(y) = Len(b) - 1
                             /\ \A j \in 1 .. Len(b) - 1 : y[j] = IF j < k THEN b[j] ELSE b[j + 1]
    BY HealedOf
  <1>5. i \in Nat \ {0} /\ i <= Len(a) /\ i <= Len(b)
        /\ (\A j \in 1 .. i - 1 : a[j] = b[j]) /\ a[i] # b[i]
    BY <1>1 DEF Parts
  <1>6. /\ \E j \in 1..k : n[j] # a[j] \/ ~(j <= Len(a))
        /\ \E j \in 1..k : n[j] # b[j] \/ ~(j <= Len(b))
    BY DEF Fork, Parts
  <1>7. Parts(n, a, k) <=> /\ k <= Len(a)
                           /\ (\A j \in 1 .. k - 1 : n[j] = a[j]) /\ n[k] # a[k]
    BY <1>1 DEF Parts
  <1>8. Parts(n, b, k) <=> /\ k <= Len(b)
                           /\ (\A j \in 1 .. k - 1 : n[j] = b[j]) /\ n[k] # b[k]
    BY <1>1 DEF Parts
  <1> HIDE DEF k, x, y
  <1>9. CASE Parts(n, a, k) /\ Parts(n, b, k)
    <2>1. i # k
      <3>1. k \in 1..k /\ k \in 1..Len(a) /\ k \in 1..Len(b)  BY <1>1, <1>7, <1>8, <1>9
      <3>2. n[k] \in {0, 1} /\ a[k] \in {0, 1} /\ b[k] \in {0, 1}  BY <1>2, <3>1
      <3>3. QED  BY <1>5, <1>7, <1>8, <1>9, <3>2
    <2>2. ~(i < k)
      <3>1. i < k => i \in 1 .. k - 1  BY <1>1, <1>5
      <3>2. QED  BY <3>1, <1>5, <1>7, <1>8, <1>9
    <2>3. k < i  BY <1>1, <1>5, <2>1, <2>2
    <2>4. ASSUME NEW j \in 1 .. i - 2 PROVE x[j] = y[j]
      <3>1. j \in 1 .. Len(a) - 1 /\ j \in 1 .. Len(b) - 1 /\ j \in 1 .. i - 1 /\ j + 1 \in 1 .. i - 1
        BY <1>1, <1>5, <2>4
      <3>2. QED  BY <1>3, <1>4, <1>5, <1>9, <3>1
    <2>5. x[i - 1] # y[i - 1]
      <3>1. i - 1 \in 1 .. Len(a) - 1 /\ i - 1 \in 1 .. Len(b) - 1 /\ i - 1 + 1 = i /\ ~(i - 1 < k)
        BY <1>1, <1>5, <2>3
      <3>2. QED  BY <1>3, <1>4, <1>5, <1>9, <3>1
    <2>6. i - 1 \in 1..Len(x) /\ i - 1 \in 1..Len(y) /\ i - 1 - 1 = i - 2
      BY <1>1, <1>3, <1>4, <1>5, <1>9, <2>3
    <2>7. Parts(x, y, i - 1)  BY <2>4, <2>5, <2>6 DEF Parts
    <2>8. QED  BY <1>9, <2>3, <2>7 DEF k, x, y
  <1>10. CASE Parts(n, a, k) /\ ~Parts(n, b, k)
    <2>1. ~(k < i)
      <3>1. SUFFICES ASSUME k < i PROVE FALSE  OBVIOUS
      <3>2. \A j \in 1 .. k - 1 : j \in 1 .. i - 1  BY <1>1, <1>5, <3>1
      <3>3. k \in 1 .. i - 1 /\ k <= Len(b)  BY <1>1, <1>5, <3>1
      <3>4. QED  BY <1>5, <1>7, <1>8, <1>10, <3>2, <3>3
    <2>2. i # k
      <3>1. SUFFICES ASSUME i = k PROVE FALSE  OBVIOUS
      <3>2. k \in 1..k /\ k \in 1..Len(a) /\ k \in 1..Len(b)  BY <1>1, <1>5, <3>1
      <3>3. n[k] \in {0, 1} /\ a[k] \in {0, 1} /\ b[k] \in {0, 1}  BY <1>2, <3>2
      <3>4. n[k] = b[k]  BY <1>5, <1>7, <1>10, <3>1, <3>3
      <3>5. \A j \in 1 .. k - 1 : n[j] = b[j]  BY <1>5, <1>7, <1>10, <3>1
      <3>6. \A j \in 1..k : n[j] = b[j] /\ j <= Len(b)
        <4>1. \A j \in 1..k : (j \in 1 .. k - 1 \/ j = k) /\ j <= Len(b)  BY <1>1, <1>5, <3>1
        <4>2. QED  BY <3>4, <3>5, <4>1
      <3>7. QED  BY <1>6, <3>6
    <2>3. i < k  BY <1>1, <1>5, <2>1, <2>2
    <2>4. i \in 1 .. Len(a) - 1 /\ \A j \in 1 .. i - 1 : j \in 1 .. Len(a) - 1 /\ j < k
      BY <1>1, <1>5, <1>7, <1>10, <2>3
    <2>5. x[i] = a[i] /\ \A j \in 1 .. i - 1 : x[j] = a[j]  BY <1>3, <1>10, <2>3, <2>4
    <2>6. i \in 1..Len(x) /\ i \in 1..Len(y) /\ y = b  BY <1>1, <1>3, <1>4, <1>5, <1>10, <2>4
    <2>7. Parts(x, y, i)  BY <1>5, <2>5, <2>6 DEF Parts
    <2>8. QED  BY <2>1, <2>7 DEF k, x, y
  <1>11. CASE ~Parts(n, a, k) /\ Parts(n, b, k)
    <2>1. ~(k < i)
      <3>1. SUFFICES ASSUME k < i PROVE FALSE  OBVIOUS
      <3>2. \A j \in 1 .. k - 1 : j \in 1 .. i - 1  BY <1>1, <1>5, <3>1
      <3>3. k \in 1 .. i - 1 /\ k <= Len(a)  BY <1>1, <1>5, <3>1
      <3>4. QED  BY <1>5, <1>7, <1>8, <1>11, <3>2, <3>3
    <2>2. i # k
      <3>1. SUFFICES ASSUME i = k PROVE FALSE  OBVIOUS
      <3>2. k \in 1..k /\ k \in 1..Len(a) /\ k \in 1..Len(b)  BY <1>1, <1>5, <3>1
      <3>3. n[k] \in {0, 1} /\ a[k] \in {0, 1} /\ b[k] \in {0, 1}  BY <1>2, <3>2
      <3>4. n[k] = a[k]  BY <1>5, <1>8, <1>11, <3>1, <3>3
      <3>5. \A j \in 1 .. k - 1 : n[j] = a[j]  BY <1>5, <1>8, <1>11, <3>1
      <3>6. \A j \in 1..k : n[j] = a[j] /\ j <= Len(a)
        <4>1. \A j \in 1..k : (j \in 1 .. k - 1 \/ j = k) /\ j <= Len(a)  BY <1>1, <1>5, <3>1
        <4>2. QED  BY <3>4, <3>5, <4>1
      <3>7. QED  BY <1>6, <3>6
    <2>3. i < k  BY <1>1, <1>5, <2>1, <2>2
    <2>4. i \in 1 .. Len(b) - 1 /\ \A j \in 1 .. i - 1 : j \in 1 .. Len(b) - 1 /\ j < k
      BY <1>1, <1>5, <1>8, <1>11, <2>3
    <2>5. y[i] = b[i] /\ \A j \in 1 .. i - 1 : y[j] = b[j]  BY <1>4, <1>11, <2>3, <2>4
    <2>6. i \in 1..Len(x) /\ i \in 1..Len(y) /\ x = a  BY <1>1, <1>3, <1>4, <1>5, <1>11, <2>4
    <2>7. Parts(x, y, i)  BY <1>5, <2>5, <2>6 DEF Parts
    <2>8. QED  BY <1>11, <2>7 DEF k, x, y
  <1>12. CASE ~Parts(n, a, k) /\ ~Parts(n, b, k)
    BY <1>3, <1>4, <1>12 DEF k, x, y
  <1>13. QED  BY <1>9, <1>10, <1>11, <1>12

\* Taking leaf t out, its sibling in the place of their paned, keeps a tree full.
LEMMA TakeTree ==
  ASSUME NEW L, NEW f, NEW g, FullTree(L, f), NEW t \in L, f[t] # <<>>,
         \A u \in L \ {t} : g[u] = Healed(f[t], f[u])
  PROVE  FullTree(L \ {t}, g)
  <1> DEFINE n == f[t]
             k == Len(n)
  <1>1. n \in Path /\ k \in Nat \ {0} /\ k \in 1..k
    <2>1. n \in Path  BY DEF FullTree
    <2>2. k \in Nat \ {0}  BY <2>1, SiblingOf
    <2>3. QED  BY <2>1, <2>2
  <1>2. ASSUME NEW u \in L \ {t} PROVE f[u] \in Path /\ Fork(n, f[u])
    BY <1>2 DEF FullTree
  <1> HIDE DEF n
  <1>3. ASSUME NEW u \in L \ {t}, NEW v \in L \ {t}, NEW i, Parts(f[u], f[v], i)
        PROVE  Parts(g[u], g[v], IF Parts(n, f[u], k) /\ k < i THEN i - 1 ELSE i)
    <2>1. g[u] = Healed(n, f[u]) /\ g[v] = Healed(n, f[v])  BY <1>3 DEF n
    <2>2. n # <<>>  BY DEF n
    <2>3. QED  BY <1>1, <1>2, <1>3, <2>1, <2>2, HealedParts
  <1>4. ASSUME NEW u \in L \ {t} PROVE
          /\ g[u] \in Path
          /\ \A i \in 1..Len(g[u]) : \E v \in L \ {t} : Parts(g[u], g[v], i)
          /\ \A v \in (L \ {t}) \ {u} : Fork(g[u], g[v])
    <2> DEFINE a == f[u]
    <2>1. a \in Path /\ Len(a) \in Nat /\ g[u] = Healed(n, a) /\ n # <<>>
      BY <1>2, <1>4, PathType DEF n
    <2>2. g[u] \in Path /\ (~Parts(n, a, k) => g[u] = a)
          /\ (Parts(n, a, k) => Len(g[u]) = Len(a) - 1)
      BY <1>1, <2>1, HealedOf
    <2>3. ASSUME NEW i \in 1..Len(g[u]), Parts(n, a, k)
          PROVE  \E v \in L \ {t} : Parts(g[u], g[v], i)
      <3> DEFINE h == IF i < k THEN i ELSE i + 1
      <3>1. h \in 1..Len(a) /\ h \in Nat /\ h # k /\ (IF k < h THEN h - 1 ELSE h) = i
        BY <1>1, <2>1, <2>2, <2>3
      <3> HIDE DEF h
      <3>2. PICK v \in L : Parts(a, f[v], h)  BY <1>4, <3>1 DEF FullTree
      <3>3. v # t
        <4>1. SUFFICES ASSUME v = t PROVE FALSE  OBVIOUS
        <4>2. Parts(n, a, h)  BY <3>2, <4>1, ForkProperties DEF n
        <4>3. QED  BY <1>1, <2>3, <3>1, <4>2, PartsOnce
      <3>4. Parts(g[u], g[v], IF Parts(n, a, k) /\ k < h THEN h - 1 ELSE h)
        BY <1>3, <1>4, <3>2, <3>3
      <3>5. Parts(g[u], g[v], i)  BY <2>3, <3>1, <3>4
      <3>6. QED  BY <3>3, <3>5
    <2>4. ASSUME NEW i \in 1..Len(g[u]), ~Parts(n, a, k)
          PROVE  \E v \in L \ {t} : Parts(g[u], g[v], i)
      <3>1. i \in 1..Len(a)  BY <2>2, <2>4
      <3>2. PICK v \in L : Parts(a, f[v], i)  BY <1>4, <3>1 DEF FullTree
      <3>3. CASE v # t
        <4>1. Parts(g[u], g[v], i)  BY <1>3, <1>4, <2>4, <3>2, <3>3
        <4>2. QED  BY <3>3, <4>1
      <3>4. CASE v = t
        <4>1. Parts(a, n, i) /\ Parts(n, a, i)  BY <3>2, <3>4, ForkProperties DEF n
        <4>2. i # k  BY <2>4, <4>1
        <4>3. i < k  BY <1>1, <2>1, <4>1, <4>2 DEF Parts
        <4>4. PICK w \in L : Parts(n, f[w], k)  BY <1>1 DEF FullTree, n
        <4>5. w # t  BY <4>4, ForkProperties DEF n
        <4>6. Parts(a, f[w], i)
          <5>1. k \in 1..Len(f[w]) /\ \A j \in 1 .. k - 1 : n[j] = f[w][j]  BY <4>4 DEF Parts
          <5>2. i \in 1 .. k - 1 /\ (\A j \in 1 .. i - 1 : j \in 1 .. k - 1) /\ i \in 1..Len(f[w])
            <6>1. Len(f[w]) \in Nat  BY <1>2, <4>5, PathType
            <6>2. QED  BY <1>1, <3>1, <4>3, <5>1, <6>1
          <5>3. QED  BY <3>1, <4>1, <5>1, <5>2 DEF Parts
        <4>7. Parts(g[u], g[w], i)  BY <1>3, <1>4, <2>4, <4>5, <4>6
        <4>8. QED  BY <4>5, <4>7
      <3>5. QED  BY <3>3, <3>4
    <2>5. ASSUME NEW v \in (L \ {t}) \ {u} PROVE Fork(g[u], g[v])
      <3>1. Fork(a, f[v])  BY <1>4, <2>5 DEF FullTree
      <3>2. PICK i \in 1..Len(a) : Parts(a, f[v], i)  BY <3>1 DEF Fork
      <3>3. Parts(g[u], g[v], IF Parts(n, a, k) /\ k < i THEN i - 1 ELSE i)
        BY <1>3, <1>4, <2>5, <3>2
      <3>4. QED  BY <3>3 DEF Fork, Parts
    <2>6. QED  BY <2>2, <2>3, <2>4, <2>5
  <1>5. QED  BY <1>4 DEF FullTree


-----------------------------------------------------------------------------
(* The order of the leaves *)

\* Before is to part, to the left.
LEMMA BeforeParts ==
  ASSUME NEW a \in Path, NEW b \in Path
  PROVE  Before(a, b) <=> \E i \in 1..Len(a) : Parts(a, b, i) /\ a[i] = 0 /\ b[i] = 1
  <1>1. Len(a) \in Nat /\ Len(b) \in Nat  BY PathType
  <1>2. ASSUME NEW i \in 1..Len(a), i <= Len(b)
        PROVE  SubSeq(a, 1, i - 1) = SubSeq(b, 1, i - 1) <=> \A j \in 1 .. i - 1 : a[j] = b[j]
    <2>1. i - 1 \in 0 .. Len(a) /\ i - 1 \in 0 .. Len(b)  BY <1>1, <1>2
    <2> DEFINE x == SubSeq(a, 1, i - 1)
               y == SubSeq(b, 1, i - 1)
    <2>2. x \in Path /\ Len(x) = i - 1 /\ \A j \in 1 .. i - 1 : x[j] = a[j]  BY <2>1, StartOf
    <2>3. y \in Path /\ Len(y) = i - 1 /\ \A j \in 1 .. i - 1 : y[j] = b[j]  BY <2>1, StartOf
    <2> HIDE DEF x, y
    <2>4. ASSUME \A j \in 1 .. i - 1 : a[j] = b[j] PROVE x = y
      <3>1. \A j \in 1..Len(x) : x[j] = y[j]  BY <2>2, <2>3, <2>4
      <3>2. QED  BY <2>2, <2>3, <3>1, SeqEqual DEF Path
    <2>5. ASSUME x = y PROVE \A j \in 1 .. i - 1 : a[j] = b[j]  BY <2>2, <2>3, <2>5
    <2>6. QED  BY <2>4, <2>5 DEF x, y
  <1>3. \A i \in 1..Len(a) : i <= Len(b) <=> i \in 1..Len(b)  BY <1>1
  <1>4. ASSUME NEW i \in 1..Len(a)
        PROVE  (/\ i <= Len(b) /\ SubSeq(a, 1, i - 1) = SubSeq(b, 1, i - 1)
                /\ a[i] = 0 /\ b[i] = 1)
               <=> Parts(a, b, i) /\ a[i] = 0 /\ b[i] = 1
    BY <1>2, <1>3 DEF Parts
  <1>5. QED  BY <1>4 DEF Before

\* The order is strict and, where paths fork, total.
LEMMA BeforeOrder ==
  ASSUME NEW a \in Path, NEW b \in Path
  PROVE  /\ ~Before(a, a)
         /\ Fork(a, b) => Before(a, b) \/ Before(b, a)
         /\ \A c \in Path : Before(a, b) /\ Before(b, c) => Before(a, c)
  <1>1. ~Before(a, a)  BY BeforeParts, ForkProperties
  <1>2. ASSUME Fork(a, b) PROVE Before(a, b) \/ Before(b, a)
    <2>1. PICK i \in 1..Len(a) : Parts(a, b, i)  BY <1>2 DEF Fork
    <2>2. Parts(b, a, i) /\ i \in 1..Len(b) /\ a[i] # b[i]  BY <2>1 DEF Parts
    <2>3. a[i] \in {0, 1} /\ b[i] \in {0, 1}  BY <2>1, <2>2, PathType
    <2>4. QED  BY <2>1, <2>2, <2>3, BeforeParts
  <1>3. ASSUME NEW c \in Path, Before(a, b), Before(b, c) PROVE Before(a, c)
    <2>1. PICK i \in 1..Len(a) : Parts(a, b, i) /\ a[i] = 0 /\ b[i] = 1  BY <1>3, BeforeParts
    <2>2. PICK j \in 1..Len(b) : Parts(b, c, j) /\ b[j] = 0 /\ c[j] = 1  BY <1>3, BeforeParts
    <2>3. Len(a) \in Nat /\ Len(b) \in Nat /\ Len(c) \in Nat  BY PathType
    <2>4. i # j  BY <2>1, <2>2
    <2>5. CASE i < j
      <3>1. i \in 1 .. j - 1 /\ i \in 1..Len(c) /\ \A l \in 1 .. i - 1 : l \in 1 .. j - 1
        BY <2>1, <2>2, <2>3, <2>5 DEF Parts
      <3>2. Parts(a, c, i) /\ c[i] = 1  BY <2>1, <2>2, <3>1 DEF Parts
      <3>3. QED  BY <2>1, <3>2, BeforeParts
    <2>6. CASE j < i
      <3>1. j \in 1 .. i - 1 /\ j \in 1..Len(a) /\ \A l \in 1 .. j - 1 : l \in 1 .. i - 1
        BY <2>1, <2>2, <2>3, <2>6 DEF Parts
      <3>2. Parts(a, c, j) /\ a[j] = 0  BY <2>1, <2>2, <3>1 DEF Parts
      <3>3. QED  BY <2>2, <3>1, <3>2, BeforeParts
    <2>7. QED  BY <2>3, <2>4, <2>5, <2>6
  <1>4. QED  BY <1>1, <1>2, <1>3

\* Among leaves of one tree there is a first one.
LEMMA FirstIsOne ==
  ASSUME NEW S, NEW A, IsFiniteSet(A), A # {},
         \A t \in A : S.panes[t].path \in Path,
         \A t \in A : \A u \in A \ {t} : Fork(S.panes[t].path, S.panes[u].path)
  PROVE  FirstTerminal(S, A) \in A
  <1> DEFINE P(t) == S.panes[t].path
             Ahead(t) == {u \in A : Before(P(u), P(t))}
             T == {Ahead(t) : t \in A}
  <1>1. \A t \in A : Ahead(t) \in SUBSET A /\ IsFiniteSet(Ahead(t))
    <2>1. ASSUME NEW t \in A PROVE Ahead(t) \in SUBSET A  OBVIOUS
    <2>2. QED  BY <2>1, FS_Subset
  <1>2. T \subseteq FiniteSubsetsOf(A) /\ T # {}  BY <1>1 DEF FiniteSubsetsOf
  <1>3. IsWellFoundedOn(StrictSubsetOrdering(A), FiniteSubsetsOf(A))
    BY FS_StrictSubsetOrderingWellFounded
  <1>4. PICK X \in T : \A Y \in T : <<Y, X>> \notin StrictSubsetOrdering(A)
    <2> HIDE DEF T
    <2>1. QED  BY <1>2, <1>3, WFMin
  <1>5. PICK t \in A : X = Ahead(t)  OBVIOUS
  <1>6. ASSUME NEW u \in A PROVE ~Before(P(u), P(t))
    <2>1. SUFFICES ASSUME Before(P(u), P(t)) PROVE FALSE  OBVIOUS
    <2>2. P(u) \in Path /\ P(t) \in Path /\ \A v \in A : P(v) \in Path  BY <1>6
    <2>3. u \in Ahead(t)  BY <2>1
    <2>4. u \notin Ahead(u)  BY <2>2, BeforeOrder
    <2>5. Ahead(u) \subseteq Ahead(t)
      <3>1. ASSUME NEW v \in A, Before(P(v), P(u)) PROVE Before(P(v), P(t))
        <4>1. P(v) \in Path  BY <2>2
        <4> HIDE DEF P
        <4>2. QED  BY <2>1, <2>2, <3>1, <4>1, BeforeOrder
      <3>2. QED  BY <3>1
    <2>6. Ahead(u) \in SUBSET A /\ Ahead(t) \in SUBSET A  BY <1>1
    <2>7. <<Ahead(u), Ahead(t)>> \in StrictSubsetOrdering(A)
      <3> HIDE DEF Ahead
      <3>1. Ahead(u) # Ahead(t)  BY <2>3, <2>4
      <3>2. QED  BY <2>5, <2>6, <3>1 DEF StrictSubsetOrdering
    <2>8. Ahead(u) \in T  OBVIOUS
    <2>9. QED  BY <1>4, <1>5, <2>7, <2>8
  <1>7. \A u \in A \ {t} : Before(P(t), P(u))
    <2>1. ASSUME NEW u \in A \ {t} PROVE Before(P(t), P(u))
      <3>1. P(u) \in Path /\ P(t) \in Path /\ Fork(P(t), P(u)) /\ ~Before(P(u), P(t))  BY <1>6, <2>1
      <3> HIDE DEF P
      <3>2. QED  BY <3>1, BeforeOrder
    <2>2. QED  BY <2>1
  <1>8. \E x \in A : \A u \in A \ {x} : Before(S.panes[x].path, S.panes[u].path)
    BY <1>7
  <1>9. QED  BY <1>8 DEF FirstTerminal

-----------------------------------------------------------------------------
(* The invariant of a screen *)

Paths(S) == [t \in Panes |-> S.panes[t].path]

\* What is hidden for leaf z to fill its page.
Around(S, z) ==
  {Sibling(SubSeq(S.panes[z].path, 1, i)) : i \in 1..Len(S.panes[z].path)}

TreeOK(S, p) == FullTree(Leaves(S, p), Paths(S))

FocusOK(S, p) ==
  \/ S.pages[p].focused \in Leaves(S, p)
  \/ S.pages[p].focused = NoPane /\ \A t \in Leaves(S, p) : S.panes[t].path = <<>>

\* The zoom of p, if t has its focus.
ZoomFits(S, p, t) ==
  IF S.pages[p].zoomed = NoPane THEN S.pages[p].hidden = {}
  ELSE S.pages[p].zoomed = t /\ S.pages[p].hidden = Around(S, t)

ZoomOK(S, p) == ZoomFits(S, p, S.pages[p].focused)

DimOK(S, p) ==
  \A t \in Leaves(S, p) :
    S.panes[t].scrim <=> /\ S.dim
                         /\ S.pages[p].focused \in Leaves(S, p) \ {t}

TitleFor(S, p) ==
  [zoom |-> S.pages[p].zoomed # NoPane,
   base |-> IF S.pages[p].custom THEN "custom"
            ELSE IF S.pages[p].focused = NoPane THEN "Terminal"
            ELSE S.panes[S.pages[p].focused].shell]

TitleOK(S, p) == S.pages[p].focused # NoPane => S.pages[p].title = TitleFor(S, p)

PageOK(S, p) == TreeOK(S, p) /\ FocusOK(S, p) /\ ZoomOK(S, p) /\ DimOK(S, p) /\ TitleOK(S, p)

BridgeOK(S, t) ==
  /\ S.panes[t].bridge \in {NoPage, S.panes[t].page}
  /\ S.panes[t].death # "alive" => S.panes[t].bridge # NoPage

\* A question about a page or a pane names it.
Names(d) ==
  /\ d.kind = "title" => d.page # NoPage
  /\ d.kind = "kill" => d.pane # NoPane

DialogOK(S, w) == Names(S.windows[w].dialog)

AllButPage(S, p) ==
  /\ S \in Screens
  /\ \A w \in Windows : DialogOK(S, w)
  /\ \A q \in Pages \ {p} : PageOK(S, q)

Sound(S) ==
  /\ S \in Screens
  /\ \A t \in Panes : BridgeOK(S, t)
  /\ \A w \in Windows : DialogOK(S, w)
  /\ \A q \in Pages : PageOK(S, q)

-----------------------------------------------------------------------------
(* Types of screens *)

\* The parts of a screen.
LEMMA ScreenType ==
  ASSUME NEW S \in Screens
  PROVE  /\ S.panes \in [Panes -> PaneRecord] /\ S.pages \in [Pages -> PageRecord]
         /\ S.windows \in [Windows -> WindowRecord] /\ S.dim \in BOOLEAN
         /\ S.lost \in SUBSET Pages
  BY DEF Screens

\* The fields of a pane's record.
LEMMA PaneType ==
  ASSUME NEW S \in Screens, NEW t \in Panes
  PROVE  /\ S.panes[t] \in PaneRecord
         /\ S.panes[t].page \in Pages \union {NoPage} /\ S.panes[t].path \in Path
         /\ S.panes[t].bridge \in Pages \union {NoPage}
         /\ S.panes[t].death \in {"alive", "pending", "ran"}
         /\ S.panes[t].shell \in Titles /\ S.panes[t].scrim \in BOOLEAN
  <1>1. S.panes[t] \in PaneRecord  BY ScreenType
  <1>2. QED  BY <1>1 DEF PaneRecord

\* The fields of a page's record.
LEMMA PageType ==
  ASSUME NEW S \in Screens, NEW p \in Pages
  PROVE  /\ S.pages[p] \in PageRecord
         /\ S.pages[p].focused \in Panes \union {NoPane}
         /\ S.pages[p].zoomed \in Panes \union {NoPane}
         /\ S.pages[p].hidden \in SUBSET Path
         /\ S.pages[p].custom \in BOOLEAN /\ S.pages[p].pinned \in BOOLEAN
  <1>1. S.pages[p] \in PageRecord  BY ScreenType
  <1>2. QED  BY <1>1 DEF PageRecord

\* The fields of a window's record.
LEMMA WindowType ==
  ASSUME NEW S \in Screens, NEW w \in Windows
  PROVE  /\ S.windows[w] \in WindowRecord
         /\ S.windows[w].open \in BOOLEAN /\ S.windows[w].tabs \in Seq(Pages)
         /\ S.windows[w].selected \in Pages \union {NoPage}
         /\ S.windows[w].menuOpen \in Pages \union {NoPage}
         /\ S.windows[w].menuPage \in Pages \union {NoPage}
         /\ S.windows[w].menuIdle \in BOOLEAN /\ S.windows[w].dialog \in Dialog
         /\ S.windows[w].dialog.kind \in {"none", "title", "kill", "close"}
         /\ S.windows[w].dialog.page \in Pages \union {NoPage}
         /\ S.windows[w].dialog.pane \in Panes \union {NoPane}
  <1>1. S.windows[w] \in WindowRecord  BY ScreenType
  <1>2. S.windows[w].dialog \in Dialog  BY <1>1 DEF WindowRecord
  <1>3. QED  BY <1>1, <1>2 DEF WindowRecord, Dialog

\* Changing one part keeps a screen a screen.
LEMMA ScreenExcept ==
  ASSUME NEW S \in Screens
  PROVE  /\ \A f \in [Panes -> PaneRecord] : [S EXCEPT !.panes = f] \in Screens
         /\ \A g \in [Pages -> PageRecord] : [S EXCEPT !.pages = g] \in Screens
         /\ \A h \in [Windows -> WindowRecord] : [S EXCEPT !.windows = h] \in Screens
         /\ \A d \in BOOLEAN : [S EXCEPT !.dim = d] \in Screens
         /\ \A l \in SUBSET Pages : [S EXCEPT !.lost = l] \in Screens
  <1>1. ASSUME NEW f \in [Panes -> PaneRecord] PROVE [S EXCEPT !.panes = f] \in Screens
    BY Zenon DEF Screens
  <1>2. ASSUME NEW g \in [Pages -> PageRecord] PROVE [S EXCEPT !.pages = g] \in Screens
    BY Zenon DEF Screens
  <1>3. ASSUME NEW h \in [Windows -> WindowRecord] PROVE [S EXCEPT !.windows = h] \in Screens
    BY Zenon DEF Screens
  <1>4. ASSUME NEW d \in BOOLEAN PROVE [S EXCEPT !.dim = d] \in Screens
    BY Zenon DEF Screens
  <1>5. ASSUME NEW l \in SUBSET Pages PROVE [S EXCEPT !.lost = l] \in Screens
    BY Zenon DEF Screens
  <1>6. QED  BY <1>1, <1>2, <1>3, <1>4, <1>5

\* Changing the record of one pane, page or window does too.
LEMMA OneExcept ==
  ASSUME NEW S \in Screens
  PROVE  /\ \A t \in Panes : \A r \in PaneRecord : [S EXCEPT !.panes[t] = r] \in Screens
         /\ \A p \in Pages : \A r \in PageRecord : [S EXCEPT !.pages[p] = r] \in Screens
         /\ \A w \in Windows : \A r \in WindowRecord : [S EXCEPT !.windows[w] = r] \in Screens
  <1>1. ASSUME NEW t \in Panes, NEW r \in PaneRecord PROVE [S EXCEPT !.panes[t] = r] \in Screens
    <2>1. [S.panes EXCEPT ![t] = r] \in [Panes -> PaneRecord]  BY ScreenType
    <2>2. [S EXCEPT !.panes = [S.panes EXCEPT ![t] = r]] \in Screens  BY <2>1, ScreenExcept
    <2>3. QED  BY <2>2
  <1>2. ASSUME NEW p \in Pages, NEW r \in PageRecord PROVE [S EXCEPT !.pages[p] = r] \in Screens
    <2>1. [S.pages EXCEPT ![p] = r] \in [Pages -> PageRecord]  BY ScreenType
    <2>2. [S EXCEPT !.pages = [S.pages EXCEPT ![p] = r]] \in Screens  BY <2>1, ScreenExcept
    <2>3. QED  BY <2>2
  <1>3. ASSUME NEW w \in Windows, NEW r \in WindowRecord PROVE [S EXCEPT !.windows[w] = r] \in Screens
    <2>1. [S.windows EXCEPT ![w] = r] \in [Windows -> WindowRecord]  BY ScreenType
    <2>2. [S EXCEPT !.windows = [S.windows EXCEPT ![w] = r]] \in Screens  BY <2>1, ScreenExcept
    <2>3. QED  BY <2>2
  <1>4. QED  BY <1>1, <1>2, <1>3

\* The empty records are of their types.
LEMMA NoRecords ==
  NoPaneRecord \in PaneRecord /\ NoPageRecord \in PageRecord /\ NoWindowRecord \in WindowRecord
  <1>1. <<>> \in Path /\ <<>> \in Seq(Pages)  BY EmptySeq DEF Path
  <1>2. NoPaneRecord \in PaneRecord  BY <1>1 DEF NoPaneRecord, PaneRecord, Titles
  <1>3. NoPageRecord \in PageRecord  BY DEF NoPageRecord, PageRecord, NoTitle
  <1>4. NoDialog \in Dialog  BY DEF NoDialog, Dialog
  <1>5. NoWindowRecord \in WindowRecord  BY <1>1, <1>4 DEF NoWindowRecord, WindowRecord
  <1>6. QED  BY <1>2, <1>3, <1>5

\* The leaves of a page are finitely many panes.
LEMMA LeavesFinite ==
  ASSUME NEW S, NEW p
  PROVE  IsFiniteSet(Leaves(S, p)) /\ Leaves(S, p) \subseteq Panes
  <1>1. Leaves(S, p) \in SUBSET Panes  BY DEF Leaves
  <1>2. QED  BY <1>1, FS_Subset, TabsConstants

\* Several leaves, or one.
LEMMA LeavesCount ==
  ASSUME NEW S, NEW p, NEW t \in Leaves(S, p)
  PROVE  Cardinality(Leaves(S, p)) > 1 <=> \E u \in Leaves(S, p) : u # t
  <1> DEFINE L == Leaves(S, p)
  <1>1. IsFiniteSet(L)  BY LeavesFinite
  <1>2. Cardinality(L) \in Nat  BY <1>1, FS_CardinalityType
  <1>3. CASE \E u \in L : u # t
    <2>1. Cardinality(L) # 1
      <3>1. Cardinality(L) = 1 => \E x : L = {x}  BY <1>1, FS_Singleton
      <3>2. QED  BY <1>3, <3>1
    <2>2. Cardinality(L) # 0  BY <1>1, FS_EmptySet
    <2>3. QED  BY <1>2, <1>3, <2>1, <2>2
  <1>4. CASE ~ \E u \in L : u # t
    <2>1. L = {t}  BY <1>4
    <2>2. Cardinality(L) = 1  BY <2>1, FS_Singleton
    <2>3. QED  BY <1>4, <2>2
  <1>5. QED  BY <1>3, <1>4

-----------------------------------------------------------------------------
(* What the operators on a page change *)

\* The same pane, but for its scrim.
SamePane(S, R, t) ==
  /\ R.panes[t].page = S.panes[t].page /\ R.panes[t].path = S.panes[t].path
  /\ R.panes[t].bridge = S.panes[t].bridge /\ R.panes[t].death = S.panes[t].death
  /\ R.panes[t].shell = S.panes[t].shell

\* The same, but for some pages and panes.
SameRest(S, R) == R.windows = S.windows /\ R.dim = S.dim /\ R.lost = S.lost

\* The same page, but for what updates of the title or the focus change.
SameZoom(S, R, p) ==
  /\ R.pages[p].zoomed = S.pages[p].zoomed /\ R.pages[p].hidden = S.pages[p].hidden
  /\ R.pages[p].custom = S.pages[p].custom /\ R.pages[p].pinned = S.pages[p].pinned

\* UpdateTitle changes the title, to what it should be.
LEMMA TitleFacts ==
  ASSUME NEW S \in Screens, NEW p \in Pages, NEW R, R = UpdateTitle(S, p)
  PROVE  /\ R \in Screens /\ R.panes = S.panes /\ SameRest(S, R)
         /\ \A q \in Pages \ {p} : R.pages[q] = S.pages[q]
         /\ SameZoom(S, R, p) /\ R.pages[p].focused = S.pages[p].focused
         /\ R.pages[p].title = TitleFor(S, p)
  <1> DEFINE r == [S.pages[p] EXCEPT !.title = TitleFor(S, p)]
  <1>1. R = [S EXCEPT !.pages[p] = r]
    <2>1. R = [S EXCEPT !.pages[p].title = TitleFor(S, p)]  BY DEF UpdateTitle, TitleFor
    <2>2. QED  BY <2>1
  <1>2. S.pages[p] \in PageRecord /\ S.pages \in [Pages -> PageRecord]  BY PageType, ScreenType
  <1>3. TitleFor(S, p) \in [zoom : BOOLEAN, base : Titles \union {"Terminal", "custom"}]
    <2>1. S.pages[p].focused # NoPane => S.panes[S.pages[p].focused].shell \in Titles
      BY PageType, PaneType
    <2> DEFINE b == IF S.pages[p].custom THEN "custom"
                    ELSE IF S.pages[p].focused = NoPane THEN "Terminal"
                    ELSE S.panes[S.pages[p].focused].shell
    <2>2. b \in Titles \union {"Terminal", "custom"}  BY <2>1
    <2>3. (S.pages[p].zoomed # NoPane) \in BOOLEAN  OBVIOUS
    <2> HIDE DEF b
    <2>4. [zoom |-> S.pages[p].zoomed # NoPane, base |-> b]
            \in [zoom : BOOLEAN, base : Titles \union {"Terminal", "custom"}]
      BY <2>2, <2>3, Zenon
    <2>5. QED  BY <2>4 DEF TitleFor, b
  <1>4. r \in PageRecord
    <2> HIDE DEF TitleFor
    <2>1. QED  BY <1>2, <1>3, Zenon DEF PageRecord
  <1>5. r.focused = S.pages[p].focused /\ r.zoomed = S.pages[p].zoomed
        /\ r.hidden = S.pages[p].hidden /\ r.title = TitleFor(S, p)
    BY <1>2 DEF PageRecord
  <1>6. r.custom = S.pages[p].custom /\ r.pinned = S.pages[p].pinned
    BY <1>2, Zenon DEF PageRecord
  <1> HIDE DEF r
  <1>7. R \in Screens  BY <1>1, <1>4, OneExcept
  <1>8. R.panes = S.panes /\ SameRest(S, R) /\ R.pages = [S.pages EXCEPT ![p] = r]
    BY <1>1 DEF Screens, SameRest
  <1>9. R.pages[p] = r /\ \A q \in Pages \ {p} : R.pages[q] = S.pages[q]  BY <1>2, <1>8
  <1>10. QED  BY <1>5, <1>6, <1>7, <1>8, <1>9 DEF SameZoom

\* Dimmed changes the scrims in the pages of P, to what they should be.
LEMMA DimFacts ==
  ASSUME NEW S \in Screens, NEW P \in SUBSET Pages, NEW R, R = Dimmed(S, P)
  PROVE  /\ R \in Screens /\ R.pages = S.pages /\ SameRest(S, R)
         /\ \A t \in Panes : SamePane(S, R, t)
         /\ \A t \in Panes : S.panes[t].page \notin P => R.panes[t] = S.panes[t]
         /\ \A t \in Panes : S.panes[t].page \in P =>
              (R.panes[t].scrim <=> /\ S.dim
                                    /\ Cardinality(Leaves(S, S.panes[t].page)) > 1
                                    /\ t # S.pages[S.panes[t].page].focused)
  <1> DEFINE b(t) == /\ S.dim
                     /\ Cardinality(Leaves(S, S.panes[t].page)) > 1
                     /\ t # S.pages[S.panes[t].page].focused
             f == [t \in Panes |-> IF S.panes[t].page \in P
                                   THEN [S.panes[t] EXCEPT !.scrim = b(t)] ELSE S.panes[t]]
  <1>1. R = [S EXCEPT !.panes = f]  BY DEF Dimmed
  <1>2. ASSUME NEW t \in Panes
        PROVE  /\ [S.panes[t] EXCEPT !.scrim = b(t)] \in PaneRecord
               /\ [S.panes[t] EXCEPT !.scrim = b(t)].page = S.panes[t].page
               /\ [S.panes[t] EXCEPT !.scrim = b(t)].path = S.panes[t].path
               /\ [S.panes[t] EXCEPT !.scrim = b(t)].bridge = S.panes[t].bridge
               /\ [S.panes[t] EXCEPT !.scrim = b(t)].death = S.panes[t].death
               /\ [S.panes[t] EXCEPT !.scrim = b(t)].shell = S.panes[t].shell
               /\ [S.panes[t] EXCEPT !.scrim = b(t)].scrim = b(t)
    <2>1. PICK r \in PaneRecord : r = S.panes[t]  BY PaneType
    <2>2. PICK c \in BOOLEAN : c = b(t)  OBVIOUS
    <2> HIDE DEF b
    <2>3. [r EXCEPT !.scrim = c] \in PaneRecord  BY Zenon DEF PaneRecord
    <2>4. [r EXCEPT !.scrim = c].page = r.page /\ [r EXCEPT !.scrim = c].path = r.path
          /\ [r EXCEPT !.scrim = c].bridge = r.bridge /\ [r EXCEPT !.scrim = c].death = r.death
          /\ [r EXCEPT !.scrim = c].shell = r.shell
      BY DEF PaneRecord
    <2>5. [r EXCEPT !.scrim = c].scrim = c  BY Zenon DEF PaneRecord
    <2>6. QED  BY <2>1, <2>2, <2>3, <2>4, <2>5
  <1> HIDE DEF b
  <1>3. \A t \in Panes : f[t] \in PaneRecord  BY <1>2, PaneType
  <1>4. f \in [Panes -> PaneRecord]  BY <1>3
  <1>5. \A t \in Panes : S.panes[t].page \in P => f[t] = [S.panes[t] EXCEPT !.scrim = b(t)]
    OBVIOUS
  <1>6. \A t \in Panes : S.panes[t].page \notin P => f[t] = S.panes[t]  OBVIOUS
  <1> HIDE DEF f
  <1>7. R \in Screens  BY <1>1, <1>4, ScreenExcept
  <1>8. R.pages = S.pages /\ SameRest(S, R) /\ R.panes = f  BY <1>1 DEF Screens, SameRest
  <1>9. ASSUME NEW t \in Panes PROVE SamePane(S, R, t)
    BY <1>2, <1>5, <1>6, <1>8 DEF SamePane
  <1>10. \A t \in Panes : S.panes[t].page \notin P => R.panes[t] = S.panes[t]  BY <1>6, <1>8
  <1>11. ASSUME NEW t \in Panes, S.panes[t].page \in P PROVE R.panes[t].scrim = b(t)
    BY <1>2, <1>5, <1>8, <1>11
  <1>12. QED  BY <1>7, <1>8, <1>9, <1>10, <1>11 DEF b

\* SetFocused moves the focus, and the title and the scrims with it.
LEMMA FocusFacts ==
  ASSUME NEW S \in Screens, NEW p \in Pages, NEW t \in Panes, NEW R, R = SetFocused(S, p, t)
  PROVE  /\ R \in Screens /\ SameRest(S, R)
         /\ \A q \in Pages \ {p} : R.pages[q] = S.pages[q]
         /\ SameZoom(S, R, p) /\ R.pages[p].focused = t
         /\ R.pages[p].title = TitleFor(R, p)
         /\ \A u \in Panes : SamePane(S, R, u)
         /\ \A u \in Panes : S.panes[u].page # p => R.panes[u] = S.panes[u]
         /\ \A u \in Leaves(S, p) :
              R.panes[u].scrim <=> S.dim /\ Cardinality(Leaves(S, p)) > 1 /\ u # t
  <1> DEFINE r == [S.pages[p] EXCEPT !.focused = t]
  <1>1. PICK S1 : S1 = [S EXCEPT !.pages[p] = r]  OBVIOUS
  <1>2. S.pages[p] \in PageRecord /\ S.pages \in [Pages -> PageRecord]  BY PageType, ScreenType
  <1>3. r \in PageRecord  BY <1>2, Zenon DEF PageRecord
  <1>4. r.focused = t /\ r.zoomed = S.pages[p].zoomed /\ r.hidden = S.pages[p].hidden
    BY <1>2 DEF PageRecord
  <1>5. r.custom = S.pages[p].custom /\ r.pinned = S.pages[p].pinned
    BY <1>2, Zenon DEF PageRecord
  <1>6. S1 = [S EXCEPT !.pages[p].focused = t]  BY <1>1
  <1> HIDE DEF r
  <1>7. S1 \in Screens  BY <1>1, <1>3, OneExcept
  <1>8. S1.panes = S.panes /\ SameRest(S, S1) /\ S1.pages = [S.pages EXCEPT ![p] = r]
    BY <1>1 DEF Screens, SameRest
  <1>9. S1.pages[p] = r /\ \A q \in Pages \ {p} : S1.pages[q] = S.pages[q]  BY <1>2, <1>8
  <1>10. PICK S2 : S2 = UpdateTitle(S1, p)  OBVIOUS
  <1>11. /\ S2 \in Screens /\ S2.panes = S1.panes /\ SameRest(S1, S2)
         /\ \A q \in Pages \ {p} : S2.pages[q] = S1.pages[q]
         /\ SameZoom(S1, S2, p) /\ S2.pages[p].focused = S1.pages[p].focused
         /\ S2.pages[p].title = TitleFor(S1, p)
    BY <1>7, <1>10, TitleFacts
  <1>12. R = Dimmed(S2, {p})  BY <1>6, <1>10 DEF SetFocused, UpdateDimming
  <1>13. {p} \in SUBSET Pages  OBVIOUS
  <1>14. /\ R \in Screens /\ R.pages = S2.pages /\ SameRest(S2, R)
         /\ \A u \in Panes : SamePane(S2, R, u)
         /\ \A u \in Panes : S2.panes[u].page \notin {p} => R.panes[u] = S2.panes[u]
         /\ \A u \in Panes : S2.panes[u].page \in {p} =>
              (R.panes[u].scrim <=> /\ S2.dim
                                    /\ Cardinality(Leaves(S2, S2.panes[u].page)) > 1
                                    /\ u # S2.pages[S2.panes[u].page].focused)
    BY <1>11, <1>12, <1>13, DimFacts
  <1>15. SameRest(S, R)  BY <1>8, <1>11, <1>14 DEF SameRest
  <1>16. \A q \in Pages \ {p} : R.pages[q] = S.pages[q]  BY <1>9, <1>11, <1>14
  <1>17. SameZoom(S, R, p) /\ R.pages[p].focused = t
    <2>1. SameZoom(S, S1, p)  BY <1>4, <1>5, <1>9 DEF SameZoom
    <2>2. SameZoom(S, S2, p)  BY <2>1, <1>11, Zenon DEF SameZoom
    <2>3. QED  BY <2>2, <1>4, <1>9, <1>11, <1>14, Zenon DEF SameZoom
  <1>18. \A u \in Panes : SamePane(S, R, u)  BY <1>8, <1>11, <1>14 DEF SamePane
  <1>19. \A u \in Panes : S.panes[u].page # p => R.panes[u] = S.panes[u]  BY <1>8, <1>11, <1>14
  <1>20. R.pages[p].title = TitleFor(R, p)
    <2>1. R.pages[p].title = TitleFor(S1, p)  BY <1>11, <1>14
    <2>2. R.pages[p].zoomed = S1.pages[p].zoomed /\ R.pages[p].focused = S1.pages[p].focused
      BY <1>4, <1>9, <1>17 DEF SameZoom
    <2>3. R.pages[p].custom = S1.pages[p].custom  BY <1>5, <1>9, <1>17, Zenon DEF SameZoom
    <2>4. R.panes[t].shell = S1.panes[t].shell  BY <1>8, <1>18 DEF SamePane
    <2>5. S1.pages[p].focused = t  BY <1>4, <1>9
    <2>6. TitleFor(S1, p) = TitleFor(R, p)  BY <2>2, <2>3, <2>4, <2>5 DEF TitleFor
    <2>7. QED  BY <2>1, <2>6
  <1>21. ASSUME NEW u \in Leaves(S, p)
         PROVE  R.panes[u].scrim <=> S.dim /\ Cardinality(Leaves(S, p)) > 1 /\ u # t
    <2>1. u \in Panes /\ S2.panes[u].page = p  BY <1>8, <1>11 DEF Leaves
    <2>2. Leaves(S2, p) = Leaves(S, p)  BY <1>8, <1>11 DEF Leaves
    <2>3. S2.dim = S.dim /\ S2.pages[p].focused = t  BY <1>4, <1>8, <1>9, <1>11 DEF SameRest
    <2>4. QED  BY <1>14, <2>1, <2>2, <2>3
  <1>22. QED  BY <1>14, <1>15, <1>16, <1>17, <1>18, <1>19, <1>20, <1>21

-----------------------------------------------------------------------------
(* What the operators on a page preserve *)

\* A page is as before if its record and its leaves are.
LEMMA PageFrame ==
  ASSUME NEW S, NEW R, NEW p, PageOK(S, p),
         R.pages[p] = S.pages[p], R.dim = S.dim, Leaves(R, p) = Leaves(S, p),
         \A t \in Leaves(S, p) : /\ R.panes[t].path = S.panes[t].path
                                 /\ R.panes[t].shell = S.panes[t].shell
                                 /\ R.panes[t].scrim = S.panes[t].scrim
  PROVE  PageOK(R, p)
  <1>1. TreeOK(R, p)
    <2>1. FullTree(Leaves(S, p), Paths(S))  BY DEF PageOK, TreeOK
    <2>2. \A t \in Leaves(S, p) : Paths(R)[t] = Paths(S)[t]  BY DEF Paths, Leaves
    <2>3. FullTree(Leaves(S, p), Paths(R))  BY <2>1, <2>2, SameTree
    <2>4. QED  BY <2>3 DEF TreeOK
  <1>2. FocusOK(R, p)  BY DEF PageOK, FocusOK
  <1>3. ZoomOK(R, p)
    <2>1. S.pages[p].zoomed # NoPane => S.pages[p].focused \in Leaves(S, p)
      BY DEF PageOK, FocusOK, ZoomOK, ZoomFits
    <2>2. \A z \in Leaves(S, p) : Around(R, z) = Around(S, z)  BY DEF Around
    <2>3. QED  BY <2>1, <2>2 DEF PageOK, ZoomOK, ZoomFits
  <1>4. DimOK(R, p)  BY DEF PageOK, DimOK
  <1>5. TitleOK(R, p)
    <2>1. S.pages[p].focused # NoPane => S.pages[p].focused \in Leaves(S, p)
      BY DEF PageOK, FocusOK
    <2>2. S.pages[p].focused # NoPane => TitleFor(R, p) = TitleFor(S, p)  BY <2>1 DEF TitleFor
    <2>3. QED  BY <2>2 DEF PageOK, TitleOK
  <1>6. QED  BY <1>1, <1>2, <1>3, <1>4, <1>5 DEF PageOK

\* The page and its leaves are as before, as far as the page shows them.
SamePage(S, R, p) ==
  /\ R.pages[p] = S.pages[p] /\ R.dim = S.dim /\ Leaves(R, p) = Leaves(S, p)
  /\ \A t \in Leaves(S, p) : /\ R.panes[t].path = S.panes[t].path
                             /\ R.panes[t].shell = S.panes[t].shell
                             /\ R.panes[t].scrim = S.panes[t].scrim

\* The same, in one word.
LEMMA SamePageIsOK ==
  ASSUME NEW S, NEW R, NEW p, PageOK(S, p), SamePage(S, R, p)
  PROVE  PageOK(R, p)
  BY PageFrame DEF SamePage

\* Giving the focus to a leaf makes the page right, whatever it was before.
LEMMA SetFocusedRight ==
  ASSUME NEW S, NEW p \in Pages, NEW t \in Leaves(S, p), NEW R, R = SetFocused(S, p, t),
         AllButPage(S, p), TreeOK(S, p), ZoomFits(S, p, t)
  PROVE  AllButPage(R, p) /\ PageOK(R, p)
  <1>1. S \in Screens /\ t \in Panes  BY DEF AllButPage, Leaves
  <1>2. /\ R \in Screens /\ SameRest(S, R)
        /\ \A q \in Pages \ {p} : R.pages[q] = S.pages[q]
        /\ SameZoom(S, R, p) /\ R.pages[p].focused = t
        /\ R.pages[p].title = TitleFor(R, p)
        /\ \A u \in Panes : SamePane(S, R, u)
        /\ \A u \in Panes : S.panes[u].page # p => R.panes[u] = S.panes[u]
        /\ \A u \in Leaves(S, p) :
             R.panes[u].scrim <=> S.dim /\ Cardinality(Leaves(S, p)) > 1 /\ u # t
    BY <1>1, FocusFacts
  <1>3. \A q : Leaves(R, q) = Leaves(S, q)  BY <1>2 DEF Leaves, SamePane
  <1>4. ASSUME NEW w \in Windows PROVE DialogOK(R, w)
    BY <1>2 DEF AllButPage, DialogOK, SameRest
  <1>5. ASSUME NEW q \in Pages \ {p} PROVE PageOK(R, q)
    <2>1. PageOK(S, q) /\ R.pages[q] = S.pages[q] /\ R.dim = S.dim /\ Leaves(R, q) = Leaves(S, q)
      BY <1>2, <1>3, <1>5 DEF AllButPage, SameRest
    <2>2. \A u \in Leaves(S, q) : R.panes[u] = S.panes[u]  BY <1>2, <1>5 DEF Leaves
    <2>3. QED  BY <2>1, <2>2, PageFrame
  <1>6. PageOK(R, p)
    <2>1. TreeOK(R, p)
      <3>1. \A u \in Leaves(S, p) : Paths(R)[u] = Paths(S)[u]
        BY <1>2 DEF Paths, Leaves, SamePane
      <3>2. FullTree(Leaves(S, p), Paths(R))  BY <3>1, SameTree DEF TreeOK
      <3>3. QED  BY <1>3, <3>2 DEF TreeOK
    <2>2. FocusOK(R, p)  BY <1>2, <1>3 DEF FocusOK
    <2>3. ZoomOK(R, p)
      <3>1. Around(R, t) = Around(S, t)  BY <1>1, <1>2 DEF Around, SamePane
      <3>2. QED  BY <1>2, <3>1 DEF ZoomOK, ZoomFits, SameZoom
    <2>4. DimOK(R, p)
      <3>1. ASSUME NEW u \in Leaves(S, p)
            PROVE  R.panes[u].scrim <=> S.dim /\ t \in Leaves(S, p) \ {u}
        <4>1. u # t => Cardinality(Leaves(S, p)) > 1  BY <3>1, LeavesCount
        <4>2. QED  BY <1>2, <3>1, <4>1
      <3>2. QED  BY <1>2, <1>3, <3>1 DEF DimOK, SameRest
    <2>5. TitleOK(R, p)  BY <1>2 DEF TitleOK
    <2>6. QED  BY <2>1, <2>2, <2>3, <2>4, <2>5 DEF PageOK
  <1>7. QED  BY <1>2, <1>4, <1>5, <1>6 DEF AllButPage

\* A sound page may give the focus to another leaf when it is not zoomed.
LEMMA RefocusSound ==
  ASSUME NEW S, Sound(S), NEW p \in Pages, NEW t \in Leaves(S, p),
         NEW R, R = SetFocused(S, p, t),
         S.pages[p].zoomed = NoPane \/ S.pages[p].focused = t
  PROVE  Sound(R)
  <1>1. AllButPage(S, p) /\ TreeOK(S, p)  BY DEF Sound, AllButPage, PageOK
  <1>2. ZoomFits(S, p, t)
    BY DEF Sound, PageOK, ZoomOK, ZoomFits
  <1>3. AllButPage(R, p) /\ PageOK(R, p)  BY <1>1, <1>2, SetFocusedRight
  <1>4. \A u \in Panes : SamePane(S, R, u)  BY <1>1, FocusFacts DEF AllButPage, Leaves
  <1>5. \A u \in Panes : BridgeOK(R, u)  BY <1>4 DEF Sound, BridgeOK, SamePane
  <1>6. QED  BY <1>3, <1>5 DEF Sound, AllButPage

\* FocusTerminal focuses a leaf, or there is none.
LEMMA FocusTerminalSound ==
  ASSUME NEW S, Sound(S), NEW p \in Pages, NEW R, R = FocusTerminal(S, p)
  PROVE  /\ Sound(R) /\ SameRest(S, R)
         /\ \A u \in Panes : SamePane(S, R, u)
         /\ \A q \in Pages : SameZoom(S, R, q)
  <1>1. S \in Screens /\ PageOK(S, p)  BY DEF Sound
  <1> DEFINE t == IF S.pages[p].focused # NoPane THEN S.pages[p].focused
                  ELSE FirstTerminal(S, Leaves(S, p))
  <1>2. t = NoPane \/ t \in Leaves(S, p)
    <2>1. CASE S.pages[p].focused # NoPane  BY <1>1, <2>1 DEF PageOK, FocusOK
    <2>2. CASE S.pages[p].focused = NoPane /\ Leaves(S, p) = {}
      BY <2>2 DEF FirstTerminal
    <2>3. CASE S.pages[p].focused = NoPane /\ Leaves(S, p) # {}
      <3>1. \A u \in Leaves(S, p) : S.panes[u].path \in Path  BY <1>1, PaneType DEF Leaves
      <3>2. \A u \in Leaves(S, p) : \A v \in Leaves(S, p) \ {u} :
              Fork(S.panes[u].path, S.panes[v].path)
        BY <1>1 DEF PageOK, TreeOK, FullTree, Paths, Leaves
      <3>3. FirstTerminal(S, Leaves(S, p)) \in Leaves(S, p)
        BY <2>3, <3>1, <3>2, LeavesFinite, FirstIsOne
      <3>4. QED  BY <2>3, <3>3
    <2>4. QED  BY <2>1, <2>2, <2>3
  <1>3. R = IF t = NoPane THEN S ELSE SetFocused(S, p, t)  BY DEF FocusTerminal
  <1>4. S.pages[p].zoomed # NoPane => S.pages[p].focused = t
    BY <1>1 DEF PageOK, ZoomOK, ZoomFits
  <1> HIDE DEF t
  <1>5. CASE t = NoPane  BY <1>3, <1>5 DEF SameRest, SamePane, SameZoom
  <1>6. CASE t # NoPane
    <2>1. t \in Leaves(S, p) /\ t \in Panes /\ R = SetFocused(S, p, t)
      BY <1>2, <1>3, <1>6 DEF Leaves
    <2>2. Sound(R)  BY <1>4, <2>1, RefocusSound
    <2>3. SameRest(S, R) /\ (\A u \in Panes : SamePane(S, R, u)) /\ SameZoom(S, R, p)
          /\ \A q \in Pages \ {p} : R.pages[q] = S.pages[q]
      BY <1>1, <2>1, FocusFacts
    <2>4. \A q \in Pages : SameZoom(S, R, q)  BY <2>3 DEF SameZoom
    <2>5. QED  BY <2>2, <2>3, <2>4
  <1>7. QED  BY <1>5, <1>6

\* Unzoom shows everything and leaves the rest.
LEMMA UnzoomSound ==
  ASSUME NEW S, Sound(S), NEW p \in Pages, NEW R, R = Unzoom(S, p)
  PROVE  /\ Sound(R) /\ R.panes = S.panes /\ SameRest(S, R)
         /\ R.pages[p].zoomed = NoPane /\ R.pages[p].hidden = {}
         /\ R.pages[p].focused = S.pages[p].focused
         /\ R.pages[p].pinned = S.pages[p].pinned
         /\ \A q \in Pages \ {p} : R.pages[q] = S.pages[q]
  <1>1. S \in Screens /\ PageOK(S, p) /\ S.pages[p] \in PageRecord /\ S.pages \in [Pages -> PageRecord]
    BY PageType, ScreenType DEF Sound
  <1>2. CASE S.pages[p].zoomed = NoPane
    <2>1. R = S  BY <1>2 DEF Unzoom
    <2>2. QED  BY <1>1, <1>2, <2>1 DEF SameRest, PageOK, ZoomOK, ZoomFits
  <1>3. CASE S.pages[p].zoomed # NoPane
    <2> DEFINE r == [S.pages[p] EXCEPT !.zoomed = NoPane, !.hidden = {}]
    <2>1. PICK S1 : S1 = [S EXCEPT !.pages[p] = r]  OBVIOUS
    <2>2. r \in PageRecord
      <3>1. NoPane \in Panes \union {NoPane} /\ {} \in SUBSET Path  OBVIOUS
      <3>2. [S.pages[p] EXCEPT !.zoomed = NoPane] \in PageRecord  BY <1>1, <3>1, Zenon DEF PageRecord
      <3>3. PICK s \in PageRecord : s = [S.pages[p] EXCEPT !.zoomed = NoPane]  BY <3>2
      <3>4. [s EXCEPT !.hidden = {}] \in PageRecord  BY <3>1, Zenon DEF PageRecord
      <3>5. QED  BY <3>3, <3>4
    <2>3. r.focused = S.pages[p].focused /\ r.zoomed = NoPane /\ r.hidden = {}
      BY <1>1 DEF PageRecord
    <2>4. r.custom = S.pages[p].custom /\ r.pinned = S.pages[p].pinned
      BY <1>1, Zenon DEF PageRecord
    <2>5. R = UpdateTitle(S1, p)
      <3>1. S1 = [S EXCEPT !.pages[p].zoomed = NoPane, !.pages[p].hidden = {}]  BY <2>1
      <3>2. QED  BY <1>3, <3>1 DEF Unzoom
    <2> HIDE DEF r
    <2>6. S1 \in Screens  BY <1>1, <2>1, <2>2, OneExcept
    <2>7. S1.panes = S.panes /\ SameRest(S, S1) /\ S1.pages = [S.pages EXCEPT ![p] = r]
      BY <1>1, <2>1 DEF Screens, SameRest
    <2>8. S1.pages[p] = r /\ \A q \in Pages \ {p} : S1.pages[q] = S.pages[q]  BY <1>1, <2>7
    <2>9. /\ R \in Screens /\ R.panes = S1.panes /\ SameRest(S1, R)
          /\ \A q \in Pages \ {p} : R.pages[q] = S1.pages[q]
          /\ SameZoom(S1, R, p) /\ R.pages[p].focused = S1.pages[p].focused
          /\ R.pages[p].title = TitleFor(S1, p)
      BY <2>5, <2>6, TitleFacts
    <2>10. R.panes = S.panes /\ SameRest(S, R) /\ \A q \in Pages \ {p} : R.pages[q] = S.pages[q]
      BY <2>7, <2>8, <2>9 DEF SameRest
    <2>11. R.pages[p].zoomed = NoPane /\ R.pages[p].hidden = {}
           /\ R.pages[p].focused = S.pages[p].focused
      BY <2>3, <2>8, <2>9 DEF SameZoom
    <2>12. R.pages[p].pinned = S.pages[p].pinned /\ R.pages[p].custom = S1.pages[p].custom
      BY <2>4, <2>8, <2>9, Zenon DEF SameZoom
    <2>13. R.pages[p].title = TitleFor(R, p)
      <3>1. TitleFor(S1, p) = TitleFor(R, p)  BY <2>9, <2>12 DEF TitleFor, SameZoom
      <3>2. QED  BY <2>9, <3>1
    <2>14. \A q : Leaves(R, q) = Leaves(S, q)  BY <2>10 DEF Leaves
    <2>15. PageOK(R, p)
      <3>1. TreeOK(R, p)  BY <1>1, <2>10, <2>14 DEF PageOK, TreeOK, Paths
      <3>2. FocusOK(R, p)  BY <1>1, <2>10, <2>11, <2>14 DEF PageOK, FocusOK
      <3>3. ZoomOK(R, p)  BY <2>11 DEF ZoomOK, ZoomFits
      <3>4. DimOK(R, p)  BY <1>1, <2>10, <2>11, <2>14 DEF PageOK, DimOK, SameRest
      <3>5. QED  BY <2>13, <3>1, <3>2, <3>3, <3>4 DEF PageOK, TitleOK
    <2>16. ASSUME NEW q \in Pages \ {p} PROVE PageOK(R, q)
      <3>1. PageOK(S, q) /\ R.pages[q] = S.pages[q] /\ R.dim = S.dim
        BY <2>10, <2>16 DEF Sound, SameRest
      <3>2. QED  BY <2>10, <2>14, <3>1, PageFrame
    <2>17. \A t \in Panes : BridgeOK(R, t)  BY <2>10 DEF Sound, BridgeOK
    <2>18. \A w \in Windows : DialogOK(R, w)  BY <2>10 DEF Sound, DialogOK, SameRest
    <2>19. QED  BY <2>9, <2>10, <2>11, <2>12, <2>15, <2>16, <2>17, <2>18 DEF Sound
  <1>4. QED  BY <1>2, <1>3

\* ApplyZoom hides what is around the focused leaf.
LEMMA ApplyZoomSound ==
  ASSUME NEW S, Sound(S), NEW p \in Pages, S.pages[p].focused # NoPane,
         S.pages[p].zoomed = NoPane,
         NEW R, R = ApplyZoom(S, p, S.pages[p].focused)
  PROVE  /\ Sound(R) /\ R.panes = S.panes /\ SameRest(S, R)
         /\ \A q \in Pages : R.pages[q].pinned = S.pages[q].pinned
  <1> DEFINE t == S.pages[p].focused
             n == S.panes[t].path
  <1>1. S \in Screens /\ PageOK(S, p) /\ S.pages[p] \in PageRecord /\ S.pages \in [Pages -> PageRecord]
    BY PageType, ScreenType DEF Sound
  <1>2. t \in Leaves(S, p) /\ t \in Panes  BY <1>1 DEF PageOK, FocusOK, Leaves
  <1>3. n \in Path  BY <1>1, <1>2, PaneType
  <1>4. S.pages[p].hidden = {}  BY <1>1 DEF PageOK, ZoomOK, ZoomFits
  <1>5. CASE n = <<>>
    <2>1. R = S  BY <1>5 DEF ApplyZoom
    <2>2. QED  BY <2>1 DEF SameRest
  <1>6. CASE n # <<>>
    <2> DEFINE r == [S.pages[p] EXCEPT !.zoomed = t, !.hidden = Around(S, t)]
    <2>1. PICK S1 : S1 = [S EXCEPT !.pages[p] = r]  OBVIOUS
    <2>2. Around(S, t) \in SUBSET Path
      <3>1. \A i \in 1..Len(n) : Sibling(SubSeq(n, 1, i)) \in Path  BY <1>3, BelowSiblings
      <3>2. QED  BY <3>1 DEF Around
    <2>3. PICK h \in SUBSET Path : h = Around(S, t)  BY <2>2
    <2>4. r \in PageRecord
      <3>1. PICK z \in Panes : z = t  BY <1>2
      <3>2. z \in Panes \union {NoPane}  OBVIOUS
      <3>3. [S.pages[p] EXCEPT !.zoomed = z] \in PageRecord  BY <1>1, <3>2, Zenon DEF PageRecord
      <3>4. PICK s \in PageRecord : s = [S.pages[p] EXCEPT !.zoomed = z]  BY <3>3
      <3>5. [s EXCEPT !.hidden = h] \in PageRecord  BY Zenon DEF PageRecord
      <3>6. r = [s EXCEPT !.hidden = h]  BY <2>3, <3>1, <3>4
      <3>7. QED  BY <3>5, <3>6
    <2>5. r.focused = t /\ r.zoomed = t /\ r.hidden = Around(S, t)
      BY <1>1 DEF PageRecord
    <2>6. r.custom = S.pages[p].custom /\ r.pinned = S.pages[p].pinned
      BY <1>1, Zenon DEF PageRecord
    <2>7. R = UpdateTitle(S1, p)
      <3>1. S.pages[p].hidden \union {Sibling(SubSeq(n, 1, i)) : i \in 1..Len(n)} = Around(S, t)
        BY <1>4 DEF Around
      <3>2. [S EXCEPT !.pages[p].zoomed = t,
                      !.pages[p].hidden = @ \union {Sibling(SubSeq(n, 1, i)) : i \in 1..Len(n)}]
            = [S EXCEPT !.pages[p].zoomed = t, !.pages[p].hidden = Around(S, t)]
        <4>1. PICK x : x = {Sibling(SubSeq(n, 1, i)) : i \in 1..Len(n)}  OBVIOUS
        <4>2. S.pages[p].hidden \union x = Around(S, t)  BY <3>1, <4>1
        <4>3. [S EXCEPT !.pages[p].zoomed = t, !.pages[p].hidden = @ \union x]
              = [S EXCEPT !.pages[p].zoomed = t, !.pages[p].hidden = Around(S, t)]
          <5>1. [S.pages[p] EXCEPT !.zoomed = t].hidden = S.pages[p].hidden
            BY <1>1 DEF PageRecord
          <5>2. QED  BY <1>1, <4>2, <5>1 DEF Screens
        <4>4. QED  BY <4>1, <4>3
      <3>3. S1 = [S EXCEPT !.pages[p].zoomed = t, !.pages[p].hidden = Around(S, t)]
        BY <2>1
      <3>4. QED  BY <1>6, <3>2, <3>3 DEF ApplyZoom
    <2> HIDE DEF r
    <2>8. S1 \in Screens  BY <1>1, <2>1, <2>4, OneExcept
    <2>9. S1.panes = S.panes /\ SameRest(S, S1) /\ S1.pages = [S.pages EXCEPT ![p] = r]
      BY <1>1, <2>1 DEF Screens, SameRest
    <2>10. S1.pages[p] = r /\ \A q \in Pages \ {p} : S1.pages[q] = S.pages[q]  BY <1>1, <2>9
    <2>11. /\ R \in Screens /\ R.panes = S1.panes /\ SameRest(S1, R)
           /\ \A q \in Pages \ {p} : R.pages[q] = S1.pages[q]
           /\ SameZoom(S1, R, p) /\ R.pages[p].focused = S1.pages[p].focused
           /\ R.pages[p].title = TitleFor(S1, p)
      BY <2>7, <2>8, TitleFacts
    <2>12. R.panes = S.panes /\ SameRest(S, R) /\ \A q \in Pages \ {p} : R.pages[q] = S.pages[q]
      BY <2>9, <2>10, <2>11 DEF SameRest
    <2>13. R.pages[p].zoomed = t /\ R.pages[p].hidden = Around(S, t) /\ R.pages[p].focused = t
      BY <2>5, <2>10, <2>11 DEF SameZoom
    <2>14. R.pages[p].pinned = S.pages[p].pinned /\ R.pages[p].custom = S1.pages[p].custom
      BY <2>6, <2>10, <2>11, Zenon DEF SameZoom
    <2>15. R.pages[p].title = TitleFor(R, p)
      <3>1. TitleFor(S1, p) = TitleFor(R, p)  BY <2>11, <2>14 DEF TitleFor, SameZoom
      <3>2. QED  BY <2>11, <3>1
    <2>16. \A q : Leaves(R, q) = Leaves(S, q)  BY <2>12 DEF Leaves
    <2>17. PageOK(R, p)
      <3>1. TreeOK(R, p)  BY <1>1, <2>12, <2>16 DEF PageOK, TreeOK, Paths
      <3>2. FocusOK(R, p)  BY <1>2, <2>13, <2>16 DEF FocusOK
      <3>3. ZoomOK(R, p)
        <4>1. Around(R, t) = Around(S, t)  BY <2>12 DEF Around
        <4>2. QED  BY <2>13, <4>1, <1>2, TabsConstants DEF ZoomOK, ZoomFits
      <3>4. DimOK(R, p)  BY <1>1, <2>12, <2>13, <2>16 DEF PageOK, DimOK, SameRest
      <3>5. QED  BY <2>15, <3>1, <3>2, <3>3, <3>4 DEF PageOK, TitleOK
    <2>18. ASSUME NEW q \in Pages \ {p} PROVE PageOK(R, q)
      <3>1. PageOK(S, q) /\ R.pages[q] = S.pages[q] /\ R.dim = S.dim
        BY <2>12, <2>18 DEF Sound, SameRest
      <3>2. QED  BY <2>12, <2>16, <3>1, PageFrame
    <2>19. \A u \in Panes : BridgeOK(R, u)  BY <2>12 DEF Sound, BridgeOK
    <2>20. \A w \in Windows : DialogOK(R, w)  BY <2>12 DEF Sound, DialogOK, SameRest
    <2>21. \A q \in Pages : R.pages[q].pinned = S.pages[q].pinned  BY <2>12, <2>14
    <2>22. Sound(R)  BY <2>11, <2>17, <2>18, <2>19, <2>20 DEF Sound
    <2>23. QED  BY <2>12, <2>21, <2>22
  <1>7. QED  BY <1>5, <1>6

-----------------------------------------------------------------------------
(* What the operators on windows preserve *)

\* The pages do not depend on the windows.
LEMMA WindowFrame ==
  ASSUME NEW S, Sound(S), NEW R \in Screens,
         R.panes = S.panes, R.pages = S.pages, R.dim = S.dim,
         \A w \in Windows : DialogOK(R, w)
  PROVE  Sound(R)
  <1>1. \A t \in Panes : BridgeOK(R, t)  BY DEF Sound, BridgeOK
  <1>2. ASSUME NEW q \in Pages PROVE PageOK(R, q)
    <2>1. PageOK(S, q) /\ R.pages[q] = S.pages[q] /\ Leaves(R, q) = Leaves(S, q)
      BY DEF Sound, Leaves
    <2>2. QED  BY <2>1, PageFrame
  <1>3. QED  BY <1>1, <1>2 DEF Sound

\* R is sound, and S with another record of window w.
SetsWindow(S, R, w, r) ==
  /\ Sound(R) /\ R.panes = S.panes /\ R.pages = S.pages
  /\ R.dim = S.dim /\ R.lost = S.lost
  /\ R.windows[w] = r /\ \A v \in Windows \ {w} : R.windows[v] = S.windows[v]

\* Changing one window.
LEMMA OneWindow ==
  ASSUME NEW S, Sound(S), NEW w \in Windows, NEW r \in WindowRecord,
         NEW R, R = [S EXCEPT !.windows[w] = r], Names(r.dialog)
  PROVE  SetsWindow(S, R, w, r)
  <1>1. S \in Screens /\ R \in Screens  BY OneExcept DEF Sound
  <1>2. /\ R.panes = S.panes /\ R.pages = S.pages /\ R.dim = S.dim /\ R.lost = S.lost
        /\ R.windows = [S.windows EXCEPT ![w] = r]
    BY <1>1 DEF Screens
  <1>3. R.windows[w] = r /\ \A v \in Windows \ {w} : R.windows[v] = S.windows[v]
    BY <1>1, <1>2, ScreenType
  <1>4. \A v \in Windows : DialogOK(R, v)  BY <1>3 DEF Sound, DialogOK
  <1>5. Sound(R)  BY <1>1, <1>2, <1>4, WindowFrame
  <1>6. QED  BY <1>2, <1>3, <1>5 DEF SetsWindow

\* The same window, but for its tabs and its selection.
SameMenu(r, s) ==
  /\ r.open = s.open /\ r.dialog = s.dialog
  /\ r.menuOpen = s.menuOpen /\ r.menuPage = s.menuPage /\ r.menuIdle = s.menuIdle

\* The same window, but for its selection.
SameWindow(r, s) == SameMenu(r, s) /\ r.tabs = s.tabs

\* The same panes and pages, but for the focus, the titles and the scrims.
SamePlaces(S, R) ==
  /\ \A u \in Panes : SamePane(S, R, u)
  /\ \A q \in Pages : R.pages[q].pinned = S.pages[q].pinned
  /\ R.lost = S.lost

\* FocusTerminal leaves everything in its place.
LEMMA SelectSound ==
  ASSUME NEW S, Sound(S), NEW w \in Windows, NEW p \in Pages, NEW R, R = Select(S, w, p)
  PROVE  /\ Sound(R) /\ SamePlaces(S, R) /\ R.dim = S.dim
         /\ R.windows[w].selected = p /\ SameWindow(R.windows[w], S.windows[w])
         /\ \A v \in Windows \ {w} : R.windows[v] = S.windows[v]
  <1> DEFINE r == [S.windows[w] EXCEPT !.selected = p]
  <1>1. S \in Screens /\ S.windows[w] \in WindowRecord /\ DialogOK(S, w)
    BY WindowType DEF Sound
  <1>2. PICK S1 : S1 = [S EXCEPT !.windows[w] = r]  OBVIOUS
  <1>3. r \in WindowRecord
    <2>1. p \in Pages \union {NoPage}  OBVIOUS
    <2>2. QED  BY <1>1, <2>1, Zenon DEF WindowRecord
  <1>4. r.selected = p /\ r.tabs = S.windows[w].tabs /\ r.dialog = S.windows[w].dialog
        /\ r.menuOpen = S.windows[w].menuOpen /\ r.menuPage = S.windows[w].menuPage
    BY <1>1 DEF WindowRecord
  <1>5. r.open = S.windows[w].open /\ r.menuIdle = S.windows[w].menuIdle
    BY <1>1, Zenon DEF WindowRecord
  <1>6. R = FocusTerminal(S1, p)
    <2>1. S1 = [S EXCEPT !.windows[w].selected = p]  BY <1>2
    <2>2. QED  BY <2>1 DEF Select
  <1> HIDE DEF r
  <1>7. SameWindow(r, S.windows[w])  BY <1>4, <1>5, Zenon DEF SameWindow, SameMenu
  <1>8. Names(r.dialog)  BY <1>1, <1>4 DEF DialogOK
  <1>9. /\ Sound(S1) /\ S1.panes = S.panes /\ S1.pages = S.pages
        /\ S1.dim = S.dim /\ S1.lost = S.lost
        /\ S1.windows[w] = r /\ \A v \in Windows \ {w} : S1.windows[v] = S.windows[v]
    <2>1. SetsWindow(S, S1, w, r)  BY <1>2, <1>3, <1>8, OneWindow
    <2>2. QED  BY <2>1 DEF SetsWindow
  <1>10. /\ Sound(R) /\ SameRest(S1, R)
         /\ \A u \in Panes : SamePane(S1, R, u)
         /\ \A q \in Pages : SameZoom(S1, R, q)
    BY <1>6, <1>9, FocusTerminalSound
  <1>11. SamePlaces(S, R)
    <2>1. \A q \in Pages : R.pages[q].pinned = S.pages[q].pinned  BY <1>9, <1>10, Zenon DEF SameZoom
    <2>2. QED  BY <1>9, <1>10, <2>1 DEF SamePlaces, SamePane, SameRest
  <1>12. QED  BY <1>4, <1>7, <1>9, <1>10, <1>11 DEF SameRest

\* Destroying pages leaves the other ones as they are.
LEMMA DestroySound ==
  ASSUME NEW S, Sound(S), NEW P \in SUBSET Pages, NEW R, R = DestroyAll(S, P)
  PROVE  /\ Sound(R) /\ R.dim = S.dim /\ R.lost = S.lost
         /\ \A t \in Panes : R.panes[t] = IF S.panes[t].page \in P THEN NoPaneRecord ELSE S.panes[t]
         /\ \A q \in Pages : R.pages[q] = IF q \in P THEN NoPageRecord ELSE S.pages[q]
         /\ \A v \in Windows :
              /\ R.windows[v].open = S.windows[v].open /\ R.windows[v].tabs = S.windows[v].tabs
              /\ R.windows[v].dialog = S.windows[v].dialog
              /\ R.windows[v].selected = S.windows[v].selected
              /\ R.windows[v].menuIdle = S.windows[v].menuIdle
              /\ R.windows[v].menuPage =
                   IF S.windows[v].menuPage \in P THEN NoPage ELSE S.windows[v].menuPage
              /\ R.windows[v].menuOpen =
                   IF S.windows[v].menuOpen \in P THEN NoPage ELSE S.windows[v].menuOpen
  <1> DEFINE f == [t \in Panes |-> IF S.panes[t].page \in P THEN NoPaneRecord ELSE S.panes[t]]
             g == [q \in Pages |-> IF q \in P THEN NoPageRecord ELSE S.pages[q]]
             Cleared(v) == [S.windows[v] EXCEPT !.menuPage = IF @ \in P THEN NoPage ELSE @,
                                                !.menuOpen = IF @ \in P THEN NoPage ELSE @]
             h == [v \in Windows |-> Cleared(v)]
  <1>1. S \in Screens  BY DEF Sound
  <1>2. ASSUME NEW v \in Windows
        PROVE  /\ Cleared(v) \in WindowRecord
               /\ Cleared(v).tabs = S.windows[v].tabs /\ Cleared(v).dialog = S.windows[v].dialog
               /\ Cleared(v).selected = S.windows[v].selected
               /\ Cleared(v).menuPage =
                    IF S.windows[v].menuPage \in P THEN NoPage ELSE S.windows[v].menuPage
               /\ Cleared(v).menuOpen =
                    IF S.windows[v].menuOpen \in P THEN NoPage ELSE S.windows[v].menuOpen
               /\ Cleared(v).open = S.windows[v].open
               /\ Cleared(v).menuIdle = S.windows[v].menuIdle
    <2>1. PICK r \in WindowRecord : r = S.windows[v]  BY <1>1, WindowType
    <2>2. PICK a \in Pages \union {NoPage} : a = IF r.menuPage \in P THEN NoPage ELSE r.menuPage
      BY <1>1, <2>1, WindowType
    <2>3. PICK b \in Pages \union {NoPage} : b = IF r.menuOpen \in P THEN NoPage ELSE r.menuOpen
      BY <1>1, <2>1, WindowType
    <2>4. [r EXCEPT !.menuPage = a] \in WindowRecord  BY Zenon DEF WindowRecord
    <2>5. PICK s \in WindowRecord : s = [r EXCEPT !.menuPage = a]  BY <2>4
    <2>6. [s EXCEPT !.menuOpen = b] \in WindowRecord  BY Zenon DEF WindowRecord
    <2>7. s.menuOpen = r.menuOpen  BY <2>5 DEF WindowRecord
    <2>8. Cleared(v) = [s EXCEPT !.menuOpen = b]
      <3>1. Cleared(v) = [r EXCEPT !.menuPage = a, !.menuOpen = b]
        BY <2>1, <2>2, <2>3 DEF WindowRecord
      <3>2. QED  BY <2>5, <3>1
    <2> HIDE DEF Cleared
    <2>9. /\ s.tabs = r.tabs /\ s.dialog = r.dialog /\ s.selected = r.selected /\ s.menuPage = a
      BY <2>5 DEF WindowRecord
    <2>10. s.open = r.open /\ s.menuIdle = r.menuIdle  BY <2>5, Zenon DEF WindowRecord
    <2>11. /\ Cleared(v).tabs = s.tabs /\ Cleared(v).dialog = s.dialog
           /\ Cleared(v).selected = s.selected
           /\ Cleared(v).menuPage = s.menuPage /\ Cleared(v).menuOpen = b
      BY <2>8 DEF WindowRecord
    <2>12. Cleared(v).open = s.open /\ Cleared(v).menuIdle = s.menuIdle
      BY <2>8, Zenon DEF WindowRecord
    <2>13. Cleared(v) \in WindowRecord  BY <2>6, <2>8
    <2>14. Cleared(v).open = r.open /\ Cleared(v).menuIdle = r.menuIdle  BY <2>10, <2>12, Zenon
    <2>15. QED  BY <2>1, <2>2, <2>3, <2>9, <2>11, <2>13, <2>14
  <1>3. PICK f1 : f1 = f  OBVIOUS
  <1>4. PICK g1 : g1 = g  OBVIOUS
  <1>5. PICK h1 : h1 = h  OBVIOUS
  <1>6. R = [S EXCEPT !.panes = f1, !.pages = g1, !.windows = h1]
    BY <1>3, <1>4, <1>5 DEF DestroyAll
  <1>7. \A t \in Panes : f1[t] = IF S.panes[t].page \in P THEN NoPaneRecord ELSE S.panes[t]
    BY <1>3
  <1>8. \A q \in Pages : g1[q] = IF q \in P THEN NoPageRecord ELSE S.pages[q]  BY <1>4
  <1>9. \A v \in Windows : h1[v] = Cleared(v)  BY <1>5
  <1>10. f1 \in [Panes -> PaneRecord]
    <2>1. \A t \in Panes : f[t] \in PaneRecord  BY <1>1, PaneType, NoRecords
    <2>2. QED  BY <1>3, <2>1
  <1>11. g1 \in [Pages -> PageRecord]
    <2>1. \A q \in Pages : g[q] \in PageRecord  BY <1>1, PageType, NoRecords
    <2>2. QED  BY <1>4, <2>1
  <1> HIDE DEF Cleared
  <1>12. h1 \in [Windows -> WindowRecord]  BY <1>2, <1>5
  <1> HIDE DEF f, g, h
  <1>13. R \in Screens
    <2>1. PICK S1 \in Screens : S1 = [S EXCEPT !.panes = f1]  BY <1>1, <1>10, ScreenExcept
    <2>2. PICK S2 \in Screens : S2 = [S1 EXCEPT !.pages = g1]  BY <1>11, ScreenExcept
    <2>3. PICK S3 \in Screens : S3 = [S2 EXCEPT !.windows = h1]  BY <1>12, ScreenExcept
    <2>4. R = S3  BY <1>6, <2>1, <2>2, <2>3
    <2>5. QED  BY <2>4
  <1>14. R.panes = f1 /\ R.pages = g1 /\ R.windows = h1 /\ R.dim = S.dim /\ R.lost = S.lost
    BY <1>1, <1>6 DEF Screens
  <1>15. NoPaneRecord.page = NoPage /\ NoPaneRecord.bridge = NoPage /\ NoPaneRecord.death = "alive"
         /\ NoPage \notin P
    BY TabsConstants DEF NoPaneRecord
  <1>16. ASSUME NEW t \in Panes PROVE BridgeOK(R, t)
    <2>1. CASE S.panes[t].page \in P  BY <1>7, <1>14, <1>15, <2>1 DEF BridgeOK
    <2>2. CASE S.panes[t].page \notin P
      <3>1. R.panes[t] = S.panes[t]  BY <1>7, <1>14, <2>2
      <3>2. QED  BY <3>1 DEF Sound, BridgeOK
    <2>3. QED  BY <2>1, <2>2
  <1>17. ASSUME NEW v \in Windows PROVE DialogOK(R, v)
    <2>1. R.windows[v].dialog = S.windows[v].dialog  BY <1>2, <1>9, <1>14
    <2>2. QED  BY <2>1 DEF Sound, DialogOK
  <1>18. ASSUME NEW q \in Pages PROVE PageOK(R, q)
    <2>1. CASE q \in P
      <3>1. Leaves(R, q) = {}  BY <1>7, <1>14, <1>15, <2>1 DEF Leaves
      <3>2. R.pages[q] = NoPageRecord  BY <1>8, <1>14, <2>1
      <3>3. QED
        BY <3>1, <3>2 DEF PageOK, TreeOK, FullTree, FocusOK, ZoomOK, ZoomFits, DimOK, TitleOK,
                          NoPageRecord
    <2>2. CASE q \notin P
      <3>1. PageOK(S, q) /\ R.pages[q] = S.pages[q]  BY <1>8, <1>14, <2>2 DEF Sound
      <3>2. q # NoPage  BY TabsConstants
      <3>3. Leaves(R, q) = Leaves(S, q)  BY <1>7, <1>14, <1>15, <2>2, <3>2 DEF Leaves
      <3>4. \A t \in Leaves(S, q) : R.panes[t] = S.panes[t]  BY <1>7, <1>14, <2>2 DEF Leaves
      <3>5. QED  BY <1>14, <3>1, <3>3, <3>4, PageFrame
    <2>3. QED  BY <2>1, <2>2
  <1>19. Sound(R)  BY <1>13, <1>16, <1>17, <1>18 DEF Sound
  <1>20. ASSUME NEW v \in Windows
         PROVE  R.windows[v].open = S.windows[v].open /\ R.windows[v].menuIdle = S.windows[v].menuIdle
    BY <1>2, <1>9, <1>14, Zenon
  <1>21. \A t \in Panes : R.panes[t] = IF S.panes[t].page \in P THEN NoPaneRecord ELSE S.panes[t]
    BY <1>7, <1>14
  <1>22. \A q \in Pages : R.pages[q] = IF q \in P THEN NoPageRecord ELSE S.pages[q]
    BY <1>8, <1>14
  <1>23. QED  BY <1>2, <1>9, <1>14, <1>19, <1>20, <1>21, <1>22


-----------------------------------------------------------------------------
(* Tabs *)

\* The sequence s without its i-th element.
LEMMA RemoveAtIs ==
  ASSUME NEW s \in Seq(Pages), NEW i \in 1..Len(s)
  PROVE  /\ RemoveAt(s, i) \in Seq(Pages) /\ Len(RemoveAt(s, i)) = Len(s) - 1
         /\ Len(s) \in Nat \ {0}
         /\ \A j \in 1 .. Len(s) - 1 : RemoveAt(s, i)[j] = IF j < i THEN s[j] ELSE s[j + 1]
  <1> DEFINE a == SubSeq(s, 1, i - 1)
             b == SubSeq(s, i + 1, Len(s))
  <1>1. Len(s) \in Nat \ {0} /\ i \in Nat \ {0} /\ \A j \in 1..Len(s) : s[j] \in Pages
    BY LenProperties, ElementOfSeq
  <1>2. (\A j \in 1 .. i - 1 : s[j] \in Pages) /\ (\A j \in i + 1 .. Len(s) : s[j] \in Pages)
    <2>1. (\A j \in 1 .. i - 1 : j \in 1..Len(s)) /\ (\A j \in i + 1 .. Len(s) : j \in 1..Len(s))
      BY <1>1
    <2>2. QED  BY <1>1, <2>1
  <1>3. i - 1 \in Int /\ i + 1 \in Int /\ Len(s) \in Int  BY <1>1
  <1>4. /\ a \in Seq(Pages) /\ Len(a) = (IF 1 <= i - 1 THEN i - 1 - 1 + 1 ELSE 0)
        /\ \A j \in 1 .. i - 1 - 1 + 1 : a[j] = s[1 + j - 1]
    BY <1>2, <1>3, SubSeqProperties
  <1>5. /\ b \in Seq(Pages) /\ Len(b) = (IF i + 1 <= Len(s) THEN Len(s) - (i + 1) + 1 ELSE 0)
        /\ \A j \in 1 .. Len(s) - (i + 1) + 1 : b[j] = s[i + 1 + j - 1]
    BY <1>2, <1>3, SubSeqProperties
  <1>6. RemoveAt(s, i) = a \o b  BY DEF RemoveAt
  <1> HIDE DEF a, b
  <1>7. /\ a \o b \in Seq(Pages) /\ Len(a \o b) = Len(a) + Len(b)
        /\ \A j \in 1 .. Len(a) + Len(b) :
             (a \o b)[j] = IF j <= Len(a) THEN a[j] ELSE b[j - Len(a)]
    BY <1>4, <1>5, ConcatProperties
  <1>8. Len(a) = i - 1 /\ Len(b) = Len(s) - i  BY <1>1, <1>4, <1>5
  <1>9. Len(a) + Len(b) = Len(s) - 1  BY <1>1, <1>8
  <1>10. ASSUME NEW j \in 1 .. Len(s) - 1
         PROVE  (a \o b)[j] = IF j < i THEN s[j] ELSE s[j + 1]
    <2>1. CASE j < i
      <3>1. j <= Len(a) /\ j \in 1 .. i - 1 - 1 + 1 /\ 1 + j - 1 = j  BY <1>1, <1>8, <1>10, <2>1
      <3>2. a[j] = s[j]  BY <1>4, <3>1
      <3>3. (a \o b)[j] = a[j]  BY <1>7, <1>9, <1>10, <3>1
      <3>4. QED  BY <2>1, <3>2, <3>3
    <2>2. CASE ~(j < i)
      <3>1. ~(j <= Len(a)) /\ j - Len(a) = j - i + 1 /\ j - i + 1 \in 1 .. Len(s) - (i + 1) + 1
            /\ i + 1 + (j - i + 1) - 1 = j + 1
        BY <1>1, <1>8, <1>10, <2>2
      <3>2. b[j - i + 1] = s[i + 1 + (j - i + 1) - 1]  BY <1>5, <3>1
      <3>3. (a \o b)[j] = b[j - i + 1]  BY <1>7, <1>9, <1>10, <3>1
      <3>4. QED  BY <2>2, <3>1, <3>2, <3>3
    <2>3. QED  BY <2>1, <2>2
  <1>11. QED  BY <1>1, <1>6, <1>7, <1>9, <1>10

\* The sequence s with p inserted after k elements.
LEMMA InsertAtIs ==
  ASSUME NEW s \in Seq(Pages), NEW k \in 0 .. Len(s), NEW p \in Pages
  PROVE  /\ InsertAt(s, k + 1, p) \in Seq(Pages) /\ Len(InsertAt(s, k + 1, p)) = Len(s) + 1
         /\ Len(s) \in Nat
         /\ \A j \in 1 .. Len(s) + 1 :
              InsertAt(s, k + 1, p)[j] = IF j <= k THEN s[j] ELSE IF j = k + 1 THEN p ELSE s[j - 1]
  <1> DEFINE a == SubSeq(s, 1, (k + 1) - 1)
             m == <<p>>
             b == SubSeq(s, k + 1, Len(s))
  <1>1. Len(s) \in Nat /\ k \in Nat /\ \A j \in 1..Len(s) : s[j] \in Pages
    BY LenProperties, ElementOfSeq
  <1>2. (\A j \in 1 .. (k + 1) - 1 : s[j] \in Pages) /\ (\A j \in k + 1 .. Len(s) : s[j] \in Pages)
    <2>1. (\A j \in 1 .. (k + 1) - 1 : j \in 1..Len(s)) /\ (\A j \in k + 1 .. Len(s) : j \in 1..Len(s))
      BY <1>1
    <2>2. QED  BY <1>1, <2>1
  <1>3. (k + 1) - 1 \in Int /\ k + 1 \in Int /\ Len(s) \in Int  BY <1>1
  <1>4. /\ a \in Seq(Pages) /\ Len(a) = (IF 1 <= (k + 1) - 1 THEN (k + 1) - 1 - 1 + 1 ELSE 0)
        /\ \A j \in 1 .. (k + 1) - 1 - 1 + 1 : a[j] = s[1 + j - 1]
    BY <1>2, <1>3, SubSeqProperties
  <1>5. /\ b \in Seq(Pages) /\ Len(b) = (IF k + 1 <= Len(s) THEN Len(s) - (k + 1) + 1 ELSE 0)
        /\ \A j \in 1 .. Len(s) - (k + 1) + 1 : b[j] = s[k + 1 + j - 1]
    BY <1>2, <1>3, SubSeqProperties
  <1>6. m \in Seq(Pages) /\ Len(m) = 1 /\ m[1] = p
    <2>1. <<>> \in Seq(Pages) /\ Len(<<>>) = 0  BY EmptySeq
    <2>2. PICK e \in Seq(Pages) : e = <<>> /\ Len(e) = 0  BY <2>1
    <2>3. Append(e, p) \in Seq(Pages) /\ Len(Append(e, p)) = Len(e) + 1
          /\ Append(e, p)[Len(e) + 1] = p
      BY AppendProperties
    <2>4. Append(e, p) = m  BY <2>2
    <2>5. QED  BY <2>2, <2>3, <2>4
  <1>7. InsertAt(s, k + 1, p) = (a \o m) \o b  BY DEF InsertAt
  <1> HIDE DEF a, b, m
  <1>8. Len(a) = k /\ Len(b) = Len(s) - k  BY <1>1, <1>4, <1>5
  <1>9. PICK c \in Seq(Pages) :
          /\ c = a \o m /\ Len(c) = Len(a) + Len(m)
          /\ \A j \in 1 .. Len(a) + Len(m) : c[j] = IF j <= Len(a) THEN a[j] ELSE m[j - Len(a)]
    <2>1. /\ a \o m \in Seq(Pages) /\ Len(a \o m) = Len(a) + Len(m)
          /\ \A j \in 1 .. Len(a) + Len(m) :
               (a \o m)[j] = IF j <= Len(a) THEN a[j] ELSE m[j - Len(a)]
      BY <1>4, <1>6, ConcatProperties
    <2>2. QED  BY <2>1
  <1>10. /\ c \o b \in Seq(Pages) /\ Len(c \o b) = Len(c) + Len(b)
         /\ \A j \in 1 .. Len(c) + Len(b) :
              (c \o b)[j] = IF j <= Len(c) THEN c[j] ELSE b[j - Len(c)]
    <2>1. c \in Seq(Pages)  BY <1>9
    <2>2. QED  BY <1>5, <2>1, ConcatProperties
  <1>11. Len(c) = k + 1 /\ Len(c) + Len(b) = Len(s) + 1  BY <1>1, <1>6, <1>8, <1>9
  <1>12. ASSUME NEW j \in 1 .. Len(s) + 1
         PROVE  (c \o b)[j] = IF j <= k THEN s[j] ELSE IF j = k + 1 THEN p ELSE s[j - 1]
    <2>1. CASE j <= k
      <3>1. j <= Len(c) /\ j <= Len(a) /\ j \in 1 .. Len(a) + Len(m)
            /\ j \in 1 .. (k + 1) - 1 - 1 + 1 /\ 1 + j - 1 = j
        BY <1>1, <1>6, <1>8, <1>11, <1>12, <2>1
      <3>2. a[j] = s[j]  BY <1>4, <3>1
      <3>3. c[j] = a[j]  BY <1>9, <3>1
      <3>4. (c \o b)[j] = c[j]  BY <1>10, <1>11, <1>12, <3>1
      <3>5. QED  BY <2>1, <3>2, <3>3, <3>4
    <2>2. CASE j = k + 1
      <3>1. j <= Len(c) /\ ~(j <= Len(a)) /\ j \in 1 .. Len(a) + Len(m) /\ j - Len(a) = 1
            /\ ~(j <= k)
        <4>1. Len(m) = 1 /\ Len(a) = k /\ Len(c) = k + 1  BY <1>6, <1>8, <1>11
        <4>2. QED  BY <1>1, <2>2, <4>1
      <3>2. c[j] = m[1]  BY <1>9, <3>1
      <3>3. (c \o b)[j] = c[j]  BY <1>10, <1>11, <1>12, <3>1
      <3>4. QED  BY <1>6, <2>2, <3>1, <3>2, <3>3
    <2>3. CASE ~(j <= k) /\ j # k + 1
      <3>1. ~(j <= Len(c)) /\ j - Len(c) = j - k - 1
            /\ j - k - 1 \in 1 .. Len(s) - (k + 1) + 1 /\ k + 1 + (j - k - 1) - 1 = j - 1
        BY <1>1, <1>11, <1>12, <2>3
      <3>2. b[j - k - 1] = s[k + 1 + (j - k - 1) - 1]  BY <1>5, <3>1
      <3>3. (c \o b)[j] = b[j - k - 1]  BY <1>10, <1>11, <1>12, <3>1
      <3>4. QED  BY <2>3, <3>1, <3>2, <3>3
    <2>4. QED  BY <2>1, <2>2, <2>3
  <1>13. InsertAt(s, k + 1, p) = c \o b  BY <1>7, <1>9
  <1>14. QED  BY <1>1, <1>10, <1>11, <1>12, <1>13

\* The tabs of a window without the one of p.
LEMMA WithoutIs ==
  ASSUME NEW S \in Screens, NEW w \in Windows, NEW p, InWindow(S, w, p)
  PROVE  /\ Position(S, w, p) \in 1..Len(S.windows[w].tabs)
         /\ S.windows[w].tabs[Position(S, w, p)] = p /\ p \in Pages
         /\ Without(S, w, p) \in Seq(Pages)
         /\ Len(Without(S, w, p)) = Len(S.windows[w].tabs) - 1
         /\ Len(S.windows[w].tabs) \in Nat \ {0}
         /\ \A j \in 1 .. Len(S.windows[w].tabs) - 1 :
              Without(S, w, p)[j] = IF j < Position(S, w, p) THEN S.windows[w].tabs[j]
                                    ELSE S.windows[w].tabs[j + 1]
  <1>1. PICK s \in Seq(Pages) : s = S.windows[w].tabs  BY WindowType
  <1>2. PICK i : i = Position(S, w, p)  OBVIOUS
  <1>3. DOMAIN s = 1..Len(s)  BY LenProperties
  <1>4. i \in 1..Len(s) /\ s[i] = p
    <2>1. \E j \in DOMAIN s : s[j] = p  BY <1>1 DEF InWindow
    <2>2. i = CHOOSE j \in DOMAIN s : s[j] = p  BY <1>1, <1>2 DEF Position
    <2>3. i \in DOMAIN s /\ s[i] = p  BY <2>1, <2>2
    <2>4. QED  BY <1>3, <2>3
  <1>5. p \in Pages  BY <1>4, ElementOfSeq
  <1>6. Without(S, w, p) = RemoveAt(s, i)  BY <1>1, <1>2 DEF Without
  <1>7. /\ RemoveAt(s, i) \in Seq(Pages) /\ Len(RemoveAt(s, i)) = Len(s) - 1
        /\ Len(s) \in Nat \ {0}
        /\ \A j \in 1 .. Len(s) - 1 : RemoveAt(s, i)[j] = IF j < i THEN s[j] ELSE s[j + 1]
    BY <1>4, RemoveAtIs
  <1>8. QED  BY <1>1, <1>2, <1>4, <1>5, <1>6, <1>7

\* R is sound, and S with other tabs in window w.
SetsTabs(S, R, w, s) ==
  /\ Sound(R) /\ R.panes = S.panes /\ R.pages = S.pages
  /\ R.dim = S.dim /\ R.lost = S.lost
  /\ R.windows[w].tabs = s /\ R.windows[w].selected = S.windows[w].selected
  /\ SameMenu(R.windows[w], S.windows[w])
  /\ \A v \in Windows \ {w} : R.windows[v] = S.windows[v]

\* Setting the tabs of a window.
LEMMA SetTabsSound ==
  ASSUME NEW S, Sound(S), NEW w \in Windows, NEW s \in Seq(Pages),
         NEW R, R = [S EXCEPT !.windows[w].tabs = s]
  PROVE  SetsTabs(S, R, w, s)
  <1>1. PICK r0 \in WindowRecord : r0 = S.windows[w]  BY WindowType DEF Sound
  <1> DEFINE r == [r0 EXCEPT !.tabs = s]
  <1>2. R = [S EXCEPT !.windows[w] = r]  BY <1>1
  <1>3. r \in WindowRecord  BY Zenon DEF WindowRecord
  <1>4. r.tabs = s /\ r.selected = r0.selected /\ r.dialog = r0.dialog
        /\ r.menuOpen = r0.menuOpen /\ r.menuPage = r0.menuPage
    BY DEF WindowRecord
  <1>5. r.open = r0.open /\ r.menuIdle = r0.menuIdle  BY Zenon DEF WindowRecord
  <1>6. SameMenu(r, r0)  BY <1>4, <1>5, Zenon DEF SameMenu
  <1>7. Names(r.dialog)  BY <1>1, <1>4 DEF Sound, DialogOK
  <1> HIDE DEF r
  <1>8. SetsWindow(S, R, w, r)  BY <1>2, <1>3, <1>7, OneWindow
  <1>9. QED  BY <1>1, <1>4, <1>6, <1>8 DEF SetsWindow, SetsTabs

\* The selection moves on if it was on the page that goes.
LEMMA SelectionMovesSound ==
  ASSUME NEW S, Sound(S), NEW w \in Windows, NEW p \in Pages,
         NEW next \in Pages \union {NoPage}, NEW R, R = SelectionMoves(S, w, p, next)
  PROVE  /\ Sound(R) /\ SamePlaces(S, R) /\ R.dim = S.dim
         /\ R.windows[w].selected =
              IF S.windows[w].selected = p THEN next ELSE S.windows[w].selected
         /\ SameWindow(R.windows[w], S.windows[w])
         /\ \A v \in Windows \ {w} : R.windows[v] = S.windows[v]
  <1>1. CASE S.windows[w].selected # p
    <2>1. R = S  BY <1>1 DEF SelectionMoves
    <2>2. QED  BY <1>1, <2>1 DEF SamePlaces, SamePane, SameWindow, SameMenu
  <1>2. CASE S.windows[w].selected = p /\ next # NoPage
    <2>1. R = Select(S, w, next) /\ next \in Pages  BY <1>2 DEF SelectionMoves
    <2>2. QED  BY <1>2, <2>1, SelectSound
  <1>3. CASE S.windows[w].selected = p /\ next = NoPage
    <2>1. PICK r0 \in WindowRecord : r0 = S.windows[w]  BY WindowType DEF Sound
    <2> DEFINE r == [r0 EXCEPT !.selected = NoPage]
    <2>2. R = [S EXCEPT !.windows[w] = r]
      <3>1. R = [S EXCEPT !.windows[w].selected = NoPage]  BY <1>3 DEF SelectionMoves
      <3>2. QED  BY <2>1, <3>1
    <2>3. r \in WindowRecord
      <3>1. NoPage \in Pages \union {NoPage}  OBVIOUS
      <3>2. QED  BY <3>1, Zenon DEF WindowRecord
    <2>4. r.selected = NoPage /\ r.tabs = r0.tabs /\ r.dialog = r0.dialog
          /\ r.menuOpen = r0.menuOpen /\ r.menuPage = r0.menuPage
      BY DEF WindowRecord
    <2>5. r.open = r0.open /\ r.menuIdle = r0.menuIdle  BY Zenon DEF WindowRecord
    <2>6. SameWindow(r, r0)  BY <2>4, <2>5, Zenon DEF SameWindow, SameMenu
    <2>7. Names(r.dialog)  BY <2>1, <2>4 DEF Sound, DialogOK
    <2> HIDE DEF r
    <2>8. SetsWindow(S, R, w, r)  BY <2>2, <2>3, <2>7, OneWindow
    <2>9. SamePlaces(S, R)  BY <2>8 DEF SetsWindow, SamePlaces, SamePane
    <2>10. QED  BY <1>3, <2>1, <2>4, <2>6, <2>8, <2>9 DEF SetsWindow
  <1>4. QED  BY <1>1, <1>2, <1>3

\* An empty window closes.
LEMMA CloseIfEmptySound ==
  ASSUME NEW S, Sound(S), NEW w \in Windows, NEW R, R = CloseIfEmpty(S, w)
  PROVE  /\ Sound(R) /\ R.panes = S.panes /\ R.pages = S.pages
         /\ R.dim = S.dim /\ R.lost = S.lost
         /\ R.windows[w] = IF S.windows[w].tabs = <<>> THEN NoWindowRecord ELSE S.windows[w]
         /\ \A v \in Windows \ {w} : R.windows[v] = S.windows[v]
  <1>1. CASE S.windows[w].tabs # <<>>  BY <1>1 DEF CloseIfEmpty
  <1>2. CASE S.windows[w].tabs = <<>>
    <2>1. PICK r \in WindowRecord : r = NoWindowRecord  BY NoRecords
    <2>2. R = [S EXCEPT !.windows[w] = r]  BY <1>2, <2>1 DEF CloseIfEmpty
    <2>3. Names(r.dialog)  BY <2>1 DEF Names, NoWindowRecord, NoDialog
    <2>4. SetsWindow(S, R, w, r)  BY <2>2, <2>3, OneWindow
    <2>5. QED  BY <1>2, <2>1, <2>4 DEF SetsWindow
  <1>3. QED  BY <1>1, <1>2

\* The same window, but for the tabs, the selection and the menu of a page of P.
MenuCleared(r, s, P) ==
  /\ r.open = s.open /\ r.dialog = s.dialog /\ r.menuIdle = s.menuIdle
  /\ r.menuPage = IF s.menuPage \in P THEN NoPage ELSE s.menuPage
  /\ r.menuOpen = IF s.menuOpen \in P THEN NoPage ELSE s.menuOpen

\* R is S without page p, the tab of window w.
Closes(S, R, w, p, next) ==
  /\ R.lost = S.lost /\ R.dim = S.dim
  /\ \A t \in Panes :
       IF S.panes[t].page = p THEN R.panes[t] = NoPaneRecord ELSE SamePane(S, R, t)
  /\ \A q \in Pages \ {p} : R.pages[q].pinned = S.pages[q].pinned
  /\ \A v \in Windows \ {w} :
       /\ MenuCleared(R.windows[v], S.windows[v], {p})
       /\ R.windows[v].tabs = S.windows[v].tabs
       /\ R.windows[v].selected = S.windows[v].selected
  /\ IF Without(S, w, p) = <<>> THEN R.windows[w] = NoWindowRecord
     ELSE /\ MenuCleared(R.windows[w], S.windows[w], {p})
          /\ R.windows[w].tabs = Without(S, w, p)
          /\ R.windows[w].selected =
               IF S.windows[w].selected = p THEN next ELSE S.windows[w].selected

\* Closing a page takes its panes and its tab away, unless it is pinned.
LEMMA ClosePageSound ==
  ASSUME NEW S, Sound(S), NEW w \in Windows, NEW p \in Pages, InWindow(S, w, p),
         NEW next \in Pages \union {NoPage}, NEW R, R = ClosePage(S, w, p, next)
  PROVE  /\ Sound(R)
         /\ IF S.pages[p].pinned THEN R = S ELSE Closes(S, R, w, p, next)
  <1>1. CASE S.pages[p].pinned  BY <1>1 DEF ClosePage
  <1>2. CASE ~S.pages[p].pinned
    <2>1. PICK s \in Seq(Pages) : s = Without(S, w, p)  BY WithoutIs DEF Sound
    <2>2. PICK S1 : S1 = RemoveTab(S, w, p)  OBVIOUS
    <2>3. S1 = [S EXCEPT !.windows[w].tabs = s]  BY <2>1, <2>2 DEF RemoveTab
    <2>4. /\ Sound(S1) /\ S1.panes = S.panes /\ S1.pages = S.pages
          /\ S1.dim = S.dim /\ S1.lost = S.lost
          /\ S1.windows[w].tabs = s /\ S1.windows[w].selected = S.windows[w].selected
          /\ SameMenu(S1.windows[w], S.windows[w])
          /\ \A v \in Windows \ {w} : S1.windows[v] = S.windows[v]
      <3>1. SetsTabs(S, S1, w, s)  BY <2>1, <2>3, SetTabsSound
      <3>2. QED  BY <3>1 DEF SetsTabs
    <2>5. PICK S2 : S2 = SelectionMoves(S1, w, p, next)  OBVIOUS
    <2>6. /\ Sound(S2) /\ SamePlaces(S1, S2) /\ S2.dim = S1.dim
          /\ S2.windows[w].selected =
               (IF S1.windows[w].selected = p THEN next ELSE S1.windows[w].selected)
          /\ SameWindow(S2.windows[w], S1.windows[w])
          /\ \A v \in Windows \ {w} : S2.windows[v] = S1.windows[v]
      BY <2>4, <2>5, SelectionMovesSound
    <2>7. PICK S3 : S3 = DestroyAll(S2, {p})  OBVIOUS
    <2>8. {p} \in SUBSET Pages  OBVIOUS
    <2>9. /\ Sound(S3) /\ S3.dim = S2.dim /\ S3.lost = S2.lost
          /\ \A t \in Panes : S3.panes[t] = IF S2.panes[t].page \in {p} THEN NoPaneRecord ELSE S2.panes[t]
          /\ \A q \in Pages : S3.pages[q] = IF q \in {p} THEN NoPageRecord ELSE S2.pages[q]
          /\ \A v \in Windows :
               /\ S3.windows[v].open = S2.windows[v].open /\ S3.windows[v].tabs = S2.windows[v].tabs
               /\ S3.windows[v].dialog = S2.windows[v].dialog
               /\ S3.windows[v].selected = S2.windows[v].selected
               /\ S3.windows[v].menuIdle = S2.windows[v].menuIdle
               /\ S3.windows[v].menuPage =
                    IF S2.windows[v].menuPage \in {p} THEN NoPage ELSE S2.windows[v].menuPage
               /\ S3.windows[v].menuOpen =
                    IF S2.windows[v].menuOpen \in {p} THEN NoPage ELSE S2.windows[v].menuOpen
      BY <2>6, <2>7, <2>8, DestroySound
    <2>10. R = CloseIfEmpty(S3, w)  BY <1>2, <2>2, <2>5, <2>7 DEF ClosePage, Destroy
    <2>11. /\ Sound(R) /\ R.panes = S3.panes /\ R.pages = S3.pages
           /\ R.dim = S3.dim /\ R.lost = S3.lost
           /\ R.windows[w] = (IF S3.windows[w].tabs = <<>> THEN NoWindowRecord ELSE S3.windows[w])
           /\ \A v \in Windows \ {w} : R.windows[v] = S3.windows[v]
      BY <2>9, <2>10, CloseIfEmptySound
    <2>12. ASSUME NEW v \in Windows
           PROVE  /\ MenuCleared(S3.windows[v], S.windows[v], {p})
                  /\ S3.windows[v].tabs = IF v = w THEN s ELSE S.windows[v].tabs
                  /\ S3.windows[v].selected =
                       IF v = w /\ S.windows[w].selected = p THEN next ELSE S.windows[v].selected
      <3>1. CASE v # w
        <4>1. S2.windows[v] = S.windows[v]  BY <2>4, <2>6, <3>1
        <4>2. S3.windows[v].open = S.windows[v].open
              /\ S3.windows[v].menuIdle = S.windows[v].menuIdle
          BY <2>9, <4>1, Zenon
        <4>3. MenuCleared(S3.windows[v], S.windows[v], {p})
          BY <2>9, <4>1, <4>2, Zenon DEF MenuCleared
        <4>4. QED  BY <2>9, <3>1, <4>1, <4>3
      <3>2. CASE v = w
        <4>1. S3.windows[w].open = S.windows[w].open
              /\ S3.windows[w].menuIdle = S.windows[w].menuIdle
          BY <2>4, <2>6, <2>9, Zenon DEF SameWindow, SameMenu
        <4>2. S3.windows[w].dialog = S.windows[w].dialog
              /\ S2.windows[w].menuPage = S.windows[w].menuPage
              /\ S2.windows[w].menuOpen = S.windows[w].menuOpen
              /\ S3.windows[w].tabs = s
          BY <2>4, <2>6, <2>9 DEF SameWindow, SameMenu
        <4>3. MenuCleared(S3.windows[w], S.windows[w], {p})
          BY <2>9, <4>1, <4>2, Zenon DEF MenuCleared
        <4>4. S3.windows[w].selected =
                IF S.windows[w].selected = p THEN next ELSE S.windows[w].selected
          BY <2>4, <2>6, <2>9
        <4>5. QED  BY <3>2, <4>2, <4>3, <4>4
      <3>3. QED  BY <3>1, <3>2
    <2>13. ASSUME NEW t \in Panes
           PROVE  IF S.panes[t].page = p THEN R.panes[t] = NoPaneRecord ELSE SamePane(S, R, t)
      <3>1. SamePane(S, S2, t)  BY <2>4, <2>6 DEF SamePlaces, SamePane
      <3>2. R.panes[t] = IF S.panes[t].page = p THEN NoPaneRecord ELSE S2.panes[t]
        BY <2>9, <2>11, <3>1 DEF SamePane
      <3>3. QED  BY <3>1, <3>2 DEF SamePane
    <2>14. ASSUME NEW q \in Pages \ {p} PROVE R.pages[q].pinned = S.pages[q].pinned
      <3>1. R.pages[q] = S2.pages[q]  BY <2>9, <2>11, <2>14
      <3>2. S2.pages[q].pinned = S.pages[q].pinned  BY <2>4, <2>6, <2>14 DEF SamePlaces
      <3>3. QED  BY <3>1, <3>2
    <2>15. R.lost = S.lost /\ R.dim = S.dim  BY <2>4, <2>6, <2>9, <2>11 DEF SamePlaces
    <2>16. \A v \in Windows \ {w} :
             /\ MenuCleared(R.windows[v], S.windows[v], {p})
             /\ R.windows[v].tabs = S.windows[v].tabs
             /\ R.windows[v].selected = S.windows[v].selected
      BY <2>11, <2>12
    <2>17. IF s = <<>> THEN R.windows[w] = NoWindowRecord
           ELSE /\ MenuCleared(R.windows[w], S.windows[w], {p})
                /\ R.windows[w].tabs = s
                /\ R.windows[w].selected =
                     IF S.windows[w].selected = p THEN next ELSE S.windows[w].selected
      BY <2>11, <2>12
    <2>18. Closes(S, R, w, p, next)
      BY <2>1, <2>13, <2>14, <2>15, <2>16, <2>17 DEF Closes
    <2>19. QED  BY <1>2, <2>11, <2>18
  <1>3. QED  BY <1>1, <1>2

\* The window of a page is one that shows it.
LEMMA WindowOfIs ==
  ASSUME NEW S, NEW p
  PROVE  \/ WindowOf(S, p) = NoWindow /\ \A w \in Windows : ~InWindow(S, w, p)
         \/ WindowOf(S, p) \in Windows /\ InWindow(S, WindowOf(S, p), p)
  <1>1. CASE \E w \in Windows : InWindow(S, w, p)
    <2>1. WindowOf(S, p) = CHOOSE w \in Windows : InWindow(S, w, p)  BY <1>1 DEF WindowOf
    <2>2. QED  BY <1>1, <2>1
  <1>2. CASE ~ \E w \in Windows : InWindow(S, w, p)  BY <1>2 DEF WindowOf
  <1>3. QED  BY <1>1, <1>2

\* A page asks to be closed: the window that shows it closes it.
LEMMA SignalCloseSound ==
  ASSUME NEW S, Sound(S), NEW p \in Pages,
         NEW next \in Pages \union {NoPage}, NEW R, R = SignalClose(S, p, next)
  PROVE  /\ Sound(R)
         /\ \/ R = S /\ (S.pages[p].pinned \/ \A w \in Windows : ~InWindow(S, w, p))
            \/ \E w \in Windows : InWindow(S, w, p) /\ Closes(S, R, w, p, next)
  <1>1. PICK w : w = WindowOf(S, p)  OBVIOUS
  <1>2. CASE w = NoWindow
    <2>1. R = S  BY <1>1, <1>2 DEF SignalClose
    <2>2. \A v \in Windows : ~InWindow(S, v, p)  BY <1>1, <1>2, WindowOfIs, TabsConstants
    <2>3. QED  BY <2>1, <2>2
  <1>3. CASE w # NoWindow
    <2>1. R = ClosePage(S, w, p, next)  BY <1>1, <1>3 DEF SignalClose
    <2>2. w \in Windows /\ InWindow(S, w, p)  BY <1>1, <1>3, WindowOfIs
    <2>3. Sound(R) /\ IF S.pages[p].pinned THEN R = S ELSE Closes(S, R, w, p, next)
      BY <2>1, <2>2, ClosePageSound
    <2>4. QED  BY <2>2, <2>3
  <1>4. QED  BY <1>2, <1>3

-----------------------------------------------------------------------------
(* Panes that come and go *)

\* Its last pane loses the focus: the page is still right, if nothing is zoomed.
LEMMA UnfocusSound ==
  ASSUME NEW S, Sound(S), NEW p \in Pages, NEW t \in Leaves(S, p), S.panes[t].path = <<>>,
         S.pages[p].zoomed = NoPane, S.pages[p].hidden = {},
         NEW R, R = [S EXCEPT !.pages[p].focused = NoPane]
  PROVE  /\ Sound(R) /\ R.panes = S.panes /\ SameRest(S, R)
         /\ \A q \in Pages : R.pages[q].pinned = S.pages[q].pinned
  <1> DEFINE r == [S.pages[p] EXCEPT !.focused = NoPane]
  <1>1. S \in Screens /\ PageOK(S, p) /\ S.pages[p] \in PageRecord /\ t \in Panes
    BY PageType DEF Sound, Leaves
  <1>2. R = [S EXCEPT !.pages[p] = r]  OBVIOUS
  <1>3. r \in PageRecord
    <2>1. NoPane \in Panes \union {NoPane}  OBVIOUS
    <2>2. QED  BY <1>1, <2>1, Zenon DEF PageRecord
  <1>4. r.focused = NoPane /\ r.zoomed = NoPane /\ r.hidden = {}
    BY <1>1 DEF PageRecord
  <1>5. r.pinned = S.pages[p].pinned  BY <1>1, Zenon DEF PageRecord
  <1> HIDE DEF r
  <1>6. R \in Screens  BY <1>1, <1>2, <1>3, OneExcept
  <1>7. R.panes = S.panes /\ SameRest(S, R) /\ R.pages = [S.pages EXCEPT ![p] = r]
    BY <1>1, <1>2 DEF Screens, SameRest
  <1>8. R.pages[p] = r /\ \A q \in Pages \ {p} : R.pages[q] = S.pages[q]
    BY <1>1, <1>7, ScreenType
  <1>9. \A q : Leaves(R, q) = Leaves(S, q)  BY <1>7 DEF Leaves
  <1>10. Leaves(S, p) = {t}
    <2>1. FullTree(Leaves(S, p), Paths(S))  BY <1>1 DEF PageOK, TreeOK
    <2>2. Paths(S)[t] = <<>>  BY <1>1 DEF Paths
    <2>3. QED  BY <2>1, <2>2, RootIsAlone
  <1>11. PageOK(R, p)
    <2>1. TreeOK(R, p)  BY <1>1, <1>7, <1>9 DEF PageOK, TreeOK, Paths
    <2>2. FocusOK(R, p)  BY <1>4, <1>7, <1>8, <1>9, <1>10 DEF FocusOK
    <2>3. ZoomOK(R, p)  BY <1>4, <1>8 DEF ZoomOK, ZoomFits
    <2>4. DimOK(R, p)
      <3>1. ~S.panes[t].scrim  BY <1>1, <1>10 DEF PageOK, DimOK
      <3>2. QED  BY <1>7, <1>9, <1>10, <3>1, <1>4, <1>8, <1>1, TabsConstants DEF DimOK
    <2>5. TitleOK(R, p)  BY <1>4, <1>8 DEF TitleOK
    <2>6. QED  BY <2>1, <2>2, <2>3, <2>4, <2>5 DEF PageOK
  <1>12. ASSUME NEW q \in Pages \ {p} PROVE PageOK(R, q)
    <2>1. PageOK(S, q) /\ R.pages[q] = S.pages[q] /\ R.dim = S.dim
      BY <1>7, <1>8, <1>12 DEF Sound, SameRest
    <2>2. QED  BY <1>7, <1>9, <2>1, PageFrame
  <1>13. \A u \in Panes : BridgeOK(R, u)  BY <1>7 DEF Sound, BridgeOK
  <1>14. \A w \in Windows : DialogOK(R, w)  BY <1>7 DEF Sound, DialogOK, SameRest
  <1>15. \A q \in Pages : R.pages[q].pinned = S.pages[q].pinned  BY <1>5, <1>8, Zenon
  <1>16. QED  BY <1>6, <1>7, <1>11, <1>12, <1>13, <1>14, <1>15 DEF Sound

\* What taking leaf t out of p leaves, if r is left of t.
Takes(S, R, p, t, r) ==
  /\ R \in Screens /\ R.pages = S.pages /\ SameRest(S, R)
  /\ R.panes[t] = r
  /\ \A u \in Panes \ {t} :
       /\ R.panes[u].page = S.panes[u].page /\ R.panes[u].bridge = S.panes[u].bridge
       /\ R.panes[u].death = S.panes[u].death /\ R.panes[u].shell = S.panes[u].shell
       /\ R.panes[u].scrim = S.panes[u].scrim
  /\ Leaves(R, p) = Leaves(S, p) \ {t}
  /\ AllButPage(R, p) /\ TreeOK(R, p)

\* Taking a leaf out leaves a whole tree.
LEMMA TakeSound ==
  ASSUME NEW S, Sound(S), NEW p \in Pages, NEW t \in Leaves(S, p), S.panes[t].path # <<>>,
         S.pages[p].hidden = {}, NEW r \in PaneRecord, r.page = NoPage,
         NEW R, R = [TakeOut(S, p, t) EXCEPT !.panes[t] = r]
  PROVE  Takes(S, R, p, t, r)
  <1> DEFINE n == S.panes[t].path
             f == [u \in Panes |->
                     IF u \in Leaves(S, p) \ {t}
                     THEN [S.panes[u] EXCEPT !.path = Healed(n, S.panes[u].path)]
                     ELSE S.panes[u]]
  <1>1. S \in Screens /\ PageOK(S, p) /\ t \in Panes /\ n \in Path
    BY PaneType DEF Sound, Leaves
  <1>2. PICK S1 : S1 = TakeOut(S, p, t)  OBVIOUS
  <1>3. PICK f1 : f1 = f  OBVIOUS
  <1>4. S1 = [S EXCEPT !.panes = f1, !.pages[p].hidden = {}]
    <2>1. {Healed(n, m) : m \in S.pages[p].hidden} = {}  OBVIOUS
    <2>2. S1 = [S EXCEPT !.panes = f1,
                         !.pages[p].hidden = {Healed(n, m) : m \in S.pages[p].hidden}]
      BY <1>2, <1>3 DEF TakeOut
    <2>3. QED  BY <2>1, <2>2
  <1>5. ASSUME NEW u \in Leaves(S, p) \ {t}
        PROVE  /\ f1[u] \in PaneRecord
               /\ f1[u].path = Healed(n, S.panes[u].path)
               /\ f1[u].page = S.panes[u].page /\ f1[u].bridge = S.panes[u].bridge
               /\ f1[u].death = S.panes[u].death /\ f1[u].shell = S.panes[u].shell
               /\ f1[u].scrim = S.panes[u].scrim
    <2>1. PICK s \in PaneRecord : s = S.panes[u]  BY <1>1, PaneType DEF Leaves
    <2>2. PICK m \in Path : m = Healed(n, S.panes[u].path)
      <3>1. u \in Panes /\ S.panes[u].path \in Path  BY <1>1, <1>5, PaneType DEF Leaves
      <3>2. QED  BY <1>1, <3>1, HealedOf
    <2>3. f1[u] = [s EXCEPT !.path = m]  BY <1>3, <1>5, <2>1, <2>2 DEF Leaves
    <2>4. [s EXCEPT !.path = m] \in PaneRecord  BY Zenon DEF PaneRecord
    <2>5. [s EXCEPT !.path = m].path = m /\ [s EXCEPT !.path = m].page = s.page
          /\ [s EXCEPT !.path = m].bridge = s.bridge /\ [s EXCEPT !.path = m].death = s.death
          /\ [s EXCEPT !.path = m].shell = s.shell
      BY DEF PaneRecord
    <2>6. [s EXCEPT !.path = m].scrim = s.scrim  BY Zenon DEF PaneRecord
    <2>7. f1[u].scrim = S.panes[u].scrim  BY <2>1, <2>3, <2>6, Zenon
    <2>8. QED  BY <2>1, <2>2, <2>3, <2>4, <2>5, <2>7
  <1>6. ASSUME NEW u \in Panes, u \notin Leaves(S, p) \ {t} PROVE f1[u] = S.panes[u]
    BY <1>3, <1>6
  <1>7. f1 \in [Panes -> PaneRecord]
    <2>1. \A u \in Panes : f1[u] \in PaneRecord  BY <1>1, <1>5, <1>6, PaneType
    <2>2. QED  BY <1>3, <2>1
  <1> HIDE DEF f
  <1>8. R = [S EXCEPT !.panes = [f1 EXCEPT ![t] = r]]
    <2>1. [S.pages EXCEPT ![p] = [S.pages[p] EXCEPT !.hidden = {}]] = S.pages
      <3>1. [S.pages[p] EXCEPT !.hidden = {}] = S.pages[p]  BY <1>1, PageType DEF PageRecord
      <3>2. QED  BY <1>1, <3>1, ScreenType
    <2>2. S1 = [S EXCEPT !.panes = f1]  BY <1>1, <1>4, <2>1 DEF Screens
    <2>3. R = [S1 EXCEPT !.panes[t] = r]  BY <1>2
    <2>4. S1.panes = f1  BY <1>1, <2>2 DEF Screens
    <2>5. QED  BY <1>1, <2>2, <2>3, <2>4 DEF Screens
  <1>9. PICK f2 \in [Panes -> PaneRecord] : f2 = [f1 EXCEPT ![t] = r]  BY <1>7
  <1>10. R \in Screens
    <2>1. f2 \in [Panes -> PaneRecord] /\ R = [S EXCEPT !.panes = f2]  BY <1>8, <1>9
    <2>2. [S EXCEPT !.panes = f2] \in Screens
      <3>1. f2 \in [Panes -> PaneRecord]  BY <1>9
      <3>2. QED  BY <1>1, <3>1, ScreenExcept
    <2>3. QED  BY <2>1, <2>2
  <1>11. R.panes = f2 /\ R.pages = S.pages /\ SameRest(S, R)
    BY <1>1, <1>8, <1>9 DEF Screens, SameRest
  <1>12. R.panes[t] = r /\ \A u \in Panes \ {t} : R.panes[u] = f1[u]
    BY <1>1, <1>7, <1>9, <1>11
  <1>13. ASSUME NEW u \in Panes \ {t}
         PROVE  /\ R.panes[u].page = S.panes[u].page /\ R.panes[u].bridge = S.panes[u].bridge
                /\ R.panes[u].death = S.panes[u].death /\ R.panes[u].shell = S.panes[u].shell
                /\ R.panes[u].scrim = S.panes[u].scrim
    <2>1. R.panes[u] = f1[u]  BY <1>12
    <2>2. CASE u \in Leaves(S, p)
      <3>1. R.panes[u].scrim = S.panes[u].scrim  BY <1>5, <1>13, <2>1, <2>2, Zenon
      <3>2. QED  BY <1>5, <2>1, <2>2, <3>1
    <2>3. CASE u \notin Leaves(S, p)  BY <1>6, <2>1, <2>3
    <2>4. QED  BY <2>2, <2>3
  <1>14. NoPage \notin Pages  BY TabsConstants
  <1>15. Leaves(R, p) = Leaves(S, p) \ {t}  BY <1>12, <1>13, <1>14 DEF Leaves
  <1>16. TreeOK(R, p)
    <2>1. FullTree(Leaves(S, p), Paths(S))  BY <1>1 DEF PageOK, TreeOK
    <2>2. Paths(S)[t] = n  BY <1>1 DEF Paths
    <2>3. ASSUME NEW u \in Leaves(S, p) \ {t}
          PROVE  Paths(R)[u] = Healed(Paths(S)[t], Paths(S)[u])
      <3>1. u \in Panes /\ R.panes[u].path = Healed(n, S.panes[u].path)
        BY <1>5, <1>12, <2>3 DEF Leaves
      <3>2. QED  BY <2>2, <3>1 DEF Paths
    <2>4. Paths(S)[t] # <<>>  BY <2>2
    <2> DEFINE L == Leaves(S, p)
               ff == Paths(S)
               gg == Paths(R)
    <2> HIDE DEF L, ff, gg
    <2>5. FullTree(L, ff) /\ t \in L /\ ff[t] # <<>>
          /\ \A u \in L \ {t} : gg[u] = Healed(ff[t], ff[u])
      BY <2>1, <2>3, <2>4 DEF L, ff, gg
    <2>6. FullTree(L \ {t}, gg)  BY <2>5, TakeTree
    <2>7. QED  BY <1>15, <2>6 DEF TreeOK, L, gg
  <1>17. ASSUME NEW q \in Pages \ {p} PROVE PageOK(R, q)
    <2>1. PageOK(S, q) /\ R.pages[q] = S.pages[q] /\ R.dim = S.dim
      BY <1>11, <1>17 DEF Sound, SameRest
    <2>2. S.panes[t].page = p  BY DEF Leaves
    <2>3. Leaves(R, q) = Leaves(S, q)  BY <1>12, <1>13, <1>14, <1>17, <2>2 DEF Leaves
    <2>4. ASSUME NEW u \in Leaves(S, q)
          PROVE  /\ R.panes[u].path = S.panes[u].path
                 /\ R.panes[u].shell = S.panes[u].shell
                 /\ R.panes[u].scrim = S.panes[u].scrim
      <3>1. u \in Panes /\ u # t /\ u \notin Leaves(S, p)  BY <1>17, <2>2, <2>4 DEF Leaves
      <3>2. f1[u] = S.panes[u]  BY <1>6, <3>1
      <3>3. QED  BY <1>12, <3>1, <3>2
    <2>5. SamePage(S, R, q)  BY <2>1, <2>3, <2>4 DEF SamePage
    <2>6. QED  BY <2>1, <2>5, SamePageIsOK
  <1>18. \A w \in Windows : DialogOK(R, w)  BY <1>11 DEF Sound, DialogOK, SameRest
  <1>19. AllButPage(R, p)  BY <1>10, <1>17, <1>18 DEF AllButPage
  <1>20. QED  BY <1>10, <1>11, <1>12, <1>13, <1>15, <1>16, <1>19 DEF Takes

\* There is a leaf below the sibling of a leaf that is not the root.
LEMMA HeirIs ==
  ASSUME NEW S, Sound(S), NEW p \in Pages, NEW t \in Leaves(S, p), S.panes[t].path # <<>>
  PROVE  FirstTerminal(S, Under(S, p, Sibling(S.panes[t].path))) \in Leaves(S, p) \ {t}
  <1> DEFINE n == S.panes[t].path
             A == Under(S, p, Sibling(n))
  <1>1. S \in Screens /\ PageOK(S, p) /\ t \in Panes /\ n \in Path
    BY PaneType DEF Sound, Leaves
  <1>2. Len(n) \in 1..Len(n)
    <2>1. Len(n) \in Nat \ {0}  BY <1>1, SiblingOf
    <2>2. QED  BY <2>1
  <1>3. FullTree(Leaves(S, p), Paths(S))  BY <1>1 DEF PageOK, TreeOK
  <1>4. \A u \in Leaves(S, p) : Paths(S)[u] = S.panes[u].path /\ S.panes[u].path \in Path
    BY <1>1, PaneType DEF Paths, Leaves
  <1>5. PICK u \in Leaves(S, p) : Parts(n, S.panes[u].path, Len(n))
    BY <1>2, <1>3, <1>4 DEF FullTree
  <1>6. u \in A
    <2>1. IsPrefix(Sibling(n), S.panes[u].path)  BY <1>1, <1>4, <1>5, BelowSibling
    <2>2. QED  BY <2>1 DEF Under
  <1>7. t \notin A
    <2>1. ~IsPrefix(Sibling(n), n)  BY <1>1, BelowSibling, ForkProperties
    <2>2. QED  BY <2>1 DEF Under
  <1>8. A \subseteq Leaves(S, p)  BY DEF Under
  <1>9. IsFiniteSet(A)
    <2>1. A \in SUBSET Leaves(S, p)  BY <1>8
    <2>2. QED  BY <2>1, LeavesFinite, FS_Subset
  <1>10. \A v \in A : S.panes[v].path \in Path  BY <1>4, <1>8
  <1>11. \A v \in A : \A x \in A \ {v} : Fork(S.panes[v].path, S.panes[x].path)
    BY <1>3, <1>4, <1>8 DEF FullTree
  <1> HIDE DEF A
  <1>12. FirstTerminal(S, A) \in A  BY <1>6, <1>9, <1>10, <1>11, FirstIsOne
  <1>13. QED  BY <1>7, <1>8, <1>12 DEF A

\* R is S without pane t of page p, which keeps others.
LosesPane(S, R, t) ==
  /\ SameRest(S, R) /\ R.panes[t] = NoPaneRecord
  /\ \A u \in Panes \ {t} : R.panes[u].page = S.panes[u].page /\ R.panes[u].death = S.panes[u].death
  /\ \A q \in Pages : R.pages[q].pinned = S.pages[q].pinned

\* R is S with page p, whose only pane t is done with, left as it is.
KeepsPage(S, R, p) ==
  /\ S.pages[p].pinned \/ \A w \in Windows : ~InWindow(S, w, p)
  /\ SameRest(S, R) /\ R.panes = S.panes
  /\ \A q \in Pages : R.pages[q].pinned = S.pages[q].pinned

\* R is S with page p unzoomed.
Unzooms(S, R, p) ==
  /\ Sound(R) /\ R.panes = S.panes /\ SameRest(S, R)
  /\ R.pages[p].zoomed = NoPane /\ R.pages[p].hidden = {}
  /\ R.pages[p].focused = S.pages[p].focused
  /\ R.pages[p].pinned = S.pages[p].pinned
  /\ \A q \in Pages \ {p} : R.pages[q] = S.pages[q]

\* Unzoom, in one word.
LEMMA UnzoomIs ==
  ASSUME NEW S, Sound(S), NEW p \in Pages, NEW R, R = Unzoom(S, p)
  PROVE  Unzooms(S, R, p)
  BY UnzoomSound DEF Unzooms

\* A pane goes, and the last one takes its page along.
LEMMA RemoveTerminalSound ==
  ASSUME NEW S, Sound(S), NEW p \in Pages, NEW t \in Leaves(S, p),
         NEW next \in Pages \union {NoPage}, NEW R, R = RemoveTerminal(S, p, t, next)
  PROVE  /\ Sound(R)
         /\ \/ LosesPane(S, R, t) /\ \E u \in Leaves(S, p) : u # t
            \/ KeepsPage(S, R, p)
            \/ \E w \in Windows : InWindow(S, w, p) /\ Closes(S, R, w, p, next)
  <1>1. PICK S1 : S1 = Unzoom(S, p)  OBVIOUS
  <1>2. /\ Sound(S1) /\ S1.panes = S.panes /\ SameRest(S, S1)
        /\ S1.pages[p].zoomed = NoPane /\ S1.pages[p].hidden = {}
        /\ S1.pages[p].focused = S.pages[p].focused
        /\ S1.pages[p].pinned = S.pages[p].pinned
        /\ \A q \in Pages \ {p} : S1.pages[q] = S.pages[q]
    <2>1. Sound(S) /\ p \in Pages  OBVIOUS
    <2>2. Unzooms(S, S1, p)  BY ONLY <1>1, <2>1, UnzoomIs
    <2>3. QED  BY ONLY <2>2 DEF Unzooms
  <1>3. Leaves(S1, p) = Leaves(S, p) /\ t \in Panes  BY <1>2 DEF Leaves
  <1>4. \A q \in Pages : S1.pages[q].pinned = S.pages[q].pinned  BY <1>2
  <1> DEFINE n == S1.panes[t].path
             heir == FirstTerminal(S1, Under(S1, p, Sibling(n)))
             S2 == [TakeOut(S1, p, t) EXCEPT !.panes[t] = NoPaneRecord]
             S3 == [S1 EXCEPT !.pages[p].focused = NoPane]
  <1>5. R = IF n = <<>> THEN SignalClose(S3, p, next)
            ELSE IF S1.pages[p].focused = t THEN SetFocused(S2, p, heir) ELSE S2
    BY <1>1 DEF RemoveTerminal
  <1>6. CASE n = <<>>
    <2>1. PICK X : X = S3  OBVIOUS
    <2>2. R = SignalClose(X, p, next)  BY <1>5, <1>6, <2>1
    <2>3. /\ Sound(X) /\ X.panes = S1.panes /\ SameRest(S1, X)
          /\ \A q \in Pages : X.pages[q].pinned = S1.pages[q].pinned
      BY <1>2, <1>3, <1>6, <2>1, UnfocusSound
    <2>4. /\ Sound(R)
          /\ \/ R = X /\ (X.pages[p].pinned \/ \A w \in Windows : ~InWindow(X, w, p))
             \/ \E w \in Windows : InWindow(X, w, p) /\ Closes(X, R, w, p, next)
      BY <2>2, <2>3, SignalCloseSound
    <2>5. /\ X.panes = S.panes /\ SameRest(S, X)
          /\ \A q \in Pages : X.pages[q].pinned = S.pages[q].pinned
      BY <1>2, <1>4, <2>3 DEF SameRest
    <2>6. \A w \in Windows : InWindow(X, w, p) <=> InWindow(S, w, p)
      BY <2>5 DEF InWindow, SameRest
    <2>7. CASE R = X /\ (X.pages[p].pinned \/ \A w \in Windows : ~InWindow(X, w, p))
      <3>1. KeepsPage(S, R, p)  BY <2>5, <2>6, <2>7 DEF KeepsPage
      <3>2. QED  BY <2>4, <3>1
    <2>8. ASSUME NEW w \in Windows, InWindow(X, w, p), Closes(X, R, w, p, next)
          PROVE  InWindow(S, w, p) /\ Closes(S, R, w, p, next)
      <3>1. InWindow(S, w, p)  BY <2>6, <2>8
      <3>2. X.windows = S.windows /\ X.lost = S.lost /\ X.dim = S.dim  BY <2>5 DEF SameRest
      <3>3. Without(X, w, p) = Without(S, w, p)  BY <3>2 DEF Without, Position
      <3>4. \A u \in Panes : SamePane(X, R, u) => SamePane(S, R, u)  BY <2>5 DEF SamePane
      <3>5. \A q \in Pages \ {p} : R.pages[q].pinned = S.pages[q].pinned
        BY <2>5, <2>8 DEF Closes
      <3>6. QED  BY <2>5, <2>8, <3>1, <3>2, <3>3, <3>4, <3>5 DEF Closes
    <2>9. QED  BY <2>4, <2>7, <2>8
  <1>7. CASE n # <<>>
    <2>1. PICK X : X = S2  OBVIOUS
    <2>2. PICK r \in PaneRecord : r = NoPaneRecord  BY NoRecords
    <2>3. X = [TakeOut(S1, p, t) EXCEPT !.panes[t] = r] /\ r.page = NoPage
      BY <2>1, <2>2 DEF NoPaneRecord
    <2>4. Takes(S1, X, p, t, r)  BY <1>2, <1>3, <1>7, <2>2, <2>3, TakeSound
    <2>5. heir \in Leaves(S1, p) \ {t}  BY <1>2, <1>3, <1>7, HeirIs
    <2>6. PICK h \in Leaves(S1, p) \ {t} : h = heir  BY <2>5
    <2>7. h \in Leaves(X, p) /\ X \in Screens /\ h \in Panes  BY <2>4, <2>6 DEF Takes, Leaves
    <2>8. R = IF S1.pages[p].focused = t THEN SetFocused(X, p, h) ELSE X
      BY <1>5, <1>7, <2>1, <2>6
    <2> HIDE DEF n, heir, S2, S3
    <2>9. ASSUME NEW u \in Panes PROVE BridgeOK(X, u)
      <3>1. CASE u = t
        <4>1. X.panes[u] = NoPaneRecord  BY <2>2, <2>4, <3>1 DEF Takes
        <4>2. QED  BY <4>1 DEF BridgeOK, NoPaneRecord
      <3>2. CASE u # t  BY <1>2, <2>4, <3>2 DEF Takes, Sound, BridgeOK
      <3>3. QED  BY <3>1, <3>2
    <2>10. LosesPane(S, X, t)
      <3>1. SameRest(S, X)  BY <1>2, <2>4 DEF Takes, SameRest
      <3>2. \A q \in Pages : X.pages[q].pinned = S.pages[q].pinned  BY <1>4, <2>4 DEF Takes
      <3>3. QED  BY <1>2, <2>2, <2>4, <3>1, <3>2 DEF Takes, LosesPane
    <2>11. CASE S1.pages[p].focused = t
      <3>1. R = SetFocused(X, p, h)  BY <2>8, <2>11
      <3>2. ZoomFits(X, p, h)  BY <1>2, <2>4 DEF Takes, ZoomFits
      <3>3. AllButPage(R, p) /\ PageOK(R, p)
        BY <2>4, <2>7, <3>1, <3>2, SetFocusedRight DEF Takes
      <3>4. /\ SameRest(X, R) /\ (\A u \in Panes : SamePane(X, R, u)) /\ SameZoom(X, R, p)
            /\ \A u \in Panes : X.panes[u].page # p => R.panes[u] = X.panes[u]
            /\ \A q \in Pages \ {p} : R.pages[q] = X.pages[q]
        BY <2>7, <3>1, FocusFacts
      <3>5. \A u \in Panes : BridgeOK(R, u)  BY <2>9, <3>4 DEF BridgeOK, SamePane
      <3>6. \A q \in Pages : R.pages[q].pinned = X.pages[q].pinned  BY <3>4, Zenon DEF SameZoom
      <3>7. R.panes[t] = NoPaneRecord
        <4>1. X.panes[t] = NoPaneRecord /\ NoPaneRecord.page # p
          BY <2>2, <2>4, TabsConstants DEF Takes, NoPaneRecord
        <4>2. QED  BY <1>3, <3>4, <4>1
      <3>8. LosesPane(S, R, t)
        <4>1. SameRest(S, R)  BY <2>10, <3>4 DEF LosesPane, SameRest
        <4>2. \A q \in Pages : R.pages[q].pinned = S.pages[q].pinned
          BY <2>10, <3>6, Zenon DEF LosesPane
        <4>3. QED  BY <2>10, <3>4, <3>7, <4>1, <4>2 DEF LosesPane, SamePane
      <3>9. Sound(R)  BY <3>3, <3>5 DEF AllButPage, Sound
      <3>10. QED  BY <1>3, <2>6, <3>8, <3>9
    <2>12. CASE S1.pages[p].focused # t
      <3>1. R = X  BY <2>8, <2>12
      <3>2. PageOK(S1, p)  BY <1>2 DEF Sound
      <3>3. X.pages[p] = S1.pages[p] /\ Leaves(X, p) = Leaves(S1, p) \ {t} /\ X.dim = S1.dim
        BY <2>4 DEF Takes, SameRest
      <3>4. S1.pages[p].focused \in Leaves(S1, p) \ {t}
        BY <1>3, <1>7, <2>12, <3>2 DEF PageOK, FocusOK, n
      <3>5. FocusOK(X, p)  BY <3>3, <3>4 DEF FocusOK
      <3>6. ZoomOK(X, p)  BY <1>2, <3>3 DEF ZoomOK, ZoomFits
      <3>7. DimOK(X, p)
        <4>1. ASSUME NEW u \in Leaves(X, p)
              PROVE  X.panes[u].scrim <=> X.dim /\ X.pages[p].focused \in Leaves(X, p) \ {u}
          <5>1. u \in Leaves(S1, p) \ {t} /\ u \in Panes \ {t}  BY <3>3, <4>1 DEF Leaves
          <5>2. X.panes[u].scrim = S1.panes[u].scrim  BY <2>4, <5>1 DEF Takes
          <5>3. S1.panes[u].scrim <=> S1.dim /\ S1.pages[p].focused \in Leaves(S1, p) \ {u}
            BY <3>2, <5>1 DEF PageOK, DimOK
          <5>4. QED  BY <3>3, <3>4, <5>1, <5>2, <5>3
        <4>2. QED  BY <4>1 DEF DimOK
      <3>8. TitleOK(X, p)
        <4>1. X.panes[S1.pages[p].focused].shell = S1.panes[S1.pages[p].focused].shell
          BY <2>4, <3>4 DEF Takes, Leaves
        <4>2. TitleFor(X, p) = TitleFor(S1, p)  BY <3>3, <4>1 DEF TitleFor
        <4>3. QED  BY <3>2, <3>3, <4>2 DEF PageOK, TitleOK
      <3>9. PageOK(X, p) /\ AllButPage(X, p)  BY <2>4, <3>5, <3>6, <3>7, <3>8 DEF Takes, PageOK
      <3>10. Sound(X)  BY <2>9, <3>9 DEF Sound, AllButPage
      <3>11. QED  BY <1>3, <2>6, <2>10, <3>1, <3>10
    <2>13. QED  BY <2>11, <2>12
  <1>8. QED  BY <1>6, <1>7


-----------------------------------------------------------------------------
(* Tabs, windows and menus *)

\* An open window has its selected page among its tabs, none of them twice, and
\* the menu that is up is the captured one.
WindowOK(r) ==
  /\ ~r.open => r.tabs = <<>> /\ r.menuOpen = NoPage
  /\ r.open => \E i \in DOMAIN r.tabs : r.tabs[i] = r.selected
  /\ IsInjective(r.tabs)
  /\ r.menuOpen # NoPage => r.menuPage = r.menuOpen
  /\ r.menuIdle => r.menuOpen = NoPage

\* Every page with panes has its place: one window, unless it is lost.
Placed(S) ==
  /\ \A v, w \in Windows : \A p \in Pages : InWindow(S, v, p) /\ InWindow(S, w, p) => v = w
  /\ \A p \in Pages : Leaves(S, p) # {} => p \in S.lost \/ \E w \in Windows : InWindow(S, w, p)
  /\ \A w \in Windows : \A p \in Pages : InWindow(S, w, p) => Leaves(S, p) # {}

TabsOK(S) == Placed(S) /\ \A w \in Windows : WindowOK(S.windows[w])

Inv == Sound(Screen) /\ TabsOK(Screen)


-----------------------------------------------------------------------------
(* Panes that are created or adopted *)

FreshPane(r, p, n) ==
  /\ r \in PaneRecord /\ r.page = p /\ r.path = n /\ r.death = "alive"
  /\ r.bridge \in {NoPage, p}

\* The record of a new pane.
LEMMA NewPaneIs ==
  ASSUME NEW p \in Pages, NEW n \in Path, NEW ok \in BOOLEAN, NEW r,
         \/ r = [NoPaneRecord EXCEPT !.page = p, !.path = n, !.bridge = IF ok THEN p ELSE NoPage]
         \/ n = <<>> /\ r = [NoPaneRecord EXCEPT !.page = p, !.bridge = IF ok THEN p ELSE NoPage]
  PROVE  FreshPane(r, p, n)
  <1>1. PICK b \in Pages \union {NoPage} : b = IF ok THEN p ELSE NoPage  OBVIOUS
  <1>2. b \in {NoPage, p}  BY <1>1
  <1>3. r = [page |-> p, path |-> n, bridge |-> b, death |-> "alive", shell |-> "a", scrim |-> FALSE]
    BY <1>1 DEF NoPaneRecord
  <1>4. r \in PaneRecord  BY <1>3 DEF PaneRecord, Titles
  <1>5. QED  BY <1>2, <1>3, <1>4 DEF FreshPane

\* R is S with pane t added to page p.
Gains(S, R, p, t, d) ==
  /\ SameRest(S, R) /\ R.panes[t].page = p /\ R.panes[t].death = d
  /\ \A u \in Panes \ {t} : R.panes[u].page = S.panes[u].page /\ R.panes[u].death = S.panes[u].death
  /\ \A q \in Pages : R.pages[q].pinned = S.pages[q].pinned

\* The focused pane is split: it and a new one are the children of a new paned.
LEMMA SplitPageSound ==
  ASSUME NEW S, Sound(S), NEW p \in Pages, S.pages[p].focused # NoPane,
         NEW t \in Panes, S.panes[t].page = NoPage, NEW ok \in BOOLEAN,
         NEW R, R = SplitPage(S, p, t, ok)
  PROVE  Sound(R) /\ Gains(S, R, p, t, "alive")
  <1>1. PICK S1 : S1 = Unzoom(S, p)  OBVIOUS
  <1>2. /\ Sound(S1) /\ S1.panes = S.panes /\ SameRest(S, S1)
        /\ S1.pages[p].zoomed = NoPane /\ S1.pages[p].hidden = {}
        /\ S1.pages[p].focused = S.pages[p].focused
        /\ S1.pages[p].pinned = S.pages[p].pinned
        /\ \A q \in Pages \ {p} : S1.pages[q] = S.pages[q]
    BY <1>1, UnzoomSound
  <1>3. PICK o : o = S1.pages[p].focused  OBVIOUS
  <1>4. S1 \in Screens /\ PageOK(S1, p) /\ p # NoPage  BY <1>2, TabsConstants DEF Sound
  <1>5. o \in Leaves(S1, p) /\ o \in Panes /\ o # t /\ S1.panes[o].page = p /\ t \notin Leaves(S1, p)
    <2>1. o \in Leaves(S1, p)  BY <1>2, <1>3, <1>4 DEF PageOK, FocusOK
    <2>2. QED  BY <1>2, <1>4, <2>1 DEF Leaves
  <1>6. PICK n \in Path : n = S1.panes[o].path  BY <1>4, <1>5, PaneType
  <1>7. PICK n0 \in Path : n0 = Append(n, 0)  BY PartsHere
  <1>8. PICK n1 \in Path : n1 = Append(n, 1)  BY PartsHere
  <1>9. PICK r : r = [NoPaneRecord EXCEPT !.page = p, !.path = n1, !.bridge = IF ok THEN p ELSE NoPage]
    OBVIOUS
  <1>10. /\ r \in PaneRecord /\ r.page = p /\ r.path = n1 /\ r.death = "alive"
         /\ r.bridge \in {NoPage, p}
    <2>1. n1 \in Path  BY <1>8
    <2>2. FreshPane(r, p, n1)  BY <1>9, <2>1, NewPaneIs
    <2>3. QED  BY <2>2 DEF FreshPane
  <1>11. PICK s0 \in PaneRecord : s0 = S1.panes[o]  BY <1>4, <1>5, PaneType
  <1>12. PICK s \in PaneRecord : s = [s0 EXCEPT !.path = n0]
    <2>1. n0 \in Path  BY <1>7
    <2>2. [s0 EXCEPT !.path = n0] \in PaneRecord  BY <2>1, Zenon DEF PaneRecord
    <2>3. QED  BY <2>2
  <1>13. s.path = n0 /\ s.page = s0.page /\ s.bridge = s0.bridge /\ s.death = s0.death
         /\ s.shell = s0.shell
    BY <1>12 DEF PaneRecord
  <1>14. PICK X : X = [S1 EXCEPT !.panes[o].path = n0, !.panes[t] = r]  OBVIOUS
  <1>15. R = SetFocused(X, p, t)
    BY <1>1, <1>3, <1>6, <1>7, <1>8, <1>9, <1>14 DEF SplitPage
  <1>16. X = [S1 EXCEPT !.panes[o] = s, !.panes[t] = r]  BY <1>11, <1>12, <1>14
  <1>17. X \in Screens
    <2>1. PICK Y \in Screens : Y = [S1 EXCEPT !.panes[o] = s]
      <3>1. o \in Panes /\ s \in PaneRecord  BY <1>5, <1>12
      <3>2. QED  BY <1>4, <3>1, OneExcept
    <2>2. [Y EXCEPT !.panes[t] = r] \in Screens  BY <1>10, OneExcept
    <2>3. X = [Y EXCEPT !.panes[t] = r]  BY <1>16, <2>1
    <2>4. QED  BY <2>2, <2>3
  <1>18. X.pages = S1.pages /\ SameRest(S1, X)
         /\ X.panes = [S1.panes EXCEPT ![o] = s, ![t] = r]
    BY <1>4, <1>16 DEF Screens, SameRest
  <1>19. X.panes[t] = r /\ X.panes[o] = s /\ \A u \in Panes \ {o, t} : X.panes[u] = S1.panes[u]
    BY <1>4, <1>5, <1>18, ScreenType
  <1>20. Leaves(X, p) = Leaves(S1, p) \union {t}
    BY <1>5, <1>10, <1>11, <1>13, <1>19 DEF Leaves
  <1>21. TreeOK(X, p)
    <2> DEFINE L == Leaves(S1, p)
               f == Paths(S1)
               g == Paths(X)
    <2>1. FullTree(L, f)  BY <1>4 DEF PageOK, TreeOK
    <2>2. \A u \in L \ {o} : g[u] = f[u]  BY <1>5, <1>19 DEF Paths, Leaves
    <2>3. g[o] = Append(f[o], 0) /\ g[t] = Append(f[o], 1)
      BY <1>5, <1>6, <1>7, <1>8, <1>10, <1>13, <1>19 DEF Paths
    <2>4. o \in L /\ t \notin L  BY <1>5
    <2> HIDE DEF L, f, g
    <2>5. FullTree(L \union {t}, g)  BY <2>1, <2>2, <2>3, <2>4, SplitTree
    <2>6. QED  BY <1>20, <2>5 DEF TreeOK, L, g
  <1>22. ASSUME NEW q \in Pages \ {p} PROVE PageOK(X, q)
    <2>1. PageOK(S1, q) /\ X.pages[q] = S1.pages[q] /\ X.dim = S1.dim
      BY <1>2, <1>18, <1>22 DEF Sound, SameRest
    <2>2. q # NoPage /\ S1.panes[t].page = NoPage /\ s.page = p
      BY <1>2, <1>5, <1>11, <1>13, <1>22, TabsConstants
    <2>3. Leaves(X, q) = Leaves(S1, q)  BY <1>5, <1>10, <1>19, <1>22, <2>2 DEF Leaves
    <2>4. \A u \in Leaves(S1, q) : X.panes[u] = S1.panes[u]
      BY <1>5, <1>19, <1>22, <2>2 DEF Leaves
    <2>5. SamePage(S1, X, q)  BY <2>1, <2>3, <2>4 DEF SamePage
    <2>6. QED  BY <2>1, <2>5, SamePageIsOK
  <1>23. \A w \in Windows : DialogOK(X, w)  BY <1>2, <1>18 DEF Sound, DialogOK, SameRest
  <1>24. AllButPage(X, p)  BY <1>17, <1>22, <1>23 DEF AllButPage
  <1>25. ZoomFits(X, p, t)  BY <1>2, <1>18 DEF ZoomFits
  <1>26. t \in Leaves(X, p)  BY <1>20
  <1>27. AllButPage(R, p) /\ PageOK(R, p)
    BY <1>15, <1>21, <1>24, <1>25, <1>26, SetFocusedRight
  <1>28. /\ SameRest(X, R) /\ (\A u \in Panes : SamePane(X, R, u)) /\ SameZoom(X, R, p)
         /\ \A q \in Pages \ {p} : R.pages[q] = X.pages[q]
    BY <1>15, <1>17, FocusFacts
  <1>29. ASSUME NEW u \in Panes PROVE BridgeOK(X, u)
    <2>1. CASE u = t  BY <1>10, <1>19, <2>1 DEF BridgeOK
    <2>2. CASE u = o
      <3>1. BridgeOK(S1, o)  BY <1>2, <1>5 DEF Sound
      <3>2. QED  BY <1>11, <1>13, <1>19, <2>2, <3>1 DEF BridgeOK
    <2>3. CASE u \notin {o, t}
      <3>1. BridgeOK(S1, u) /\ X.panes[u] = S1.panes[u]  BY <1>2, <1>19, <2>3 DEF Sound
      <3>2. QED  BY <3>1 DEF BridgeOK
    <2>4. QED  BY <2>1, <2>2, <2>3
  <1>30. Sound(R)
    <2>1. \A u \in Panes : BridgeOK(R, u)  BY <1>28, <1>29 DEF BridgeOK, SamePane
    <2>2. QED  BY <1>27, <2>1 DEF Sound, AllButPage
  <1>31. SameRest(S, R)  BY <1>2, <1>18, <1>28 DEF SameRest
  <1>32. ASSUME NEW u \in Panes \ {t}
         PROVE  R.panes[u].page = S.panes[u].page /\ R.panes[u].death = S.panes[u].death
    <2>1. X.panes[u].page = S1.panes[u].page /\ X.panes[u].death = S1.panes[u].death
      BY <1>11, <1>13, <1>19
    <2>2. QED  BY <1>2, <1>28, <2>1 DEF SamePane
  <1>33. R.panes[t].page = p /\ R.panes[t].death = "alive"
    BY <1>10, <1>19, <1>28 DEF SamePane
  <1>34. ASSUME NEW q \in Pages PROVE R.pages[q].pinned = S.pages[q].pinned
    <2>1. X.pages[q].pinned = S.pages[q].pinned  BY <1>2, <1>18
    <2>2. R.pages[q].pinned = X.pages[q].pinned  BY <1>28, Zenon DEF SameZoom
    <2>3. QED  BY <2>1, <2>2, Zenon
  <1>35. QED  BY <1>30, <1>31, <1>32, <1>33, <1>34 DEF Gains


\* An empty page holds no focus and no zoom.
LEMMA EmptyPage ==
  ASSUME NEW S, NEW p, PageOK(S, p), Leaves(S, p) = {}
  PROVE  S.pages[p].focused = NoPane /\ S.pages[p].zoomed = NoPane /\ S.pages[p].hidden = {}
  <1>1. S.pages[p].focused = NoPane  BY DEF PageOK, FocusOK
  <1>2. QED  BY <1>1 DEF PageOK, ZoomOK, ZoomFits

\* All of it is right, but for pane t, which is in no page.
SoundBut(S, t) ==
  /\ S \in Screens /\ S.panes[t].page = NoPage
  /\ \A u \in Panes \ {t} : BridgeOK(S, u)
  /\ \A w \in Windows : DialogOK(S, w)
  /\ \A q \in Pages : PageOK(S, q)

Put(S, t, r) == [S EXCEPT !.panes[t] = r]

\* A pane put into an empty page, as its root and with the focus.
LEMMA PutAloneSound ==
  ASSUME NEW S, NEW t \in Panes, SoundBut(S, t), NEW p \in Pages, Leaves(S, p) = {},
         NEW r \in PaneRecord, r.page = p, r.path = <<>>, r.bridge \in {NoPage, p},
         r.death # "alive" => r.bridge # NoPage,
         NEW X, X = Put(S, t, r), NEW R, R = SetFocused(X, p, t)
  PROVE  Sound(R) /\ Gains(S, R, p, t, r.death)
  <1>1. S \in Screens /\ PageOK(S, p) /\ p # NoPage /\ S.panes[t].page = NoPage
    BY TabsConstants DEF SoundBut
  <1>2. X \in Screens  BY <1>1, OneExcept DEF Put
  <1>3. X.pages = S.pages /\ SameRest(S, X) /\ X.panes = [S.panes EXCEPT ![t] = r]
    BY <1>1 DEF Screens, SameRest, Put
  <1>4. X.panes[t] = r /\ \A u \in Panes \ {t} : X.panes[u] = S.panes[u]
    BY <1>1, <1>3, ScreenType
  <1>5. Leaves(X, p) = {t}  BY <1>4 DEF Leaves
  <1>6. TreeOK(X, p)
    <2>1. Paths(X)[t] = <<>>  BY <1>4 DEF Paths
    <2>2. FullTree({t}, Paths(X))  BY <2>1, LoneTree
    <2>3. QED  BY <1>5, <2>2 DEF TreeOK
  <1>7. ZoomFits(X, p, t)  BY <1>1, <1>3, EmptyPage DEF ZoomFits
  <1>8. ASSUME NEW q \in Pages \ {p} PROVE PageOK(X, q)
    <2>1. PageOK(S, q) /\ X.pages[q] = S.pages[q] /\ X.dim = S.dim /\ q # NoPage
      BY <1>3, <1>8, TabsConstants DEF SoundBut, SameRest
    <2>2. Leaves(X, q) = Leaves(S, q) /\ \A u \in Leaves(S, q) : X.panes[u] = S.panes[u]
      BY <1>1, <1>4, <1>8, <2>1 DEF Leaves
    <2>3. SamePage(S, X, q)  BY <2>1, <2>2 DEF SamePage
    <2>4. QED  BY <2>1, <2>3, SamePageIsOK
  <1>9. \A w \in Windows : DialogOK(X, w)  BY <1>3 DEF SoundBut, DialogOK, SameRest
  <1>10. AllButPage(X, p)  BY <1>2, <1>8, <1>9 DEF AllButPage
  <1>11. t \in Leaves(X, p)  BY <1>5
  <1>12. AllButPage(R, p) /\ PageOK(R, p)
    BY <1>6, <1>7, <1>10, <1>11, SetFocusedRight
  <1>13. /\ SameRest(X, R) /\ (\A u \in Panes : SamePane(X, R, u)) /\ SameZoom(X, R, p)
         /\ \A q \in Pages \ {p} : R.pages[q] = X.pages[q]
    BY <1>2, FocusFacts
  <1>14. ASSUME NEW u \in Panes PROVE BridgeOK(R, u)
    <2>1. BridgeOK(X, u)
      <3>1. CASE u = t  BY <1>4, <3>1 DEF BridgeOK
      <3>2. CASE u # t  BY <1>4, <3>2 DEF SoundBut, BridgeOK
      <3>3. QED  BY <3>1, <3>2
    <2>2. QED  BY <1>13, <2>1 DEF BridgeOK, SamePane
  <1>15. Sound(R)  BY <1>12, <1>14 DEF Sound, AllButPage
  <1>16. SameRest(S, R)  BY <1>3, <1>13 DEF SameRest
  <1>17. \A u \in Panes \ {t} :
           R.panes[u].page = S.panes[u].page /\ R.panes[u].death = S.panes[u].death
    BY <1>4, <1>13 DEF SamePane
  <1>18. R.panes[t].page = p /\ R.panes[t].death = r.death  BY <1>4, <1>13 DEF SamePane
  <1>19. \A q \in Pages : R.pages[q].pinned = S.pages[q].pinned
    <2>1. \A q \in Pages : R.pages[q].pinned = X.pages[q].pinned  BY <1>13, Zenon DEF SameZoom
    <2>2. QED  BY <1>3, <2>1, Zenon
  <1>20. QED  BY <1>15, <1>16, <1>17, <1>18, <1>19 DEF Gains

\* What is right is right but for any pane.
LEMMA SoundIsSoundBut ==
  ASSUME NEW S, Sound(S), NEW t \in Panes, S.panes[t].page = NoPage
  PROVE  SoundBut(S, t)
  BY DEF Sound, SoundBut

\* A new page around one new pane.
LEMMA NewPageSound ==
  ASSUME NEW S, Sound(S), NEW p \in Pages, Leaves(S, p) = {},
         NEW t \in Panes, S.panes[t].page = NoPage, NEW ok \in BOOLEAN,
         NEW R, R = NewPage(S, p, t, ok)
  PROVE  Sound(R) /\ Gains(S, R, p, t, "alive")
  <1>1. PICK n \in Path : n = <<>>
    <2>1. <<>> \in Path  BY EmptySeq DEF Path
    <2>2. QED  BY <2>1
  <1>2. PICK r : r = [NoPaneRecord EXCEPT !.page = p, !.bridge = IF ok THEN p ELSE NoPage]
    OBVIOUS
  <1>3. FreshPane(r, p, n)  BY <1>1, <1>2, NewPaneIs
  <1>4. PICK X : X = Put(S, t, r)  OBVIOUS
  <1>5. R = SetFocused(X, p, t)  BY <1>2, <1>4 DEF NewPage, Put
  <1>6. /\ r \in PaneRecord /\ r.page = p /\ r.path = <<>> /\ r.bridge \in {NoPage, p}
        /\ r.death = "alive"
    BY <1>1, <1>3 DEF FreshPane
  <1>7. SoundBut(S, t)  BY SoundIsSoundBut
  <1>8. Sound(R) /\ Gains(S, R, p, t, r.death)  BY <1>4, <1>5, <1>6, <1>7, PutAloneSound
  <1>9. QED  BY <1>6, <1>8

\* The focused pane of a page with several leaves it, and lives in page q.
LEMMA MoveLeafSound ==
  ASSUME NEW S, Sound(S), NEW p \in Pages, S.pages[p].focused # NoPane,
         Cardinality(Leaves(S, p)) > 1, NEW q \in Pages, Leaves(S, q) = {},
         NEW t, t = S.pages[p].focused,
         NEW R, R = AdoptLeaf(TakeFocusedLeaf(S, p), q, t)
  PROVE  /\ Sound(R) /\ t \in Leaves(S, p) /\ Gains(S, R, q, t, S.panes[t].death)
         /\ \E u \in Leaves(S, p) : u # t
  <1>1. S \in Screens /\ PageOK(S, p)  BY DEF Sound
  <1>2. t \in Leaves(S, p) /\ t \in Panes  BY <1>1 DEF PageOK, FocusOK, Leaves
  <1>3. PICK x \in Leaves(S, p) : x # t  BY <1>2, LeavesCount
  <1>4. PICK S1 : S1 = Unzoom(S, p)  OBVIOUS
  <1>5. /\ Sound(S1) /\ S1.panes = S.panes /\ SameRest(S, S1)
        /\ S1.pages[p].zoomed = NoPane /\ S1.pages[p].hidden = {}
        /\ S1.pages[p].focused = S.pages[p].focused
        /\ S1.pages[p].pinned = S.pages[p].pinned
        /\ \A o \in Pages \ {p} : S1.pages[o] = S.pages[o]
    <2>1. Sound(S) /\ p \in Pages  OBVIOUS
    <2>2. QED  BY ONLY <1>4, <2>1, UnzoomSound
  <1>6. (\A o : Leaves(S1, o) = Leaves(S, o)) /\ S1 \in Screens  BY <1>5 DEF Leaves, Sound
  <1>7. S1.panes[t].path # <<>>
    <2>1. SUFFICES ASSUME S1.panes[t].path = <<>> PROVE FALSE  OBVIOUS
    <2>2. FullTree(Leaves(S, p), Paths(S)) /\ Paths(S)[t] = <<>>
      BY <1>1, <1>2, <1>5, <2>1 DEF PageOK, TreeOK, Paths
    <2>3. Leaves(S, p) = {t}  BY <1>2, <2>2, RootIsAlone
    <2>4. QED  BY <1>3, <2>3
  <1>8. PICK h \in Leaves(S1, p) \ {t} :
          h = FirstTerminal(S1, Under(S1, p, Sibling(S1.panes[t].path)))
    <2>1. FirstTerminal(S1, Under(S1, p, Sibling(S1.panes[t].path))) \in Leaves(S1, p) \ {t}
      BY <1>2, <1>5, <1>6, <1>7, HeirIs
    <2>2. QED  BY <2>1
  <1>9. PICK s \in PaneRecord : s = S1.panes[t]  BY <1>2, <1>6, PaneType
  <1>10. PICK r \in PaneRecord : r = [s EXCEPT !.page = NoPage]
    <2>1. NoPage \in Pages \union {NoPage}  OBVIOUS
    <2>2. [s EXCEPT !.page = NoPage] \in PaneRecord  BY <2>1, Zenon DEF PaneRecord
    <2>3. QED  BY <2>2
  <1>11. r.page = NoPage /\ r.bridge = s.bridge /\ r.death = s.death  BY <1>10 DEF PaneRecord
  <1>12. PICK X : X = [TakeOut(S1, p, t) EXCEPT !.panes[t].page = NoPage]  OBVIOUS
  <1>13. TakeOut(S1, p, t).panes[t] = s  BY <1>2, <1>9 DEF TakeOut, Screens
  <1>14. X = [TakeOut(S1, p, t) EXCEPT !.panes[t] = r]
    BY <1>10, <1>12, <1>13
  <1>15. Takes(S1, X, p, t, r)  BY <1>2, <1>5, <1>6, <1>7, <1>11, <1>14, TakeSound
  <1>16. PICK Y : Y = SetFocused(X, p, h)  OBVIOUS
  <1>17. Y = TakeFocusedLeaf(S, p)  BY <1>4, <1>8, <1>12, <1>16 DEF TakeFocusedLeaf
  <1>18. h \in Leaves(X, p) /\ X \in Screens /\ h \in Panes  BY <1>8, <1>15 DEF Takes, Leaves
  <1>19. ZoomFits(X, p, h)  BY <1>5, <1>15 DEF Takes, ZoomFits
  <1>20. AllButPage(Y, p) /\ PageOK(Y, p)
    BY <1>15, <1>16, <1>18, <1>19, SetFocusedRight DEF Takes
  <1>21. /\ SameRest(X, Y) /\ (\A u \in Panes : SamePane(X, Y, u)) /\ SameZoom(X, Y, p)
         /\ \A o \in Pages \ {p} : Y.pages[o] = X.pages[o]
         /\ \A u \in Panes : X.panes[u].page # p => Y.panes[u] = X.panes[u]
    BY <1>16, <1>18, FocusFacts
  <1>22. Y.panes[t] = r
    <2>1. X.panes[t] = r /\ r.page # p  BY <1>11, <1>15, TabsConstants DEF Takes
    <2>2. QED  BY <1>2, <1>21, <2>1
  <1>23. ASSUME NEW u \in Panes \ {t} PROVE BridgeOK(Y, u)
    <2>1. BridgeOK(S1, u)  BY <1>5 DEF Sound
    <2>2. BridgeOK(X, u)  BY <1>15, <2>1 DEF Takes, BridgeOK
    <2>3. QED  BY <1>21, <2>2 DEF BridgeOK, SamePane
  <1>24. SoundBut(Y, t)
    BY <1>11, <1>20, <1>22, <1>23 DEF SoundBut, AllButPage
  <1>25. \A u \in Panes \ {t} :
           Y.panes[u].page = S.panes[u].page /\ Y.panes[u].death = S.panes[u].death
    BY <1>5, <1>15, <1>21 DEF Takes, SamePane
  <1>26. Leaves(Y, q) = {}
    <2>1. q # NoPage /\ Y.panes[t].page = NoPage  BY <1>11, <1>22, TabsConstants
    <2>2. QED  BY <1>25, <2>1 DEF Leaves
  <1>27. PICK z : z = [r EXCEPT !.page = q, !.path = <<>>,
                                !.bridge = IF @ = NoPage THEN NoPage ELSE q]
    OBVIOUS
  <1>28. PICK b \in Pages \union {NoPage} : b = IF r.bridge = NoPage THEN NoPage ELSE q  OBVIOUS
  <1>29. z = [r EXCEPT !.page = q, !.path = <<>>, !.bridge = b]
    BY <1>27, <1>28 DEF PaneRecord
  <1>30. z \in PaneRecord
    <2>1. <<>> \in Path  BY EmptySeq DEF Path
    <2>2. PICK e \in Path : e = <<>>  BY <2>1
    <2>3. q \in Pages \union {NoPage}  OBVIOUS
    <2>4. [r EXCEPT !.page = q] \in PaneRecord  BY <2>3, Zenon DEF PaneRecord
    <2>5. PICK r1 \in PaneRecord : r1 = [r EXCEPT !.page = q]  BY <2>4
    <2>6. [r1 EXCEPT !.path = e] \in PaneRecord  BY Zenon DEF PaneRecord
    <2>7. PICK r2 \in PaneRecord : r2 = [r1 EXCEPT !.path = e]  BY <2>6
    <2>8. [r2 EXCEPT !.bridge = b] \in PaneRecord  BY Zenon DEF PaneRecord
    <2>9. z = [r2 EXCEPT !.bridge = b]  BY <1>29, <2>2, <2>5, <2>7
    <2>10. QED  BY <2>8, <2>9
  <1>31. z.page = q /\ z.path = <<>> /\ z.bridge = b /\ z.death = r.death
    BY <1>29 DEF PaneRecord
  <1>32. PICK Z : Z = Put(Y, t, z)  OBVIOUS
  <1>33. R = SetFocused(Z, q, t)
    <2>1. Z = [Y EXCEPT !.panes[t].page = q, !.panes[t].path = <<>>,
                        !.panes[t].bridge = IF @ = NoPage THEN NoPage ELSE q]
      <3>1. Y \in Screens  BY <1>24 DEF SoundBut
      <3>2. Y.panes[t] = r /\ t \in DOMAIN Y.panes  BY <1>2, <1>22, <3>1, ScreenType
      <3>3. QED  BY <1>27, <1>32, <3>1, <3>2 DEF Screens, Put
    <2>2. QED  BY <1>17, <2>1 DEF AdoptLeaf
  <1>34. z.death # "alive" => z.bridge # NoPage
    <2>1. BridgeOK(S1, t)  BY <1>2, <1>5 DEF Sound
    <2>2. s.death # "alive" => s.bridge # NoPage  BY <1>9, <2>1 DEF BridgeOK
    <2>3. QED  BY <1>11, <1>28, <1>31, <2>2, TabsConstants
  <1>35. Sound(R) /\ Gains(Y, R, q, t, z.death)
    <2>1. z.bridge \in {NoPage, q}  BY <1>28, <1>31
    <2>2. t \in Panes /\ q \in Pages  BY <1>2
    <2>3. QED
      BY ONLY <1>24, <1>26, <1>30, <1>31, <1>32, <1>33, <1>34, <2>1, <2>2, PutAloneSound
  <1>36. SameRest(S, R)  BY <1>5, <1>15, <1>21, <1>35 DEF Gains, Takes, SameRest
  <1>37. ASSUME NEW o \in Pages PROVE R.pages[o].pinned = S.pages[o].pinned
    <2>1. X.pages[o].pinned = S.pages[o].pinned  BY <1>5, <1>15 DEF Takes
    <2>2. Y.pages[o].pinned = X.pages[o].pinned  BY <1>21, Zenon DEF SameZoom
    <2>3. R.pages[o].pinned = Y.pages[o].pinned  BY <1>35, Zenon DEF Gains
    <2>4. QED  BY <2>1, <2>2, <2>3, Zenon
  <1>38. z.death = S.panes[t].death  BY <1>5, <1>9, <1>11, <1>31
  <1>39. Gains(S, R, q, t, S.panes[t].death)
    <2>1. R.panes[t].page = q /\ R.panes[t].death = S.panes[t].death
      BY <1>35, <1>38 DEF Gains
    <2>2. ASSUME NEW u \in Panes \ {t}
          PROVE  R.panes[u].page = S.panes[u].page /\ R.panes[u].death = S.panes[u].death
      <3>1. R.panes[u].page = Y.panes[u].page /\ R.panes[u].death = Y.panes[u].death
        BY <1>35 DEF Gains
      <3>2. QED  BY <1>25, <3>1
    <2>3. QED  BY ONLY <1>36, <1>37, <2>1, <2>2 DEF Gains
  <1>40. QED  BY <1>2, <1>3, <1>35, <1>39


-----------------------------------------------------------------------------
(* Places in windows *)

\* No shell is seen to have exited that was not seen before.
Calm(S, R) == \A t \in Panes : R.panes[t].death = "ran" => S.panes[t].death = "ran"

Holds(s, x) == \E i \in DOMAIN s : s[i] = x

\* Every place and every window is as good as before.
LEMMA TabsFrame ==
  ASSUME NEW S, TabsOK(S), NEW R, R.lost = S.lost,
         \A w \in Windows : WindowOK(R.windows[w]),
         \A w \in Windows : \A p \in Pages : InWindow(R, w, p) <=> InWindow(S, w, p),
         \A p \in Pages : Leaves(R, p) = {} <=> Leaves(S, p) = {}
  PROVE  TabsOK(R)
  <1>1. Placed(S)  BY DEF TabsOK
  <1>2. \A v, w \in Windows : \A p \in Pages : InWindow(R, v, p) /\ InWindow(R, w, p) => v = w
    BY <1>1 DEF Placed
  <1>3. \A p \in Pages : Leaves(R, p) # {} => p \in R.lost \/ \E w \in Windows : InWindow(R, w, p)
    BY <1>1 DEF Placed
  <1>4. \A w \in Windows : \A p \in Pages : InWindow(R, w, p) => Leaves(R, p) # {}
    BY <1>1 DEF Placed
  <1>5. QED  BY <1>2, <1>3, <1>4 DEF TabsOK, Placed

\* So it is if the panes are where they were, and the tabs.
LEMMA SameTabs ==
  ASSUME NEW S, TabsOK(S), NEW R, R.windows = S.windows, R.lost = S.lost,
         \A p \in Pages : Leaves(R, p) = {} <=> Leaves(S, p) = {}
  PROVE  TabsOK(R)
  <1>1. \A w \in Windows : WindowOK(R.windows[w])  BY DEF TabsOK
  <1>2. \A w \in Windows : \A p \in Pages : InWindow(R, w, p) <=> InWindow(S, w, p)
    BY DEF InWindow
  <1>3. QED  BY <1>1, <1>2, TabsFrame

\* Nothing moved.
LEMMA SamePanesStay ==
  ASSUME NEW S, TabsOK(S), NEW R, R.windows = S.windows, R.lost = S.lost,
         \A u \in Panes : R.panes[u].page = S.panes[u].page /\ R.panes[u].death = S.panes[u].death
  PROVE  TabsOK(R) /\ Calm(S, R)
  <1>1. \A p : Leaves(R, p) = Leaves(S, p)  BY DEF Leaves
  <1>2. QED  BY <1>1, SameTabs DEF Calm

\* A page lost one of several panes.
LEMMA LossStays ==
  ASSUME NEW S, TabsOK(S), NEW p \in Pages, NEW t \in Leaves(S, p),
         NEW u \in Leaves(S, p), u # t, NEW R, LosesPane(S, R, t)
  PROVE  TabsOK(R) /\ Calm(S, R)
  <1>1. R.panes[t].page = NoPage /\ R.panes[t].death = "alive" /\ t \in Panes /\ S.panes[t].page = p
    BY DEF LosesPane, NoPaneRecord, Leaves
  <1>2. \A v \in Panes \ {t} : R.panes[v].page = S.panes[v].page /\ R.panes[v].death = S.panes[v].death
    BY DEF LosesPane
  <1>3. Leaves(R, p) # {}
    <2>1. u \in Panes \ {t} /\ S.panes[u].page = p  BY DEF Leaves
    <2>2. u \in Leaves(R, p)  BY <1>2, <2>1 DEF Leaves
    <2>3. QED  BY <2>2
  <1>4. \A q \in Pages \ {p} : Leaves(R, q) = Leaves(S, q)
    <2>1. NoPage \notin Pages  BY TabsConstants
    <2>2. QED  BY <1>1, <1>2, <2>1 DEF Leaves
  <1>5. \A q \in Pages : Leaves(R, q) = {} <=> Leaves(S, q) = {}  BY <1>3, <1>4
  <1>6. R.windows = S.windows /\ R.lost = S.lost  BY DEF LosesPane, SameRest
  <1>7. TabsOK(R)  BY <1>5, <1>6, SameTabs
  <1>8. Calm(S, R)  BY <1>1, <1>2 DEF Calm
  <1>9. QED  BY <1>7, <1>8

\* A page got another pane.
LEMMA GainStays ==
  ASSUME NEW S, TabsOK(S), NEW p \in Pages, Leaves(S, p) # {},
         NEW t \in Panes, S.panes[t].page = NoPage, NEW R, Gains(S, R, p, t, "alive")
  PROVE  TabsOK(R) /\ Calm(S, R)
  <1>1. R.panes[t].page = p /\ R.panes[t].death = "alive"  BY DEF Gains
  <1>2. \A v \in Panes \ {t} : R.panes[v].page = S.panes[v].page /\ R.panes[v].death = S.panes[v].death
    BY DEF Gains
  <1>3. Leaves(R, p) # {}  BY <1>1 DEF Leaves
  <1>4. \A q \in Pages \ {p} : Leaves(R, q) = Leaves(S, q)
    <2>1. NoPage \notin Pages  BY TabsConstants
    <2>2. QED  BY <1>1, <1>2, <2>1 DEF Leaves
  <1>5. \A q \in Pages : Leaves(R, q) = {} <=> Leaves(S, q) = {}  BY <1>3, <1>4
  <1>6. R.windows = S.windows /\ R.lost = S.lost  BY DEF Gains, SameRest
  <1>7. TabsOK(R)  BY <1>5, <1>6, SameTabs
  <1>8. Calm(S, R)  BY <1>1, <1>2 DEF Calm
  <1>9. QED  BY <1>7, <1>8

\* The tabs of a window without p.
LEMMA WithoutHolds ==
  ASSUME NEW S \in Screens, NEW w \in Windows, NEW p, InWindow(S, w, p),
         IsInjective(S.windows[w].tabs)
  PROVE  /\ IsInjective(Without(S, w, p))
         /\ \A x : Holds(Without(S, w, p), x) <=> x # p /\ InWindow(S, w, x)
         /\ Without(S, w, p) = <<>> <=> Len(S.windows[w].tabs) < 2
  <1>1. PICK s \in Seq(Pages) : s = S.windows[w].tabs  BY WindowType
  <1>2. PICK k : k = Position(S, w, p)  OBVIOUS
  <1>3. PICK r : r = Without(S, w, p)  OBVIOUS
  <1>4. /\ k \in 1..Len(s) /\ s[k] = p
        /\ r \in Seq(Pages) /\ Len(r) = Len(s) - 1 /\ Len(s) \in Nat \ {0}
        /\ \A j \in 1 .. Len(s) - 1 : r[j] = IF j < k THEN s[j] ELSE s[j + 1]
    BY <1>1, <1>2, <1>3, WithoutIs
  <1>5. DOMAIN s = 1..Len(s) /\ DOMAIN r = 1 .. Len(s) - 1  BY <1>1, <1>4, LenProperties
  <1>6. \A i, j \in 1..Len(s) : s[i] = s[j] => i = j  BY <1>1, <1>5 DEF IsInjective
  <1>7. IsInjective(r)
    <2>1. ASSUME NEW i \in 1 .. Len(s) - 1, NEW j \in 1 .. Len(s) - 1, r[i] = r[j] PROVE i = j
      <3>1. i \in 1..Len(s) /\ i + 1 \in 1..Len(s) /\ j \in 1..Len(s) /\ j + 1 \in 1..Len(s)
        BY <1>4, <2>1
      <3>2. CASE i < k /\ j < k  BY <1>4, <1>6, <2>1, <3>1, <3>2
      <3>3. CASE i < k /\ ~(j < k)
        <4>1. s[i] = s[j + 1]  BY <1>4, <2>1, <3>3
        <4>2. i = j + 1  BY <1>6, <3>1, <4>1
        <4>3. QED  BY <1>4, <2>1, <3>3, <4>2
      <3>4. CASE ~(i < k) /\ j < k
        <4>1. s[i + 1] = s[j]  BY <1>4, <2>1, <3>4
        <4>2. i + 1 = j  BY <1>6, <3>1, <4>1
        <4>3. QED  BY <1>4, <2>1, <3>4, <4>2
      <3>5. CASE ~(i < k) /\ ~(j < k)
        <4>1. s[i + 1] = s[j + 1]  BY <1>4, <2>1, <3>5
        <4>2. i + 1 = j + 1  BY <1>6, <3>1, <4>1
        <4>3. QED  BY <2>1, <4>2
      <3>6. QED  BY <3>2, <3>3, <3>4, <3>5
    <2>2. QED  BY <1>5, <2>1 DEF IsInjective
  <1>8. ASSUME NEW x PROVE Holds(r, x) <=> x # p /\ Holds(s, x)
    <2>1. ASSUME Holds(r, x) PROVE x # p /\ Holds(s, x)
      <3>1. PICK j \in 1 .. Len(s) - 1 : r[j] = x  BY <1>5, <2>1 DEF Holds
      <3>2. PICK i \in 1..Len(s) : i # k /\ s[i] = x
        <4>1. j \in 1..Len(s) /\ j + 1 \in 1..Len(s) /\ (j < k => j # k) /\ (~(j < k) => j + 1 # k)
          BY <1>4, <3>1
        <4>2. QED  BY <1>4, <3>1, <4>1
      <3>3. x # p  BY <1>4, <1>6, <3>2
      <3>4. QED  BY <1>5, <3>2, <3>3 DEF Holds
    <2>2. ASSUME x # p, Holds(s, x) PROVE Holds(r, x)
      <3>1. PICK i \in 1..Len(s) : s[i] = x  BY <1>5, <2>2 DEF Holds
      <3>2. i # k  BY <1>4, <2>2, <3>1
      <3>3. CASE i < k
        <4>1. i \in 1 .. Len(s) - 1  BY <1>4, <3>1, <3>3
        <4>2. r[i] = x  BY <1>4, <3>1, <3>3, <4>1
        <4>3. QED  BY <1>5, <4>1, <4>2 DEF Holds
      <3>4. CASE ~(i < k)
        <4>1. i - 1 \in 1 .. Len(s) - 1 /\ ~(i - 1 < k) /\ (i - 1) + 1 = i  BY <1>4, <3>1, <3>2, <3>4
        <4>2. r[i - 1] = x  BY <1>4, <3>1, <4>1
        <4>3. QED  BY <1>5, <4>1, <4>2 DEF Holds
      <3>5. QED  BY <3>3, <3>4
    <2>3. QED  BY <2>1, <2>2
  <1>9. r = <<>> <=> Len(s) < 2
    <2>1. r = <<>> <=> Len(r) = 0  BY <1>4, EmptySeq
    <2>2. QED  BY <1>4, <2>1
  <1>10. \A x : InWindow(S, w, x) <=> Holds(s, x)  BY <1>1 DEF InWindow, Holds
  <1>11. QED  BY <1>1, <1>3, <1>7, <1>8, <1>9, <1>10

\* The tabs with p inserted after k of them.
LEMMA InsertHolds ==
  ASSUME NEW s \in Seq(Pages), NEW k \in 0 .. Len(s), NEW p \in Pages,
         IsInjective(s), ~Holds(s, p), NEW r, r = InsertAt(s, k + 1, p)
  PROVE  /\ r \in Seq(Pages) /\ IsInjective(r)
         /\ \A x : Holds(r, x) <=> x = p \/ Holds(s, x)
  <1>1. /\ r \in Seq(Pages) /\ Len(r) = Len(s) + 1 /\ Len(s) \in Nat
        /\ \A j \in 1 .. Len(s) + 1 :
             r[j] = IF j <= k THEN s[j] ELSE IF j = k + 1 THEN p ELSE s[j - 1]
    <2>1. s \in Seq(Pages) /\ k \in 0 .. Len(s) /\ p \in Pages /\ r = InsertAt(s, k + 1, p)
      OBVIOUS
    <2>2. QED  BY ONLY <2>1, InsertAtIs
  <1>2. DOMAIN s = 1..Len(s) /\ DOMAIN r = 1 .. Len(s) + 1  BY <1>1, LenProperties
  <1>3. \A i, j \in 1..Len(s) : s[i] = s[j] => i = j  BY <1>2 DEF IsInjective
  <1>4. \A i \in 1..Len(s) : s[i] # p  BY <1>2 DEF Holds
  <1>5. k + 1 \in 1 .. Len(s) + 1 /\ r[k + 1] = p
    <2>1. k + 1 \in 1 .. Len(s) + 1 /\ ~(k + 1 <= k)  BY <1>1
    <2>2. QED  BY <1>1, <2>1
  <1>6. ASSUME NEW j \in 1 .. Len(s) + 1, j # k + 1
        PROVE  \E i \in 1..Len(s) : s[i] = r[j] /\ i = (IF j <= k THEN j ELSE j - 1)
    <2>1. CASE j <= k
      <3>1. j \in 1..Len(s)  BY <1>1, <1>6, <2>1
      <3>2. QED  BY <1>1, <2>1, <3>1
    <2>2. CASE ~(j <= k)
      <3>1. j - 1 \in 1..Len(s)  BY <1>1, <1>6, <2>2
      <3>2. r[j] = s[j - 1]  BY <1>1, <1>6, <2>2
      <3>3. QED  BY <2>2, <3>1, <3>2
    <2>3. QED  BY <2>1, <2>2
  <1>7. ASSUME NEW i \in 1 .. Len(s) + 1, NEW j \in 1 .. Len(s) + 1, r[i] = r[j] PROVE i = j
    <2>1. CASE i = k + 1
      <3>1. SUFFICES ASSUME j # k + 1 PROVE FALSE  BY <2>1
      <3>2. PICK a \in 1..Len(s) : s[a] = r[j]  BY <1>6, <1>7, <3>1
      <3>3. QED  BY <1>4, <1>5, <1>7, <2>1, <3>2
    <2>2. CASE j = k + 1
      <3>1. SUFFICES ASSUME i # k + 1 PROVE FALSE  BY <2>2
      <3>2. PICK a \in 1..Len(s) : s[a] = r[i]  BY <1>6, <1>7, <3>1
      <3>3. QED  BY <1>4, <1>5, <1>7, <2>2, <3>2
    <2>3. CASE i # k + 1 /\ j # k + 1
      <3>1. PICK a \in 1..Len(s) : s[a] = r[i] /\ a = (IF i <= k THEN i ELSE i - 1)
        BY <1>6, <1>7, <2>3
      <3>2. PICK b \in 1..Len(s) : s[b] = r[j] /\ b = (IF j <= k THEN j ELSE j - 1)
        BY <1>6, <1>7, <2>3
      <3>3. a = b  BY <1>3, <1>7, <3>1, <3>2
      <3>4. i \in Int /\ j \in Int /\ k \in Int  BY <1>1, <1>7
      <3>5. QED  BY <2>3, <3>1, <3>2, <3>3, <3>4
    <2>4. QED  BY <2>1, <2>2, <2>3
  <1>8. IsInjective(r)  BY <1>2, <1>7 DEF IsInjective
  <1>9. ASSUME NEW x PROVE Holds(r, x) <=> x = p \/ Holds(s, x)
    <2>1. ASSUME Holds(r, x), x # p PROVE Holds(s, x)
      <3>1. PICK j \in 1 .. Len(s) + 1 : r[j] = x  BY <1>2, <2>1 DEF Holds
      <3>2. j # k + 1  BY <1>5, <2>1, <3>1
      <3>3. PICK i \in 1..Len(s) : s[i] = r[j]  BY <1>6, <3>1, <3>2
      <3>4. QED  BY <1>2, <3>1, <3>3 DEF Holds
    <2>2. Holds(r, p)  BY <1>2, <1>5 DEF Holds
    <2>3. ASSUME Holds(s, x) PROVE Holds(r, x)
      <3>1. PICK i \in 1..Len(s) : s[i] = x  BY <1>2, <2>3 DEF Holds
      <3>2. CASE i <= k
        <4>1. i \in 1 .. Len(s) + 1  BY <1>1, <3>1
        <4>2. r[i] = x  BY <1>1, <3>1, <3>2, <4>1
        <4>3. QED  BY <1>2, <4>1, <4>2 DEF Holds
      <3>3. CASE ~(i <= k)
        <4>1. i + 1 \in 1 .. Len(s) + 1 /\ ~(i + 1 <= k) /\ i + 1 # k + 1 /\ (i + 1) - 1 = i
          BY <1>1, <3>1, <3>3
        <4>2. r[i + 1] = x  BY <1>1, <3>1, <4>1
        <4>3. QED  BY <1>2, <4>1, <4>2 DEF Holds
      <3>4. QED  BY <3>2, <3>3
    <2>4. QED  BY <2>1, <2>2, <2>3
  <1>10. QED  BY <1>1, <1>8, <1>9


\* A window whose menu was cleared of a page is as good as its tabs are.
LEMMA ClearedWindow ==
  ASSUME NEW s, WindowOK(s), NEW P, NoPage \notin P, NEW r, MenuCleared(r, s, P),
         IsInjective(r.tabs), ~r.open => r.tabs = <<>>, r.open => Holds(r.tabs, r.selected)
  PROVE  WindowOK(r)
  <1>1. ~r.open => r.menuOpen = NoPage  BY DEF WindowOK, MenuCleared
  <1>2. r.menuOpen # NoPage => r.menuPage = r.menuOpen  BY DEF WindowOK, MenuCleared
  <1>3. r.menuIdle => r.menuOpen = NoPage
    <2>1. r.menuIdle = s.menuIdle  BY DEF MenuCleared
    <2>2. s.menuOpen = NoPage => r.menuOpen = NoPage  BY DEF MenuCleared
    <2>3. QED  BY <2>1, <2>2, Zenon DEF WindowOK
  <1>4. QED  BY <1>1, <1>2, <1>3, Zenon DEF WindowOK, Holds

\* No window is a good one.
LEMMA NoWindowOK == WindowOK(NoWindowRecord) /\ \A x : ~Holds(NoWindowRecord.tabs, x)
  <1>1. DOMAIN <<>> = {}  OBVIOUS
  <1>2. IsInjective(<<>>)  BY <1>1 DEF IsInjective
  <1>3. QED  BY <1>1, <1>2 DEF WindowOK, Holds, NoWindowRecord

\* A window that shows a page is open, and shows its selected page.
LEMMA ShowsIsOpen ==
  ASSUME NEW S, TabsOK(S), NEW w \in Windows, NEW p, InWindow(S, w, p)
  PROVE  /\ S.windows[w].open /\ InWindow(S, w, S.windows[w].selected)
         /\ IsInjective(S.windows[w].tabs) /\ S.windows[w].tabs # <<>>
  <1>1. WindowOK(S.windows[w])  BY DEF TabsOK
  <1>2. S.windows[w].tabs # <<>>
    <2>1. DOMAIN <<>> = {}  OBVIOUS
    <2>2. QED  BY <2>1 DEF InWindow
  <1>3. QED  BY <1>1, <1>2, Zenon DEF WindowOK, InWindow

\* Closing a page leaves the other ones in their places.
LEMMA CloseStays ==
  ASSUME NEW S, Sound(S), TabsOK(S), NEW w \in Windows, NEW p \in Pages, InWindow(S, w, p),
         NEW next \in Successors(S, w, p), NEW R, Closes(S, R, w, p, next)
  PROVE  TabsOK(R) /\ Calm(S, R)
  <1>1. S \in Screens /\ Placed(S) /\ WindowOK(S.windows[w])  BY DEF Sound, TabsOK
  <1>2. S.windows[w].open /\ InWindow(S, w, S.windows[w].selected) /\ IsInjective(S.windows[w].tabs)
    BY ShowsIsOpen
  <1>3. PICK r : r = Without(S, w, p)  OBVIOUS
  <1>4. IsInjective(r) /\ (\A x : Holds(r, x) <=> x # p /\ InWindow(S, w, x))
        /\ (r = <<>> <=> Len(S.windows[w].tabs) < 2)
    BY <1>1, <1>2, <1>3, WithoutHolds
  <1>5. NoPage \notin {p}  BY TabsConstants
  <1>6. w # NoWindow  BY TabsConstants
  <1>7. WindowOK(R.windows[w]) /\ \A x : Holds(R.windows[w].tabs, x) <=> x # p /\ InWindow(S, w, x)
    <2>1. CASE r = <<>>
      <3>1. R.windows[w] = NoWindowRecord  BY <1>3, <2>1 DEF Closes
      <3>2. \A x : ~Holds(r, x)  BY <2>1, NoWindowOK DEF NoWindowRecord
      <3>3. QED  BY <1>4, <3>1, <3>2, NoWindowOK
    <2>2. CASE r # <<>>
      <3>1. /\ MenuCleared(R.windows[w], S.windows[w], {p}) /\ R.windows[w].tabs = r
            /\ R.windows[w].selected = IF S.windows[w].selected = p THEN next ELSE S.windows[w].selected
        BY <1>3, <2>2 DEF Closes
      <3>2. next # p /\ InWindow(S, w, next)  BY <1>4, <1>6, <2>2 DEF Successors
      <3>3. Holds(r, R.windows[w].selected)  BY <1>2, <1>4, <3>1, <3>2
      <3>4. R.windows[w].open  BY <1>2, <3>1, Zenon DEF MenuCleared
      <3>5. WindowOK(R.windows[w])  BY <1>1, <1>4, <1>5, <3>1, <3>3, <3>4, ClearedWindow
      <3>6. QED  BY <1>4, <3>1, <3>5
    <2>3. QED  BY <2>1, <2>2
  <1>8. ASSUME NEW v \in Windows \ {w}
        PROVE  WindowOK(R.windows[v]) /\ R.windows[v].tabs = S.windows[v].tabs
    <2>1. /\ MenuCleared(R.windows[v], S.windows[v], {p})
          /\ R.windows[v].tabs = S.windows[v].tabs /\ R.windows[v].selected = S.windows[v].selected
      BY DEF Closes
    <2>2. WindowOK(S.windows[v])  BY DEF TabsOK
    <2>3. R.windows[v].open = S.windows[v].open  BY <2>1, Zenon DEF MenuCleared
    <2>4. IsInjective(R.windows[v].tabs)  BY <2>1, <2>2 DEF WindowOK
    <2>5. ~R.windows[v].open => R.windows[v].tabs = <<>>  BY <2>1, <2>2, <2>3, Zenon DEF WindowOK
    <2>6. R.windows[v].open => Holds(R.windows[v].tabs, R.windows[v].selected)
      BY <2>1, <2>2, <2>3, Zenon DEF WindowOK, Holds
    <2>7. QED  BY <1>5, <2>1, <2>2, <2>4, <2>5, <2>6, ClearedWindow
  <1>9. \A v \in Windows : \A q \in Pages : InWindow(R, v, q) <=> q # p /\ InWindow(S, v, q)
    <2>1. ASSUME NEW q \in Pages PROVE InWindow(R, w, q) <=> q # p /\ InWindow(S, w, q)
      BY <1>7 DEF InWindow, Holds
    <2>2. ASSUME NEW v \in Windows \ {w}, NEW q \in Pages
          PROVE  InWindow(R, v, q) <=> q # p /\ InWindow(S, v, q)
      <3>1. InWindow(R, v, q) <=> InWindow(S, v, q)  BY <1>8 DEF InWindow
      <3>2. ~InWindow(S, v, p)  BY <1>1 DEF Placed
      <3>3. QED  BY <3>1, <3>2
    <2>3. QED  BY <2>1, <2>2
  <1>10. Leaves(R, p) = {} /\ \A q \in Pages \ {p} : Leaves(R, q) = Leaves(S, q)
    <2>1. NoPaneRecord.page = NoPage /\ NoPage \notin Pages  BY TabsConstants DEF NoPaneRecord
    <2>2. QED  BY <2>1 DEF Closes, Leaves, SamePane
  <1>11. Placed(R)
    <2>1. R.lost = S.lost  BY DEF Closes
    <2>2. ASSUME NEW q \in Pages, Leaves(R, q) # {}
          PROVE  q \in R.lost \/ \E v \in Windows : InWindow(R, v, q)
      BY <1>1, <1>9, <1>10, <2>1, <2>2 DEF Placed
    <2>3. \A v \in Windows : \A q \in Pages : InWindow(R, v, q) => Leaves(R, q) # {}
      BY <1>1, <1>9, <1>10 DEF Placed
    <2>4. \A u, v \in Windows : \A q \in Pages : InWindow(R, u, q) /\ InWindow(R, v, q) => u = v
      BY <1>1, <1>9 DEF Placed
    <2>5. QED  BY <2>2, <2>3, <2>4 DEF Placed
  <1>12. TabsOK(R)  BY <1>7, <1>8, <1>11 DEF TabsOK
  <1>13. Calm(S, R)
    <2>1. NoPaneRecord.death = "alive"  BY DEF NoPaneRecord
    <2>2. QED  BY <2>1 DEF Closes, SamePane, Calm
  <1>14. QED  BY <1>12, <1>13

\* What removing a pane leaves of the places.
LEMMA RemovalStays ==
  ASSUME NEW S, Sound(S), TabsOK(S), NEW p \in Pages, NEW t \in Leaves(S, p),
         NEW next \in Successors(S, WindowOf(S, p), p),
         NEW R, R = RemoveTerminal(S, p, t, next)
  PROVE  /\ Sound(R) /\ TabsOK(R) /\ Calm(S, R)
         /\ \/ R.panes[t] = NoPaneRecord
            \/ S.pages[p].pinned
            \/ p \in S.lost
  <1>1. next \in Pages \union {NoPage}  BY DEF Successors
  <1>2. /\ Sound(R)
        /\ \/ LosesPane(S, R, t) /\ \E u \in Leaves(S, p) : u # t
           \/ KeepsPage(S, R, p)
           \/ \E w \in Windows : InWindow(S, w, p) /\ Closes(S, R, w, p, next)
    BY <1>1, RemoveTerminalSound
  <1>3. ASSUME LosesPane(S, R, t), NEW u \in Leaves(S, p), u # t
        PROVE  TabsOK(R) /\ Calm(S, R) /\ R.panes[t] = NoPaneRecord
    <2>1. TabsOK(R) /\ Calm(S, R)  BY <1>3, LossStays
    <2>2. QED  BY <1>3, <2>1 DEF LosesPane
  <1>4. ASSUME KeepsPage(S, R, p)
        PROVE  TabsOK(R) /\ Calm(S, R) /\ (S.pages[p].pinned \/ p \in S.lost)
    <2>1. R.panes = S.panes /\ R.windows = S.windows /\ R.lost = S.lost
      BY <1>4 DEF KeepsPage, SameRest
    <2>2. TabsOK(R) /\ Calm(S, R)  BY <2>1, SamePanesStay
    <2>3. CASE \A w \in Windows : ~InWindow(S, w, p)
      <3>1. Leaves(S, p) # {}  OBVIOUS
      <3>2. p \in S.lost  BY <2>3, <3>1 DEF TabsOK, Placed
      <3>3. QED  BY <2>2, <3>2
    <2>4. QED  BY <1>4, <2>2, <2>3 DEF KeepsPage
  <1>5. ASSUME NEW w \in Windows, InWindow(S, w, p), Closes(S, R, w, p, next)
        PROVE  TabsOK(R) /\ Calm(S, R) /\ R.panes[t] = NoPaneRecord
    <2>1. WindowOf(S, p) = w
      <3>1. WindowOf(S, p) \in Windows /\ InWindow(S, WindowOf(S, p), p)  BY <1>5, WindowOfIs
      <3>2. QED  BY <1>5, <3>1 DEF TabsOK, Placed
    <2>2. next \in Successors(S, w, p)  BY <2>1
    <2>3. TabsOK(R) /\ Calm(S, R)  BY <1>5, <2>2, CloseStays
    <2>4. R.panes[t] = NoPaneRecord  BY <1>5 DEF Closes, Leaves
    <2>5. QED  BY <2>3, <2>4
  <1>6. QED  BY <1>2, <1>3, <1>4, <1>5

\* The window that shows a page is the only one.
LEMMA OneWindowOf ==
  ASSUME NEW S, TabsOK(S), NEW w \in Windows, NEW p \in Pages, InWindow(S, w, p)
  PROVE  WindowOf(S, p) = w
  <1>1. WindowOf(S, p) \in Windows /\ InWindow(S, WindowOf(S, p), p)  BY WindowOfIs
  <1>2. QED  BY <1>1 DEF TabsOK, Placed

\* A page comes to window w, where its panes are.
LEMMA AttachStays ==
  ASSUME NEW S, TabsOK(S), NEW w \in Windows, NEW q \in Pages, NEW R, R.lost = S.lost,
         \A v \in Windows \ {w} : R.windows[v] = S.windows[v], WindowOK(R.windows[w]),
         \A p \in Pages : Holds(R.windows[w].tabs, p) <=> p = q \/ InWindow(S, w, p),
         \A v \in Windows : ~InWindow(S, v, q), Leaves(R, q) # {},
         \A p \in Pages \ {q} : Leaves(R, p) = {} <=> Leaves(S, p) = {}
  PROVE  TabsOK(R)
  <1>1. Placed(S)  BY DEF TabsOK
  <1>2. \A v \in Windows : WindowOK(R.windows[v])  BY DEF TabsOK
  <1>3. \A v \in Windows : \A p \in Pages : InWindow(R, v, p) <=> InWindow(S, v, p) \/ (v = w /\ p = q)
    <2>1. \A p \in Pages : InWindow(R, w, p) <=> p = q \/ InWindow(S, w, p)  BY DEF InWindow, Holds
    <2>2. \A v \in Windows \ {w} : \A p : InWindow(R, v, p) <=> InWindow(S, v, p)  BY DEF InWindow
    <2>3. QED  BY <2>1, <2>2
  <1>4. \A u, v \in Windows : \A p \in Pages : InWindow(R, u, p) /\ InWindow(R, v, p) => u = v
    BY <1>1, <1>3 DEF Placed
  <1>5. \A p \in Pages : Leaves(R, p) # {} => p \in R.lost \/ \E v \in Windows : InWindow(R, v, p)
    BY <1>1, <1>3 DEF Placed
  <1>6. \A v \in Windows : \A p \in Pages : InWindow(R, v, p) => Leaves(R, p) # {}
    BY <1>1, <1>3 DEF Placed
  <1>7. QED  BY <1>2, <1>4, <1>5, <1>6 DEF TabsOK, Placed


\* R is S with page p among the tabs of window w, after k others, and selected.
Attaches(S, R, w, p, k) ==
  /\ SamePlaces(S, R) /\ R.dim = S.dim
  /\ R.windows[w].tabs = InsertAt(S.windows[w].tabs, k + 1, p)
  /\ R.windows[w].selected = p /\ SameMenu(R.windows[w], S.windows[w])
  /\ \A v \in Windows \ {w} : R.windows[v] = S.windows[v]

\* Attaching a page changes the tabs, the selection and the focus.
LEMMA AttachSound ==
  ASSUME NEW S, Sound(S), NEW w \in Windows, NEW p \in Pages,
         NEW k \in 0 .. Len(S.windows[w].tabs), NEW R, R = AttachAt(S, w, p, k)
  PROVE  Sound(R) /\ Attaches(S, R, w, p, k)
  <1>1. PICK s \in Seq(Pages) : s = InsertAt(S.windows[w].tabs, k + 1, p)
    <2>1. PICK s0 \in Seq(Pages) : s0 = S.windows[w].tabs  BY WindowType DEF Sound
    <2>2. k \in 0 .. Len(s0)  BY <2>1
    <2>3. InsertAt(s0, k + 1, p) \in Seq(Pages)  BY <2>2, InsertAtIs
    <2>4. QED  BY <2>1, <2>3
  <1>2. PICK X : X = [S EXCEPT !.windows[w].tabs = s]  OBVIOUS
  <1>3. R = Select(X, w, p)
    <2>1. X = [S EXCEPT !.windows[w].tabs = InsertAt(@, k + 1, p)]  BY <1>1, <1>2
    <2>2. QED  BY <2>1 DEF AttachAt
  <1>4. SetsTabs(S, X, w, s)
    <2>1. s \in Seq(Pages)  BY <1>1
    <2>2. QED  BY <1>2, <2>1, SetTabsSound
  <1>5. Sound(X)  BY <1>4 DEF SetsTabs
  <1>6. /\ Sound(R) /\ SamePlaces(X, R) /\ R.dim = X.dim
        /\ R.windows[w].selected = p /\ SameWindow(R.windows[w], X.windows[w])
        /\ \A v \in Windows \ {w} : R.windows[v] = X.windows[v]
    BY <1>3, <1>5, SelectSound
  <1>7. SamePlaces(S, R)
    <2>1. X.panes = S.panes /\ X.pages = S.pages /\ X.lost = S.lost  BY <1>4 DEF SetsTabs
    <2>2. QED  BY <1>6, <2>1 DEF SamePlaces, SamePane
  <1>8. SameMenu(R.windows[w], S.windows[w])
    <2>1. SameMenu(R.windows[w], X.windows[w]) /\ SameMenu(X.windows[w], S.windows[w])
      BY <1>4, <1>6, Zenon DEF SameWindow, SetsTabs
    <2>2. QED  BY <2>1, Zenon DEF SameMenu
  <1>9. R.dim = S.dim /\ R.windows[w].tabs = s /\ \A v \in Windows \ {w} : R.windows[v] = S.windows[v]
    BY <1>4, <1>6 DEF SameWindow, SetsTabs
  <1>10. QED  BY <1>1, <1>6, <1>7, <1>8, <1>9 DEF Attaches

\* A window with a page more is as good as before.
LEMMA AttachedWindow ==
  ASSUME NEW s, NEW r, SameMenu(r, s), s.menuOpen # NoPage => s.menuPage = s.menuOpen,
         s.menuIdle => s.menuOpen = NoPage,
         s.open, IsInjective(r.tabs), Holds(r.tabs, r.selected)
  PROVE  WindowOK(r)
  <1>1. r.open  BY Zenon DEF SameMenu
  <1>2. r.menuOpen # NoPage => r.menuPage = r.menuOpen  BY DEF SameMenu
  <1>3. r.menuIdle => r.menuOpen = NoPage
    <2>1. r.menuIdle = s.menuIdle /\ r.menuOpen = s.menuOpen  BY Zenon DEF SameMenu
    <2>2. QED  BY <2>1, Zenon
  <1>4. QED  BY <1>1, <1>2, <1>3, Zenon DEF WindowOK, Holds

\* A good screen is sound and has its tabs in place; a step leads to a good one,
\* and finds no new exit of a shell.
Good(S) == Sound(S) /\ TabsOK(S)
Step(S, R) == Good(R) /\ Calm(S, R)

\* A page that came to have the pane t, or just got a window, is attached to it.
LEMMA AttachStep ==
  ASSUME NEW S, TabsOK(S), NEW w \in Windows, NEW q \in Pages, NEW t \in Panes,
         \A v \in Windows : ~InWindow(S, v, q), Leaves(S, q) = {},
         NEW X, Sound(X), X.lost = S.lost,
         \A v \in Windows \ {w} : X.windows[v] = S.windows[v],
         X.windows[w].tabs = S.windows[w].tabs, X.windows[w].open,
         X.windows[w].menuOpen # NoPage => X.windows[w].menuPage = X.windows[w].menuOpen,
         X.windows[w].menuIdle => X.windows[w].menuOpen = NoPage,
         X.panes[t].page = q, X.panes[t].death = "ran" => S.panes[t].death = "ran",
         \A u \in Panes \ {t} : X.panes[u].page = S.panes[u].page /\ X.panes[u].death = S.panes[u].death,
         S.panes[t].page = NoPage \/ \E u \in Panes \ {t} : S.panes[u].page = S.panes[t].page,
         NEW k \in 0 .. Len(S.windows[w].tabs), NEW R, R = AttachAt(X, w, q, k)
  PROVE  Step(S, R)
  <1>1. Sound(R) /\ Attaches(X, R, w, q, k)
    <2>1. k \in 0 .. Len(X.windows[w].tabs)  OBVIOUS
    <2>2. QED  BY <2>1, AttachSound
  <1>2. PICK s \in Seq(Pages) : s = S.windows[w].tabs  BY WindowType DEF Sound
  <1>3. WindowOK(S.windows[w]) /\ IsInjective(s) /\ ~Holds(s, q)
    <2>1. ~InWindow(S, w, q) /\ WindowOK(S.windows[w])  BY DEF TabsOK
    <2>2. QED  BY <1>2, <2>1 DEF WindowOK, InWindow, Holds
  <1>4. PICK r : r = InsertAt(s, k + 1, q)  OBVIOUS
  <1>5. r \in Seq(Pages) /\ IsInjective(r) /\ \A x : Holds(r, x) <=> x = q \/ Holds(s, x)
    <2>1. k \in 0 .. Len(s)  BY <1>2
    <2>2. QED  BY <1>3, <1>4, <2>1, InsertHolds
  <1>6. R.windows[w].tabs = r /\ R.windows[w].selected = q /\ SameMenu(R.windows[w], X.windows[w])
    BY <1>1, <1>2, <1>4 DEF Attaches
  <1>7. WindowOK(R.windows[w])
    <2>1. IsInjective(R.windows[w].tabs) /\ Holds(R.windows[w].tabs, R.windows[w].selected)
      BY <1>5, <1>6
    <2>2. QED  BY <1>6, <2>1, AttachedWindow
  <1>8. \A p : Holds(R.windows[w].tabs, p) <=> p = q \/ InWindow(S, w, p)
    <2>1. \A p : Holds(s, p) <=> InWindow(S, w, p)  BY <1>2 DEF Holds, InWindow
    <2>2. QED  BY <1>5, <1>6, <2>1
  <1>9. \A u \in Panes : R.panes[u].page = X.panes[u].page /\ R.panes[u].death = X.panes[u].death
    BY <1>1 DEF Attaches, SamePlaces, SamePane
  <1>10. Leaves(R, q) # {}  BY <1>9 DEF Leaves
  <1>11. ASSUME NEW p \in Pages \ {q} PROVE Leaves(R, p) = {} <=> Leaves(S, p) = {}
    <2>1. p # NoPage  BY TabsConstants
    <2>2. ASSUME NEW u \in Leaves(R, p) PROVE Leaves(S, p) # {}
      <3>1. u # t /\ u \in Panes /\ S.panes[u].page = p  BY <1>9, <2>2 DEF Leaves
      <3>2. QED  BY <3>1 DEF Leaves
    <2>3. ASSUME NEW u \in Leaves(S, p) PROVE Leaves(R, p) # {}
      <3>1. PICK x \in Panes \ {t} : S.panes[x].page = p  BY <2>1, <2>3 DEF Leaves
      <3>2. R.panes[x].page = p  BY <1>9, <3>1
      <3>3. QED  BY <3>2 DEF Leaves
    <2>4. QED  BY <2>2, <2>3
  <1>12. R.lost = S.lost /\ \A v \in Windows \ {w} : R.windows[v] = S.windows[v]
    BY <1>1 DEF Attaches, SamePlaces
  <1>13. TabsOK(R)
    <2>1. TabsOK(S) /\ w \in Windows /\ q \in Pages /\ \A v \in Windows : ~InWindow(S, v, q)
      OBVIOUS
    <2>2. \A p \in Pages : Holds(R.windows[w].tabs, p) <=> p = q \/ InWindow(S, w, p)
      BY <1>8
    <2>3. QED  BY ONLY <1>7, <1>10, <1>11, <1>12, <2>1, <2>2, AttachStays
  <1>14. Calm(S, R)  BY <1>9 DEF Calm
  <1>15. QED  BY <1>1, <1>13, <1>14 DEF Step, Good


-----------------------------------------------------------------------------
(* The actions, as steps from one good screen to another *)

\* The selected page of an open window is a page in it.
LEMMA CurrentIs ==
  ASSUME NEW S, Good(S), NEW w \in Windows, S.windows[w].open
  PROVE  /\ InWindow(S, w, S.windows[w].selected) /\ S.windows[w].selected \in Pages
         /\ Leaves(S, S.windows[w].selected) # {}
  <1>1. WindowOK(S.windows[w]) /\ Placed(S) /\ S \in Screens  BY DEF Good, Sound, TabsOK
  <1>2. InWindow(S, w, S.windows[w].selected)  BY <1>1 DEF WindowOK, InWindow
  <1>3. S.windows[w].selected \in Pages  BY <1>1, <1>2, WithoutIs
  <1>4. QED  BY <1>1, <1>2, <1>3 DEF Placed

\* Splitting the focused pane of a page leaves the screen good.
LEMMA SplitStep ==
  ASSUME NEW S, Good(S), NEW p \in Pages, S.pages[p].focused # NoPane,
         NEW t \in FreePanes(S), NEW ok \in BOOLEAN, NEW R, R = SplitPage(S, p, t, ok)
  PROVE  Step(S, R)
  <1>1. Sound(S) /\ TabsOK(S) /\ t \in Panes /\ S.panes[t].page = NoPage  BY DEF Good, FreePanes
  <1>2. Sound(R) /\ Gains(S, R, p, t, "alive")  BY <1>1, SplitPageSound
  <1>3. Leaves(S, p) # {}
    <2>1. PageOK(S, p)  BY <1>1 DEF Sound
    <2>2. QED  BY <2>1 DEF PageOK, FocusOK
  <1>4. TabsOK(R) /\ Calm(S, R)  BY <1>1, <1>2, <1>3, GainStays
  <1>5. QED  BY <1>2, <1>4 DEF Step, Good

\* So does closing the focused pane, with its page if it was the last.
LEMMA ClosePaneStep ==
  ASSUME NEW S, Good(S), NEW w \in Windows, NEW p \in Pages, InWindow(S, w, p),
         S.pages[p].focused # NoPane, NEW next \in Successors(S, w, p),
         NEW R, R = RemoveTerminal(S, p, S.pages[p].focused, next)
  PROVE  Step(S, R)
  <1>1. Sound(S) /\ TabsOK(S)  BY DEF Good
  <1>2. PICK t \in Leaves(S, p) : t = S.pages[p].focused  BY <1>1 DEF Sound, PageOK, FocusOK
  <1>3. next \in Successors(S, WindowOf(S, p), p)
    <2>1. WindowOf(S, p) = w  BY <1>1, OneWindowOf
    <2>2. QED  BY <2>1
  <1>4. R = RemoveTerminal(S, p, t, next)  BY <1>2
  <1>5. Sound(R) /\ TabsOK(R) /\ Calm(S, R)  BY <1>1, <1>3, <1>4, RemovalStays
  <1>6. QED  BY <1>5 DEF Step, Good

\* Zooming the focused pane, and going back to all panes, leave the screen good.
LEMMA ZoomStep ==
  ASSUME NEW S, Good(S), NEW p \in Pages, NEW R,
         \/ R = Unzoom(S, p)
         \/ /\ S.pages[p].focused # NoPane /\ S.pages[p].zoomed = NoPane
            /\ R = ApplyZoom(S, p, S.pages[p].focused)
  PROVE  Step(S, R)
  <1>1. Sound(S) /\ TabsOK(S)  BY DEF Good
  <1>2. Sound(R) /\ R.panes = S.panes /\ SameRest(S, R)
    <2>1. CASE R = Unzoom(S, p)  BY <1>1, <2>1, UnzoomSound
    <2>2. CASE /\ S.pages[p].focused # NoPane /\ S.pages[p].zoomed = NoPane
               /\ R = ApplyZoom(S, p, S.pages[p].focused)
      BY <1>1, <2>2, ApplyZoomSound
    <2>3. QED  BY <2>1, <2>2
  <1>3. TabsOK(R) /\ Calm(S, R)  BY <1>1, <1>2, SamePanesStay DEF SameRest
  <1>4. QED  BY <1>2, <1>3 DEF Step, Good

\* Giving a pane of an unzoomed page the focus leaves the screen good.
LEMMA FocusStep ==
  ASSUME NEW S, Good(S), NEW p \in Pages, S.pages[p].zoomed = NoPane,
         NEW t \in Leaves(S, p), NEW R, R = SetFocused(S, p, t)
  PROVE  Step(S, R)
  <1>1. Sound(S) /\ TabsOK(S) /\ S \in Screens /\ t \in Panes  BY DEF Good, Sound, Leaves
  <1>2. Sound(R)  BY <1>1, RefocusSound
  <1>3. SameRest(S, R) /\ \A u \in Panes : SamePane(S, R, u)  BY <1>1, FocusFacts
  <1>4. TabsOK(R) /\ Calm(S, R)  BY <1>1, <1>3, SamePanesStay DEF SameRest, SamePane
  <1>5. QED  BY <1>2, <1>4 DEF Step, Good

\* Steps follow each other.
LEMMA StepsCompose ==
  ASSUME NEW S, NEW X, NEW R, Step(S, X), Step(X, R)
  PROVE  Step(S, R)
  BY DEF Step, Calm

\* A click reaches only what is shown: with a zoom, only the zoomed pane.
LEMMA ShownIsZoomed ==
  ASSUME NEW S, Sound(S), NEW p \in Pages, NEW t \in Leaves(S, p),
         \A m \in S.pages[p].hidden : ~IsPrefix(m, S.panes[t].path)
  PROVE  S.pages[p].zoomed = NoPane \/ S.pages[p].zoomed = t
  <1>1. SUFFICES ASSUME S.pages[p].zoomed # NoPane, S.pages[p].zoomed # t PROVE FALSE
    OBVIOUS
  <1>2. PICK z : z = S.pages[p].zoomed  OBVIOUS
  <1>3. PageOK(S, p) /\ S \in Screens  BY DEF Sound
  <1>4. z = S.pages[p].focused /\ S.pages[p].hidden = Around(S, z) /\ z \in Leaves(S, p)
    BY <1>1, <1>2, <1>3 DEF PageOK, ZoomOK, ZoomFits, FocusOK
  <1>5. z \in Panes /\ t \in Panes  BY <1>4 DEF Leaves
  <1>6. S.panes[z].path \in Path /\ S.panes[t].path \in Path  BY <1>3, <1>5, PaneType
  <1>7. Fork(S.panes[z].path, S.panes[t].path)
    <2>1. FullTree(Leaves(S, p), Paths(S))  BY <1>3 DEF PageOK, TreeOK
    <2>2. Paths(S)[z] = S.panes[z].path /\ Paths(S)[t] = S.panes[t].path  BY <1>5 DEF Paths
    <2>3. QED  BY <1>1, <1>2, <1>4, <2>1, <2>2 DEF FullTree
  <1>8. PICK i \in 1..Len(S.panes[z].path) : Parts(S.panes[z].path, S.panes[t].path, i)
    BY <1>7 DEF Fork
  <1>9. IsPrefix(Sibling(SubSeq(S.panes[z].path, 1, i)), S.panes[t].path)
    BY <1>6, <1>8, BelowSiblings
  <1>10. Sibling(SubSeq(S.panes[z].path, 1, i)) \in Around(S, z)  BY DEF Around
  <1>11. QED  BY <1>4, <1>9, <1>10

\* So does a click on a pane that is shown.
LEMMA FocusEnterStep ==
  ASSUME NEW S, Good(S), NEW p \in Pages, NEW t \in Leaves(S, p), S.pages[p].focused # t,
         \A m \in S.pages[p].hidden : ~IsPrefix(m, S.panes[t].path),
         NEW R, R = SetFocused(S, p, t)
  PROVE  Step(S, R)
  <1>1. Sound(S)  BY DEF Good
  <1>2. S.pages[p].zoomed # NoPane => S.pages[p].zoomed = S.pages[p].focused
    BY <1>1 DEF Sound, PageOK, ZoomOK, ZoomFits
  <1>3. S.pages[p].zoomed = NoPane  BY <1>1, <1>2, ShownIsZoomed
  <1>4. QED  BY <1>3, FocusStep

\* A page that nothing refers to has no panes and no window.
LEMMA FreePageIs ==
  ASSUME NEW S, NEW p \in FreePages(S)
  PROVE  p \in Pages /\ Leaves(S, p) = {} /\ \A w \in Windows : ~InWindow(S, w, p)
  BY DEF FreePages

\* A new tab with a new pane leaves the screen good.
LEMMA NewTabStep ==
  ASSUME NEW S, Good(S), NEW w \in Windows, S.windows[w].open,
         NEW p \in FreePages(S), NEW t \in FreePanes(S), NEW ok \in BOOLEAN,
         NEW R, R = Append1(NewPage(S, p, t, ok), w, p)
  PROVE  Step(S, R)
  <1>1. Sound(S) /\ TabsOK(S) /\ WindowOK(S.windows[w]) /\ t \in Panes /\ S.panes[t].page = NoPage
    BY DEF Good, TabsOK, FreePanes
  <1>2. p \in Pages /\ Leaves(S, p) = {} /\ \A v \in Windows : ~InWindow(S, v, p)  BY FreePageIs
  <1>3. PICK X : X = NewPage(S, p, t, ok)  OBVIOUS
  <1>4. Sound(X) /\ Gains(S, X, p, t, "alive")  BY <1>1, <1>2, <1>3, NewPageSound
  <1>5. X.windows = S.windows /\ X.lost = S.lost  BY <1>4 DEF Gains, SameRest
  <1>6. PICK k : k = Len(S.windows[w].tabs)  OBVIOUS
  <1>7. k \in 0 .. Len(S.windows[w].tabs)
    <2>1. S.windows[w].tabs \in Seq(Pages)  BY <1>1, WindowType DEF Sound
    <2>2. Len(S.windows[w].tabs) \in Nat  BY <2>1, LenProperties
    <2>3. QED  BY <1>6, <2>2
  <1>8. R = AttachAt(X, w, p, k)  BY <1>3, <1>5, <1>6 DEF Append1
  <1>9. /\ X.panes[t].page = p /\ X.panes[t].death = "alive"
        /\ \A u \in Panes \ {t} : X.panes[u].page = S.panes[u].page /\ X.panes[u].death = S.panes[u].death
    BY <1>4 DEF Gains
  <1>10. X.windows[w].menuOpen # NoPage => X.windows[w].menuPage = X.windows[w].menuOpen
    BY <1>1, <1>5 DEF WindowOK
  <1>11. X.windows[w].menuIdle => X.windows[w].menuOpen = NoPage
    BY <1>1, <1>5, Zenon DEF WindowOK
  <1>12. X.windows[w].open  BY <1>5, Zenon
  <1>13. QED  BY <1>1, <1>2, <1>4, <1>5, <1>7, <1>8, <1>9, <1>10, <1>11, <1>12, AttachStep

\* A window without tabs that is about to get one.
LEMMA OpenWindowSound ==
  ASSUME NEW S, Sound(S), NEW w \in Windows, NEW R, R = OpenWindow(S, w)
  PROVE  /\ Sound(R) /\ R.panes = S.panes /\ R.pages = S.pages /\ R.dim = S.dim
         /\ R.lost = S.lost /\ (\A v \in Windows \ {w} : R.windows[v] = S.windows[v])
         /\ R.windows[w].open /\ R.windows[w].tabs = <<>>
         /\ R.windows[w].menuOpen = NoPage /\ ~R.windows[w].menuIdle
  <1>1. PICK r0 \in WindowRecord : r0 = NoWindowRecord  BY NoRecords
  <1>2. PICK r : r = [r0 EXCEPT !.open = TRUE]  OBVIOUS
  <1>3. r \in WindowRecord  BY <1>2, Zenon DEF WindowRecord
  <1>4. r = [open |-> TRUE, tabs |-> <<>>, selected |-> NoPage, menuOpen |-> NoPage,
             menuPage |-> NoPage, menuIdle |-> FALSE, dialog |-> NoDialog]
    BY <1>1, <1>2 DEF NoWindowRecord
  <1>5. Names(r.dialog)  BY <1>4 DEF Names, NoDialog
  <1>6. R = [S EXCEPT !.windows[w] = r]  BY <1>1, <1>2 DEF OpenWindow
  <1>7. SetsWindow(S, R, w, r)  BY <1>3, <1>5, <1>6, OneWindow
  <1>8. R.windows[w] = r  BY <1>7 DEF SetsWindow
  <1>9. R.windows[w].open /\ ~R.windows[w].menuIdle  BY <1>4, <1>8
  <1>10. QED  BY <1>4, <1>7, <1>8, <1>9 DEF SetsWindow

\* R is sound, and S with an empty window w.
Opens(S, R, w) ==
  /\ Sound(R) /\ R.panes = S.panes /\ R.pages = S.pages /\ R.dim = S.dim
  /\ R.lost = S.lost /\ (\A v \in Windows \ {w} : R.windows[v] = S.windows[v])
  /\ R.windows[w].open /\ R.windows[w].tabs = <<>>
  /\ R.windows[w].menuOpen = NoPage /\ ~R.windows[w].menuIdle

\* Opening a window, in one word.
LEMMA OpenWindowOpens ==
  ASSUME NEW S, Sound(S), NEW w \in Windows, NEW R, R = OpenWindow(S, w)
  PROVE  Opens(S, R, w)
  <1>1. Sound(R) /\ R.panes = S.panes /\ R.pages = S.pages /\ R.dim = S.dim
        /\ R.lost = S.lost /\ (\A v \in Windows \ {w} : R.windows[v] = S.windows[v])
        /\ R.windows[w].tabs = <<>> /\ R.windows[w].menuOpen = NoPage
    BY OpenWindowSound
  <1>2. R.windows[w].open /\ ~R.windows[w].menuIdle  BY OpenWindowSound, Zenon
  <1>3. QED  BY <1>1, <1>2, Zenon DEF Opens

\* A new window with a new tab leaves the screen good.
LEMMA NewWindowStep ==
  ASSUME NEW S, Good(S), NEW w \in FreeWindows(S),
         NEW p \in FreePages(S), NEW t \in FreePanes(S), NEW ok \in BOOLEAN,
         NEW R, R = Append1(NewPage(OpenWindow(S, w), p, t, ok), w, p)
  PROVE  Step(S, R)
  <1>1. Sound(S) /\ TabsOK(S) /\ t \in Panes /\ S.panes[t].page = NoPage
    BY DEF Good, FreePanes
  <1>2. p \in Pages /\ Leaves(S, p) = {} /\ \A v \in Windows : ~InWindow(S, v, p)  BY FreePageIs
  <1>3. w \in Windows /\ S.windows[w].tabs = <<>>
    <2>1. w \in Windows /\ ~S.windows[w].open  BY DEF FreeWindows
    <2>2. WindowOK(S.windows[w])  BY <1>1, <2>1 DEF TabsOK
    <2>3. QED  BY <2>1, <2>2, Zenon DEF WindowOK
  <1>4. PICK Y : Y = OpenWindow(S, w)  OBVIOUS
  <1>5. /\ Sound(Y) /\ Y.panes = S.panes /\ Y.pages = S.pages /\ Y.dim = S.dim
        /\ Y.lost = S.lost /\ (\A v \in Windows \ {w} : Y.windows[v] = S.windows[v])
        /\ Y.windows[w].open /\ Y.windows[w].tabs = <<>>
        /\ Y.windows[w].menuOpen = NoPage /\ ~Y.windows[w].menuIdle
    BY <1>1, <1>3, <1>4, OpenWindowSound
  <1>6. Leaves(Y, p) = {}  BY <1>2, <1>5 DEF Leaves
  <1>7. PICK X : X = NewPage(Y, p, t, ok)  OBVIOUS
  <1>8. Sound(X) /\ Gains(Y, X, p, t, "alive")  BY <1>1, <1>2, <1>5, <1>6, <1>7, NewPageSound
  <1>9. X.windows = Y.windows /\ X.lost = S.lost  BY <1>5, <1>8 DEF Gains, SameRest
  <1>10. PICK k : k = 0  OBVIOUS
  <1>11. Len(<<>>) = 0  BY EmptySeq
  <1>12. k \in 0 .. Len(S.windows[w].tabs)  BY <1>3, <1>10, <1>11
  <1>13. R = AttachAt(X, w, p, k)  BY <1>4, <1>5, <1>7, <1>9, <1>10, <1>11 DEF Append1
  <1>14. /\ X.panes[t].page = p /\ X.panes[t].death = "alive"
         /\ \A u \in Panes \ {t} : X.panes[u].page = S.panes[u].page /\ X.panes[u].death = S.panes[u].death
    BY <1>5, <1>8 DEF Gains
  <1>15. X.windows[w].menuOpen = NoPage /\ X.windows[w].tabs = S.windows[w].tabs
         /\ \A v \in Windows \ {w} : X.windows[v] = S.windows[v]
    BY <1>3, <1>5, <1>9
  <1>16. X.windows[w].open /\ ~X.windows[w].menuIdle  BY <1>5, <1>9, Zenon
  <1>17. QED
    BY <1>1, <1>2, <1>3, <1>8, <1>9, <1>12, <1>13, <1>14, <1>15, <1>16, AttachStep


\* R is S with its pane t moved from p to q.
MovesLeaf(S, R, p, q, t) ==
  /\ Sound(R) /\ t \in Leaves(S, p) /\ Gains(S, R, q, t, S.panes[t].death)
  /\ \E u \in Leaves(S, p) : u # t

\* Moving the focused pane, in one word.
LEMMA MoveLeafMoves ==
  ASSUME NEW S, Sound(S), NEW p \in Pages, S.pages[p].focused # NoPane,
         Cardinality(Leaves(S, p)) > 1, NEW q \in Pages, Leaves(S, q) = {},
         NEW t, t = S.pages[p].focused,
         NEW R, R = AdoptLeaf(TakeFocusedLeaf(S, p), q, t)
  PROVE  MovesLeaf(S, R, p, q, t)
  BY MoveLeafSound DEF MovesLeaf

\* Moving the focused pane to a tab of its own leaves the screen good, also
\* when AdwTabView refuses the position and the new page has no window.
LEMMA OpenInNewTabStep ==
  ASSUME NEW S, Good(S), NEW w \in Windows, NEW p \in Pages, InWindow(S, w, p),
         Cardinality(Leaves(S, p)) > 1, S.pages[p].focused # NoPane, NEW q \in FreePages(S),
         NEW X, X = AdoptLeaf(TakeFocusedLeaf(S, p), q, S.pages[p].focused), NEW R,
         \/ R = [X EXCEPT !.lost = @ \union {q}]
         \/ R = AttachAt(X, w, q, Position(S, w, p))
  PROVE  Step(S, R)
  <1>1. Sound(S) /\ TabsOK(S) /\ S \in Screens /\ WindowOK(S.windows[w])
    BY DEF Good, Sound, TabsOK
  <1>2. InWindow(S, w, p) /\ p \in Pages  OBVIOUS
  <1>3. q \in Pages /\ Leaves(S, q) = {} /\ \A v \in Windows : ~InWindow(S, v, q)  BY FreePageIs
  <1>4. PICK t : t = S.pages[p].focused  OBVIOUS
  <1>5. /\ Sound(X) /\ t \in Leaves(S, p) /\ Gains(S, X, q, t, S.panes[t].death)
        /\ \E u \in Leaves(S, p) : u # t
    <2>1. X = AdoptLeaf(TakeFocusedLeaf(S, p), q, t)  BY <1>4
    <2>2. MovesLeaf(S, X, p, q, t)
      <3>1. S.pages[p].focused # NoPane /\ Cardinality(Leaves(S, p)) > 1  OBVIOUS
      <3>2. QED  BY ONLY <1>1, <1>2, <1>3, <1>4, <2>1, <3>1, MoveLeafMoves
    <2>3. QED  BY <2>2 DEF MovesLeaf
  <1>6. t \in Panes /\ S.panes[t].page = p /\ \E u \in Panes \ {t} : S.panes[u].page = S.panes[t].page
    BY <1>5 DEF Leaves
  <1>7. X.windows = S.windows /\ X.lost = S.lost /\ X \in Screens
    BY <1>5 DEF Gains, SameRest, Sound
  <1>8. /\ X.panes[t].page = q /\ X.panes[t].death = S.panes[t].death
        /\ \A u \in Panes \ {t} : X.panes[u].page = S.panes[u].page /\ X.panes[u].death = S.panes[u].death
    BY <1>5 DEF Gains
  <1>9. CASE R = [X EXCEPT !.lost = @ \union {q}]
    <2>1. R = [X EXCEPT !.lost = X.lost \union {q}]  BY <1>9
    <2>2. X.lost \union {q} \in SUBSET Pages  BY <1>3, <1>7, ScreenType
    <2>3. R \in Screens  BY <1>7, <2>1, <2>2, ScreenExcept
    <2>4. /\ R.panes = X.panes /\ R.pages = X.pages /\ R.dim = X.dim /\ R.windows = X.windows
          /\ R.lost = X.lost \union {q}
      BY <1>7, <2>1 DEF Screens
    <2>5. \A v \in Windows : DialogOK(R, v)  BY <1>5, <2>4 DEF Sound, DialogOK
    <2>6. Sound(R)  BY <1>5, <2>3, <2>4, <2>5, WindowFrame
    <2>7. Placed(S) /\ \A v \in Windows : \A o : InWindow(R, v, o) <=> InWindow(S, v, o)
      BY <1>1, <1>7, <2>4 DEF TabsOK, InWindow
    <2>8. ASSUME NEW o \in Pages \ {q} PROVE Leaves(R, o) = {} <=> Leaves(S, o) = {}
      <3>1. \A u \in Leaves(R, o) : u \in Leaves(S, o)
        <4>1. ASSUME NEW u \in Leaves(R, o) PROVE u \in Leaves(S, o)
          <5>1. u \in Panes /\ X.panes[u].page = o  BY <2>4, <4>1 DEF Leaves
          <5>2. u # t  BY <1>8, <2>8, <5>1
          <5>3. QED  BY <1>8, <5>1, <5>2 DEF Leaves
        <4>2. QED  BY <4>1
      <3>2. ASSUME NEW u \in Leaves(S, o) PROVE Leaves(R, o) # {}
        <4>1. PICK x \in Panes \ {t} : S.panes[x].page = o
          <5>1. CASE u = t  BY <1>6, <3>2, <5>1 DEF Leaves
          <5>2. CASE u # t  BY <3>2, <5>2 DEF Leaves
          <5>3. QED  BY <5>1, <5>2
        <4>2. x \in Leaves(R, o)  BY <1>8, <2>4, <4>1 DEF Leaves
        <4>3. QED  BY <4>2
      <3>3. QED  BY <3>1, <3>2
    <2>9. Placed(R)
      <3>1. \A u, v \in Windows : \A o \in Pages : InWindow(R, u, o) /\ InWindow(R, v, o) => u = v
        BY <2>7 DEF Placed
      <3>2. ASSUME NEW o \in Pages, Leaves(R, o) # {}
            PROVE  o \in R.lost \/ \E v \in Windows : InWindow(R, v, o)
        <4>1. CASE o = q  BY <2>4, <4>1
        <4>2. CASE o # q
          <5>1. o \in S.lost \/ \E v \in Windows : InWindow(S, v, o)
            BY <2>7, <2>8, <3>2, <4>2 DEF Placed
          <5>2. QED  BY <1>7, <2>4, <2>7, <5>1
        <4>3. QED  BY <4>1, <4>2
      <3>3. ASSUME NEW v \in Windows, NEW o \in Pages, InWindow(R, v, o) PROVE Leaves(R, o) # {}
        <4>1. InWindow(S, v, o) /\ o # q  BY <1>3, <2>7, <3>3
        <4>2. QED  BY <2>7, <2>8, <4>1 DEF Placed
      <3>4. QED  BY <3>1, <3>2, <3>3 DEF Placed
    <2>10. TabsOK(R)  BY <1>1, <1>7, <2>4, <2>9 DEF TabsOK
    <2>11. Calm(S, R)  BY <1>6, <1>8, <2>4 DEF Calm
    <2>12. QED  BY <2>6, <2>10, <2>11 DEF Step, Good
  <1>10. CASE R = AttachAt(X, w, q, Position(S, w, p))
    <2>1. PICK k : k = Position(S, w, p)  OBVIOUS
    <2>2. k \in 0 .. Len(S.windows[w].tabs)
      <3>1. PICK n : n = Len(S.windows[w].tabs)  OBVIOUS
      <3>2. k \in 1..n /\ n \in Nat \ {0}  BY <1>1, <1>2, <2>1, <3>1, WithoutIs
      <3>3. k \in 0..n  BY ONLY <3>2
      <3>4. QED  BY <3>1, <3>3
    <2>3. R = AttachAt(X, w, q, k)  BY <1>10, <2>1
    <2>4. X.windows[w].menuOpen # NoPage => X.windows[w].menuPage = X.windows[w].menuOpen
      BY <1>1, <1>7 DEF WindowOK
    <2>5. X.windows[w].menuIdle => X.windows[w].menuOpen = NoPage
      BY <1>1, <1>7, Zenon DEF WindowOK
    <2>6. X.windows[w].open
      <3>1. S.windows[w].open  BY <1>1, <1>2, ShowsIsOpen
      <3>2. QED  BY <1>7, <3>1, Zenon
    <2>7. /\ w \in Windows /\ t \in Panes /\ Sound(X)
          /\ \A v \in Windows \ {w} : X.windows[v] = S.windows[v]
          /\ X.windows[w].tabs = S.windows[w].tabs
          /\ X.panes[t].death = "ran" => S.panes[t].death = "ran"
      BY <1>5, <1>6, <1>7, <1>8
    <2>8. QED
      BY ONLY <1>1, <1>3, <1>6, <1>7, <1>8, <2>2, <2>3, <2>4, <2>5, <2>6, <2>7, AttachStep
  <1>11. QED  BY <1>9, <1>10

\* FocusTerminal changes the focus only.
LEMMA FocusTerminalStep ==
  ASSUME NEW S, Good(S), NEW p \in Pages, NEW R, R = FocusTerminal(S, p)
  PROVE  Step(S, R)
  <1>1. Sound(S) /\ TabsOK(S)  BY DEF Good
  <1>2. Sound(R) /\ SameRest(S, R) /\ \A u \in Panes : SamePane(S, R, u)
    BY <1>1, FocusTerminalSound
  <1>3. TabsOK(R) /\ Calm(S, R)  BY <1>1, <1>2, SamePanesStay DEF SameRest, SamePane
  <1>4. QED  BY <1>2, <1>3 DEF Step, Good

\* Selecting a tab changes the selection of its window only.
LEMMA SelectStep ==
  ASSUME NEW S, Good(S), NEW w \in Windows, NEW p \in Pages, InWindow(S, w, p),
         NEW R, R = Select(S, w, p)
  PROVE  Step(S, R) /\ SamePlaces(S, R) /\ (\A v \in Windows \ {w} : R.windows[v] = S.windows[v])
         /\ R.windows[w].selected = p /\ SameWindow(R.windows[w], S.windows[w])
  <1>1. Sound(S) /\ TabsOK(S) /\ WindowOK(S.windows[w])  BY DEF Good, TabsOK
  <1>2. /\ Sound(R) /\ SamePlaces(S, R) /\ R.windows[w].selected = p
        /\ SameWindow(R.windows[w], S.windows[w])
        /\ \A v \in Windows \ {w} : R.windows[v] = S.windows[v]
    BY <1>1, SelectSound
  <1>3. R.windows[w].tabs = S.windows[w].tabs /\ SameMenu(R.windows[w], S.windows[w])
    BY <1>2 DEF SameWindow
  <1>4. S.windows[w].open /\ IsInjective(S.windows[w].tabs)  BY <1>1, ShowsIsOpen
  <1>5. WindowOK(R.windows[w])
    <2>1. Holds(R.windows[w].tabs, R.windows[w].selected)  BY <1>2, <1>3 DEF Holds, InWindow
    <2>2. S.windows[w].menuOpen # NoPage => S.windows[w].menuPage = S.windows[w].menuOpen
      BY <1>1 DEF WindowOK
    <2>3. S.windows[w].menuIdle => S.windows[w].menuOpen = NoPage  BY <1>1, Zenon DEF WindowOK
    <2>4. IsInjective(R.windows[w].tabs)  BY <1>3, <1>4
    <2>5. QED  BY <1>3, <1>4, <2>1, <2>2, <2>3, <2>4, AttachedWindow
  <1>6. \A v \in Windows : WindowOK(R.windows[v])  BY <1>1, <1>2, <1>5 DEF TabsOK
  <1>7. \A v \in Windows : \A q \in Pages : InWindow(R, v, q) <=> InWindow(S, v, q)
    BY <1>2, <1>3 DEF InWindow
  <1>8. \A u \in Panes : SamePane(S, R, u)  BY <1>2 DEF SamePlaces
  <1>9. \A q : Leaves(R, q) = Leaves(S, q)  BY <1>8 DEF Leaves, SamePane
  <1>10. R.lost = S.lost  BY <1>2 DEF SamePlaces
  <1>11. TabsOK(R)  BY <1>1, <1>6, <1>7, <1>9, <1>10, TabsFrame
  <1>12. Calm(S, R)  BY <1>8 DEF Calm, SamePane
  <1>13. QED  BY <1>2, <1>11, <1>12 DEF Step, Good

\* Closing a tab leaves the screen good.
LEMMA CloseTabStep ==
  ASSUME NEW S, Good(S), NEW w \in Windows, NEW p \in Pages, InWindow(S, w, p),
         NEW next \in Successors(S, w, p), NEW R, R = ClosePage(S, w, p, next)
  PROVE  Step(S, R)
  <1>1. Sound(S) /\ TabsOK(S) /\ next \in Pages \union {NoPage}  BY DEF Good, Successors
  <1>2. Sound(R) /\ IF S.pages[p].pinned THEN R = S ELSE Closes(S, R, w, p, next)
    BY <1>1, ClosePageSound
  <1>3. CASE R = S  BY <1>1, <1>3 DEF Step, Good, Calm
  <1>4. CASE Closes(S, R, w, p, next)
    <2>1. TabsOK(R) /\ Calm(S, R)  BY <1>1, <1>4, CloseStays
    <2>2. QED  BY <1>2, <2>1 DEF Step, Good
  <1>5. QED  BY <1>2, <1>3, <1>4

\* R is sound, and S with the selection of window w moved away from p, to next.
Selects(S, R, w, p, next) ==
  /\ Sound(R) /\ SamePlaces(S, R) /\ R.dim = S.dim
  /\ R.windows[w].selected = (IF S.windows[w].selected = p THEN next ELSE S.windows[w].selected)
  /\ SameWindow(R.windows[w], S.windows[w])
  /\ \A v \in Windows \ {w} : R.windows[v] = S.windows[v]

\* Moving the selection, in one word.
LEMMA SelectionMovesSelects ==
  ASSUME NEW S, Sound(S), NEW w \in Windows, NEW p \in Pages,
         NEW next \in Pages \union {NoPage}, NEW R, R = SelectionMoves(S, w, p, next)
  PROVE  Selects(S, R, w, p, next)
  BY SelectionMovesSound DEF Selects

\* Moving a tab to a window of its own leaves the screen good.
LEMMA MoveStep ==
  ASSUME NEW S, Good(S), NEW w \in Windows, NEW p \in Pages, InWindow(S, w, p),
         Len(S.windows[w].tabs) > 1, NEW v \in FreeWindows(S), NEW next \in Successors(S, w, p),
         NEW R, R = FocusTerminal(AttachAt(
                      SelectionMoves(RemoveTab(OpenWindow(S, v), w, p), w, p, next), v, p, 0), p)
  PROVE  Step(S, R)
  <1>1. /\ Sound(S) /\ TabsOK(S) /\ Placed(S) /\ S \in Screens /\ WindowOK(S.windows[w])
        /\ next \in Pages \union {NoPage} /\ v \in Windows
    BY DEF Good, Sound, TabsOK, Successors, FreeWindows
  <1>2. S.windows[w].open /\ InWindow(S, w, S.windows[w].selected) /\ IsInjective(S.windows[w].tabs)
    BY <1>1, ShowsIsOpen
  <1>3. v # w /\ S.windows[v].tabs = <<>>
    <2>1. ~S.windows[v].open  BY DEF FreeWindows
    <2>2. v # w  BY <1>2, <2>1, Zenon
    <2>3. WindowOK(S.windows[v])  BY <1>1 DEF TabsOK
    <2>4. QED  BY <2>1, <2>2, <2>3, Zenon DEF WindowOK
  <1>4. PICK A : A = OpenWindow(S, v)  OBVIOUS
  <1>5. /\ Sound(A) /\ A.panes = S.panes /\ A.pages = S.pages /\ A.dim = S.dim
        /\ A.lost = S.lost /\ (\A x \in Windows \ {v} : A.windows[x] = S.windows[x])
        /\ A.windows[v].open /\ A.windows[v].tabs = <<>>
        /\ A.windows[v].menuOpen = NoPage /\ ~A.windows[v].menuIdle
    <2>1. Opens(S, A, v)
      <3>1. Sound(S) /\ v \in Windows  BY <1>1
      <3>2. QED  BY ONLY <3>1, <1>4, OpenWindowOpens
    <2>2. QED  BY <2>1 DEF Opens
  <1>6. A.windows[w] = S.windows[w]  BY <1>3, <1>5
  <1>7. PICK s \in Seq(Pages) : s = Without(S, w, p)  BY <1>1, WithoutIs
  <1>8. Without(A, w, p) = s  BY <1>6, <1>7 DEF Without, Position
  <1>9. IsInjective(s) /\ (\A x : Holds(s, x) <=> x # p /\ InWindow(S, w, x)) /\ s # <<>>
    <2>1. Len(S.windows[w].tabs) \in Nat  BY <1>1, WithoutIs
    <2>2. ~(Len(S.windows[w].tabs) < 2)  BY <2>1
    <2>3. QED  BY <1>1, <1>2, <1>7, <2>2, WithoutHolds
  <1>10. PICK B : B = RemoveTab(A, w, p)  OBVIOUS
  <1>11. SetsTabs(A, B, w, s)
    <2>1. B = [A EXCEPT !.windows[w].tabs = s]  BY <1>8, <1>10 DEF RemoveTab
    <2>2. s \in Seq(Pages)  BY <1>7
    <2>3. QED  BY <1>5, <2>1, <2>2, SetTabsSound
  <1>12. PICK C : C = SelectionMoves(B, w, p, next)  OBVIOUS
  <1>13. Sound(B)  BY <1>11 DEF SetsTabs
  <1>14. /\ Sound(C) /\ SamePlaces(B, C) /\ C.dim = B.dim
         /\ C.windows[w].selected = (IF B.windows[w].selected = p THEN next ELSE B.windows[w].selected)
         /\ SameWindow(C.windows[w], B.windows[w])
         /\ \A x \in Windows \ {w} : C.windows[x] = B.windows[x]
    <2>1. Selects(B, C, w, p, next)
      <3>1. next \in Pages \union {NoPage} /\ w \in Windows /\ p \in Pages  BY <1>1
      <3>2. QED  BY ONLY <1>12, <1>13, <3>1, SelectionMovesSelects
    <2>2. QED  BY <2>1 DEF Selects
  <1>15. C.windows[v] = A.windows[v]  BY <1>1, <1>3, <1>11, <1>14 DEF SetsTabs
  <1>16. PICK k : k = 0  OBVIOUS
  <1>17. PICK D : D = AttachAt(C, v, p, k)  OBVIOUS
  <1>18. PICK e \in Seq(Pages) : e = <<>> /\ Len(e) = 0
    <2>1. <<>> \in Seq(Pages) /\ Len(<<>>) = 0  BY EmptySeq
    <2>2. QED  BY <2>1
  <1>19. C.windows[v].tabs = e  BY <1>5, <1>15, <1>18
  <1>20. Sound(D) /\ Attaches(C, D, v, p, k)
    <2>1. k \in 0 .. Len(C.windows[v].tabs)  BY <1>16, <1>18, <1>19
    <2>2. QED  BY <1>1, <1>14, <1>17, <2>1, AttachSound
  <1>21. R = FocusTerminal(D, p)
    BY <1>4, <1>10, <1>12, <1>16, <1>17
  <1>22. \A u \in Panes : D.panes[u].page = S.panes[u].page /\ D.panes[u].death = S.panes[u].death
    BY <1>5, <1>11, <1>14, <1>20 DEF SetsTabs, SamePlaces, SamePane, Attaches
  <1>23. D.lost = S.lost  BY <1>5, <1>11, <1>14, <1>20 DEF SetsTabs, SamePlaces, Attaches
  <1>24. \A q : Leaves(D, q) = Leaves(S, q)  BY <1>22 DEF Leaves
  <1>25. PICK r : r = InsertAt(e, k + 1, p)  OBVIOUS
  <1>26. IsInjective(r) /\ \A x : Holds(r, x) <=> x = p
    <2>1. DOMAIN e = {} /\ k \in 0 .. Len(e)  BY <1>16, <1>18
    <2>2. IsInjective(e) /\ \A x : ~Holds(e, x)  BY <2>1 DEF IsInjective, Holds
    <2>3. e \in Seq(Pages)  BY <1>18
    <2>4. IsInjective(r) /\ \A x : Holds(r, x) <=> x = p \/ Holds(e, x)
      <3>1. p \in Pages /\ k \in 0 .. Len(e) /\ ~Holds(e, p)  BY <2>1, <2>2
      <3>2. QED  BY ONLY <1>25, <2>2, <2>3, <3>1, InsertHolds
    <2>5. QED  BY <2>2, <2>4
  <1>27. D.windows[v].tabs = r /\ D.windows[v].selected = p /\ SameMenu(D.windows[v], A.windows[v])
    BY <1>15, <1>19, <1>20, <1>25 DEF Attaches
  <1>28. WindowOK(D.windows[v])
    <2>1. IsInjective(D.windows[v].tabs) /\ Holds(D.windows[v].tabs, D.windows[v].selected)
      BY <1>26, <1>27
    <2>2. A.windows[v].menuOpen # NoPage => A.windows[v].menuPage = A.windows[v].menuOpen
      BY <1>5
    <2>3. A.windows[v].menuIdle => A.windows[v].menuOpen = NoPage  BY <1>5
    <2>4. QED  BY <1>5, <1>27, <2>1, <2>2, <2>3, AttachedWindow
  <1>29. D.windows[w] = C.windows[w]  BY <1>3, <1>20 DEF Attaches
  <1>30. D.windows[w].tabs = s /\ SameMenu(D.windows[w], S.windows[w])
         /\ D.windows[w].selected = IF S.windows[w].selected = p THEN next ELSE S.windows[w].selected
    <2>1. SameMenu(C.windows[w], B.windows[w]) /\ C.windows[w].tabs = B.windows[w].tabs
      BY <1>14 DEF SameWindow
    <2>2. SameMenu(B.windows[w], S.windows[w]) /\ B.windows[w].tabs = s
          /\ B.windows[w].selected = S.windows[w].selected
      BY <1>6, <1>11 DEF SetsTabs
    <2>3. SameMenu(C.windows[w], S.windows[w])  BY <2>1, <2>2, Zenon DEF SameMenu
    <2>4. QED  BY <1>14, <1>29, <2>1, <2>2, <2>3
  <1>31. WindowOK(D.windows[w])
    <2>1. next # p /\ InWindow(S, w, next)
      <3>1. Len(S.windows[w].tabs) \in Nat  BY <1>1, WithoutIs
      <3>2. w # NoWindow /\ ~(Len(S.windows[w].tabs) < 2)  BY <3>1, TabsConstants
      <3>3. QED  BY <3>2 DEF Successors
    <2>2. Holds(s, D.windows[w].selected)  BY <1>2, <1>9, <1>30, <2>1
    <2>3. IsInjective(D.windows[w].tabs) /\ Holds(D.windows[w].tabs, D.windows[w].selected)
      BY <1>9, <1>30, <2>2
    <2>4. S.windows[w].menuOpen # NoPage => S.windows[w].menuPage = S.windows[w].menuOpen
      BY <1>1 DEF WindowOK
    <2>5. S.windows[w].menuIdle => S.windows[w].menuOpen = NoPage  BY <1>1, Zenon DEF WindowOK
    <2>6. QED  BY <1>2, <1>30, <2>3, <2>4, <2>5, AttachedWindow
  <1>32. \A x \in Windows \ {v, w} : D.windows[x] = S.windows[x]
    BY <1>5, <1>11, <1>14, <1>20 DEF SetsTabs, Attaches
  <1>33. \A x \in Windows : WindowOK(D.windows[x])  BY <1>1, <1>28, <1>31, <1>32 DEF TabsOK
  <1>34. Placed(D)
    <2>1. \A q : InWindow(D, v, q) <=> q = p  BY <1>26, <1>27 DEF InWindow, Holds
    <2>2. \A q : InWindow(D, w, q) <=> q # p /\ InWindow(S, w, q)  BY <1>9, <1>30 DEF InWindow, Holds
    <2>3. \A x \in Windows \ {v, w} : \A q : InWindow(D, x, q) <=> InWindow(S, x, q)
      BY <1>32 DEF InWindow
    <2>4. \A q : ~InWindow(S, v, q)
      <3>1. DOMAIN <<>> = {}  OBVIOUS
      <3>2. QED  BY <1>3, <3>1 DEF InWindow
    <2>5. ASSUME NEW x \in Windows, NEW y \in Windows, NEW q \in Pages,
                 InWindow(D, x, q), InWindow(D, y, q)
          PROVE  x = y
      <3>1. ASSUME NEW z \in Windows, InWindow(D, z, q)
            PROVE  z = IF q = p THEN v ELSE z
        <4>1. CASE q = p /\ z \notin {v, w}  BY <1>1, <2>3, <3>1, <4>1 DEF Placed
        <4>2. CASE q = p /\ z = w  BY <2>2, <3>1, <4>2
        <4>3. QED  BY <4>1, <4>2
      <3>2. CASE q = p  BY <2>5, <3>1, <3>2
      <3>3. CASE q # p
        <4>1. InWindow(S, x, q) /\ InWindow(S, y, q)  BY <2>1, <2>2, <2>3, <2>5, <3>3
        <4>2. QED  BY <1>1, <4>1 DEF Placed
      <3>4. QED  BY <3>2, <3>3
    <2>6. ASSUME NEW q \in Pages, Leaves(D, q) # {}
          PROVE  q \in D.lost \/ \E x \in Windows : InWindow(D, x, q)
      <3>1. CASE q = p  BY <1>1, <2>1, <3>1
      <3>2. CASE q # p
        <4>1. q \in S.lost \/ \E x \in Windows : InWindow(S, x, q)
          BY <1>1, <1>24, <2>6 DEF Placed
        <4>2. QED  BY <1>23, <2>2, <2>3, <2>4, <3>2, <4>1
      <3>3. QED  BY <3>1, <3>2
    <2>7. ASSUME NEW x \in Windows, NEW q \in Pages, InWindow(D, x, q) PROVE Leaves(D, q) # {}
      <3>1. \E y \in Windows : InWindow(S, y, q)  BY <2>1, <2>2, <2>3, <2>7
      <3>2. QED  BY <1>1, <1>24, <3>1 DEF Placed
    <2>8. QED  BY <2>5, <2>6, <2>7 DEF Placed
  <1>35. Step(S, D)  BY <1>20, <1>22, <1>33, <1>34 DEF Step, Good, TabsOK, Calm
  <1>36. Step(D, R)  BY <1>21, <1>35, FocusTerminalStep DEF Step
  <1>37. QED  BY <1>35, <1>36, StepsCompose


\* Another record of a window that has the same tabs.
LEMMA WindowStep ==
  ASSUME NEW S, Good(S), NEW w \in Windows, NEW r \in WindowRecord, Names(r.dialog), WindowOK(r),
         r.tabs = S.windows[w].tabs, NEW R, R = [S EXCEPT !.windows[w] = r]
  PROVE  Step(S, R) /\ SetsWindow(S, R, w, r)
  <1>1. Sound(S) /\ TabsOK(S)  BY DEF Good
  <1>2. SetsWindow(S, R, w, r)  BY ONLY <1>1, OneWindow, Names(r.dialog), R = [S EXCEPT !.windows[w] = r]
  <1>3. /\ Sound(R) /\ R.panes = S.panes /\ R.lost = S.lost
        /\ R.windows[w] = r /\ \A v \in Windows \ {w} : R.windows[v] = S.windows[v]
    BY <1>2 DEF SetsWindow
  <1>4. \A v \in Windows : WindowOK(R.windows[v])  BY <1>1, <1>3 DEF TabsOK
  <1>5. \A v \in Windows : \A p \in Pages : InWindow(R, v, p) <=> InWindow(S, v, p)
    BY <1>3 DEF InWindow
  <1>6. \A p \in Pages : Leaves(R, p) = {} <=> Leaves(S, p) = {}  BY <1>3 DEF Leaves
  <1>7. TabsOK(R)  BY <1>1, <1>3, <1>4, <1>5, <1>6, TabsFrame
  <1>8. Calm(S, R)  BY <1>3 DEF Calm
  <1>9. QED  BY <1>2, <1>3, <1>7, <1>8 DEF Step, Good

\* Another dialog or menu of a window with tabs.
LEMMA MenuStep ==
  ASSUME NEW S, Good(S), NEW w \in Windows,
         NEW r \in WindowRecord, r.open = S.windows[w].open, r.tabs = S.windows[w].tabs,
         r.selected = S.windows[w].selected, Names(r.dialog),
         ~r.open => r.menuOpen = NoPage, r.menuOpen # NoPage => r.menuPage = r.menuOpen,
         r.menuIdle => r.menuOpen = NoPage, NEW R, R = [S EXCEPT !.windows[w] = r]
  PROVE  Step(S, R) /\ SetsWindow(S, R, w, r)
  <1>1. WindowOK(S.windows[w])  BY DEF Good, TabsOK
  <1>2. IsInjective(r.tabs)  BY <1>1 DEF WindowOK
  <1>3. ~r.open => r.tabs = <<>>  BY <1>1, Zenon DEF WindowOK
  <1>4. r.open => \E i \in DOMAIN r.tabs : r.tabs[i] = r.selected  BY <1>1, Zenon DEF WindowOK
  <1>5. WindowOK(r)  BY <1>2, <1>3, <1>4, Zenon DEF WindowOK
  <1>6. QED  BY <1>5, WindowStep

\* Opening the menu of a tab, which it captures, leaves the screen good.
LEMMA SetupMenuStep ==
  ASSUME NEW S, Good(S), NEW w \in Windows, S.windows[w].open, NEW p \in Pages,
         NEW R, R = [S EXCEPT !.windows[w] = Captured(@, p)]
  PROVE  Step(S, R)
  <1>1. PICK r0 \in WindowRecord : r0 = S.windows[w]  BY WindowType DEF Good, Sound
  <1>2. PICK r : r = [r0 EXCEPT !.menuOpen = p, !.menuPage = p, !.menuIdle = FALSE]  OBVIOUS
  <1>3. r \in WindowRecord  BY <1>2, Zenon DEF WindowRecord
  <1>4. r.tabs = r0.tabs /\ r.selected = r0.selected /\ r.dialog = r0.dialog
        /\ r.menuOpen = p /\ r.menuPage = p
    BY <1>2 DEF WindowRecord
  <1>5. r.open = r0.open /\ ~r.menuIdle  BY <1>2, Zenon DEF WindowRecord
  <1>6. Names(r.dialog)  BY <1>1, <1>4 DEF Good, Sound, DialogOK
  <1>7. R = [S EXCEPT !.windows[w] = r]  BY <1>1, <1>2 DEF Captured
  <1>8. r.open  BY <1>1, <1>5, Zenon
  <1>9. r.open = S.windows[w].open /\ r.tabs = S.windows[w].tabs /\ r.selected = S.windows[w].selected
    BY <1>1, <1>4, <1>5, Zenon
  <1>10. Good(S)  OBVIOUS
  <1>11. QED  BY ONLY <1>3, <1>4, <1>5, <1>6, <1>7, <1>8, <1>9, <1>10, MenuStep

\* Closing the menu, and forgetting its tab when idle, leave the screen good.
LEMMA MenuGoneStep ==
  ASSUME NEW S, Good(S), NEW w \in Windows, NEW R,
         \/ R = [S EXCEPT !.windows[w].menuOpen = NoPage, !.windows[w].menuIdle = TRUE]
         \/ /\ S.windows[w].menuIdle
            /\ R = [S EXCEPT !.windows[w].menuPage = NoPage, !.windows[w].menuIdle = FALSE]
  PROVE  Step(S, R)
  <1>1. PICK r0 \in WindowRecord : r0 = S.windows[w]  BY WindowType DEF Good, Sound
  <1>2. WindowOK(r0) /\ Names(r0.dialog)  BY <1>1 DEF Good, Sound, TabsOK, DialogOK
  <1>3. CASE R = [S EXCEPT !.windows[w].menuOpen = NoPage, !.windows[w].menuIdle = TRUE]
    <2>1. PICK r : r = [r0 EXCEPT !.menuOpen = NoPage, !.menuIdle = TRUE]  OBVIOUS
    <2>2. r \in WindowRecord  BY <2>1, Zenon DEF WindowRecord
    <2>3. r.tabs = r0.tabs /\ r.selected = r0.selected /\ r.dialog = r0.dialog /\ r.menuOpen = NoPage
      BY <2>1 DEF WindowRecord
    <2>4. r.open = r0.open  BY ONLY <1>1, <2>1, SMT DEF WindowRecord
    <2>5. R = [S EXCEPT !.windows[w] = r]
      <3>1. R = [S EXCEPT !.windows[w] = [r0 EXCEPT !.menuOpen = NoPage, !.menuIdle = TRUE]]
        BY ONLY <1>1, <1>3
      <3>2. QED  BY <2>1, <3>1, Zenon
    <2>6. r.open = S.windows[w].open /\ r.tabs = S.windows[w].tabs /\ r.selected = S.windows[w].selected
      BY <1>1, <2>3, <2>4, Zenon
    <2>7. Good(S) /\ Names(r.dialog)  BY <1>2, <2>3
    <2>8. QED  BY ONLY <2>2, <2>3, <2>5, <2>6, <2>7, MenuStep
  <1>4. CASE /\ S.windows[w].menuIdle
             /\ R = [S EXCEPT !.windows[w].menuPage = NoPage, !.windows[w].menuIdle = FALSE]
    <2>1. PICK r : r = [r0 EXCEPT !.menuPage = NoPage, !.menuIdle = FALSE]  OBVIOUS
    <2>2. r \in WindowRecord  BY <2>1, Zenon DEF WindowRecord
    <2>3. r.tabs = r0.tabs /\ r.selected = r0.selected /\ r.dialog = r0.dialog /\ r.menuOpen = r0.menuOpen
      BY <2>1 DEF WindowRecord
    <2>4. r.open = r0.open /\ ~r.menuIdle  BY <2>1, Zenon DEF WindowRecord
    <2>5. R = [S EXCEPT !.windows[w] = r]  BY <1>1, <1>4, <2>1
    <2>6. r.open = S.windows[w].open /\ r.tabs = S.windows[w].tabs /\ r.selected = S.windows[w].selected
      BY <1>1, <2>3, <2>4, Zenon
    <2>7. r.menuOpen = NoPage
      <3>1. r0.menuIdle  BY <1>1, <1>4, Zenon
      <3>2. r0.menuOpen = NoPage  BY <1>2, <3>1, Zenon DEF WindowOK
      <3>3. QED  BY <2>3, <3>2
    <2>8. Good(S) /\ Names(r.dialog)  BY <1>2, <2>3
    <2>9. QED  BY ONLY <2>2, <2>5, <2>6, <2>7, <2>8, MenuStep
  <1>5. QED  BY <1>3, <1>4

\* A dialog comes up, and one goes.
LEMMA DialogStep ==
  ASSUME NEW S, Good(S), NEW w \in Windows, NEW d \in Dialog, Names(d),
         NEW R, R = [S EXCEPT !.windows[w].dialog = d]
  PROVE  Step(S, R) /\ R.panes = S.panes /\ R.pages = S.pages /\ R.lost = S.lost
         /\ R.windows[w].selected = S.windows[w].selected /\ R.windows[w].tabs = S.windows[w].tabs
         /\ R.windows[w].open = S.windows[w].open
  <1>1. PICK r0 \in WindowRecord : r0 = S.windows[w]  BY WindowType DEF Good, Sound
  <1>2. PICK r : r = [r0 EXCEPT !.dialog = d]  OBVIOUS
  <1>3. r \in WindowRecord  BY <1>2, Zenon DEF WindowRecord
  <1>4. r.tabs = r0.tabs /\ r.selected = r0.selected /\ r.dialog = d
        /\ r.menuOpen = r0.menuOpen /\ r.menuPage = r0.menuPage
    BY <1>2 DEF WindowRecord
  <1>5. r.open = r0.open /\ r.menuIdle = r0.menuIdle  BY <1>2, Zenon DEF WindowRecord
  <1>6. WindowOK(r0)  BY <1>1 DEF Good, TabsOK
  <1>7. ~r.open => r.menuOpen = NoPage  BY <1>4, <1>5, <1>6, Zenon DEF WindowOK
  <1>8. r.menuOpen # NoPage => r.menuPage = r.menuOpen  BY <1>4, <1>6 DEF WindowOK
  <1>9. r.menuIdle => r.menuOpen = NoPage  BY <1>4, <1>5, <1>6, Zenon DEF WindowOK
  <1>10. R = [S EXCEPT !.windows[w] = r]  BY <1>1, <1>2
  <1>11. r.open = S.windows[w].open /\ r.tabs = S.windows[w].tabs /\ r.selected = S.windows[w].selected
    BY <1>1, <1>4, <1>5, Zenon
  <1>12. Good(S) /\ Names(r.dialog)  BY <1>4
  <1>13. Step(S, R) /\ SetsWindow(S, R, w, r)
    BY ONLY <1>3, <1>7, <1>8, <1>9, <1>10, <1>11, <1>12, MenuStep
  <1>14. R.panes = S.panes /\ R.pages = S.pages /\ R.lost = S.lost /\ R.windows[w] = r
    BY <1>13 DEF SetsWindow
  <1>15. QED  BY <1>11, <1>13, <1>14, Zenon


\* The tabs of a window in another order.
LEMMA RetabStep ==
  ASSUME NEW S, Good(S), NEW w \in Windows, S.windows[w].open,
         NEW s \in Seq(Pages), IsInjective(s), \A x : Holds(s, x) <=> InWindow(S, w, x),
         NEW R, R = [S EXCEPT !.windows[w].tabs = s]
  PROVE  Step(S, R)
  <1>1. Sound(S) /\ TabsOK(S) /\ WindowOK(S.windows[w])  BY DEF Good, TabsOK
  <1>2. SetsTabs(S, R, w, s)
    BY ONLY <1>1, SetTabsSound, s \in Seq(Pages), R = [S EXCEPT !.windows[w].tabs = s]
  <1>3. /\ Sound(R) /\ R.panes = S.panes /\ R.lost = S.lost /\ R.windows[w].tabs = s
        /\ R.windows[w].selected = S.windows[w].selected /\ SameMenu(R.windows[w], S.windows[w])
        /\ \A v \in Windows \ {w} : R.windows[v] = S.windows[v]
    BY <1>2 DEF SetsTabs
  <1>4. WindowOK(R.windows[w])
    <2>1. InWindow(S, w, S.windows[w].selected)  BY <1>1, Zenon DEF WindowOK, InWindow
    <2>2. IsInjective(R.windows[w].tabs) /\ Holds(R.windows[w].tabs, R.windows[w].selected)
      BY <1>3, <2>1
    <2>3. S.windows[w].menuOpen # NoPage => S.windows[w].menuPage = S.windows[w].menuOpen
      BY <1>1 DEF WindowOK
    <2>4. S.windows[w].menuIdle => S.windows[w].menuOpen = NoPage  BY <1>1, Zenon DEF WindowOK
    <2>5. S.windows[w].open  OBVIOUS
    <2>6. QED  BY ONLY <1>3, <2>2, <2>3, <2>4, <2>5, AttachedWindow
  <1>5. \A v \in Windows : WindowOK(R.windows[v])  BY <1>1, <1>3, <1>4 DEF TabsOK
  <1>6. \A v \in Windows : \A p \in Pages : InWindow(R, v, p) <=> InWindow(S, v, p)
    <2>1. \A p : InWindow(R, w, p) <=> InWindow(S, w, p)
      <3>1. \A p : InWindow(R, w, p) <=> Holds(s, p)  BY <1>3 DEF InWindow, Holds
      <3>2. QED  BY <3>1
    <2>2. \A v \in Windows \ {w} : \A p \in Pages : InWindow(R, v, p) <=> InWindow(S, v, p)
      BY <1>3 DEF InWindow
    <2>3. QED  BY <2>1, <2>2
  <1>7. \A p \in Pages : Leaves(R, p) = {} <=> Leaves(S, p) = {}  BY <1>3 DEF Leaves
  <1>8. TabsOK(R)  BY ONLY <1>1, <1>3, <1>5, <1>6, <1>7, TabsFrame
  <1>9. QED  BY <1>3, <1>8 DEF Step, Good, Calm

\* The same elements in another order, none of them twice.
Reorders(s, r) ==
  r \in Seq(Pages) /\ IsInjective(r) /\ \A x : Holds(r, x) <=> Holds(s, x)

\* Two elements change places.
LEMMA SwapIs ==
  ASSUME NEW s \in Seq(Pages), IsInjective(s), NEW i \in DOMAIN s, NEW j \in DOMAIN s,
         NEW r, r = [s EXCEPT ![i] = s[j], ![j] = s[i]]
  PROVE  Reorders(s, r)
  <1>1. PICK n : n = Len(s)  OBVIOUS
  <1>2. n \in Nat /\ DOMAIN s = 1..n  BY <1>1, LenProperties
  <1>3. s[i] \in Pages /\ s[j] \in Pages /\ s \in [1..n -> Pages]  BY <1>1, <1>2, ElementOfSeq, LenProperties
  <1>4. r \in [1..n -> Pages]  BY <1>2, <1>3
  <1>5. r \in Seq(Pages)  BY <1>2, <1>4, IsASeq
  <1>6. DOMAIN r = DOMAIN s  BY <1>2, <1>4
  <1>7. r[j] = s[i] /\ r[i] = s[j] /\ \A k \in DOMAIN s \ {i, j} : r[k] = s[k]
    BY <1>2, <1>3
  <1>8. \A a, b \in DOMAIN s : s[a] = s[b] => a = b  BY DEF IsInjective
  <1>9. IsInjective(r)
    <2>1. ASSUME NEW a \in DOMAIN s, NEW b \in DOMAIN s, r[a] = r[b] PROVE a = b
      BY <1>7, <1>8, <2>1
    <2>2. QED  BY <1>6, <2>1 DEF IsInjective
  <1>10. \A x : Holds(r, x) <=> Holds(s, x)
    <2>1. ASSUME NEW x, NEW a \in DOMAIN s, s[a] = x PROVE \E b \in DOMAIN s : r[b] = x
      BY <1>7, <2>1
    <2>2. ASSUME NEW x, NEW a \in DOMAIN s, r[a] = x PROVE \E b \in DOMAIN s : s[b] = x
      BY <1>7, <2>2
    <2>3. QED  BY <1>6, <2>1, <2>2 DEF Holds
  <1>11. QED  BY <1>5, <1>9, <1>10 DEF Reorders

\* A tab that changes places with another one leaves the screen good.
LEMMA TabMoveStep ==
  ASSUME NEW S, Good(S), NEW w \in Windows, NEW p, InWindow(S, w, p),
         NEW i, i = Position(S, w, p), NEW j \in DOMAIN S.windows[w].tabs,
         NEW tabs, tabs = S.windows[w].tabs,
         NEW R, R = [S EXCEPT !.windows[w].tabs = [tabs EXCEPT ![i] = tabs[j], ![j] = p]]
  PROVE  Step(S, R)
  <1>1. S \in Screens /\ TabsOK(S)  BY DEF Good, Sound
  <1>2. S.windows[w].open /\ IsInjective(S.windows[w].tabs)  BY <1>1, ShowsIsOpen
  <1>3. tabs \in Seq(Pages)  BY <1>1, WindowType
  <1>4. i \in 1..Len(tabs) /\ tabs[i] = p  BY <1>1, WithoutIs
  <1>5. i \in DOMAIN tabs /\ j \in DOMAIN tabs  BY <1>3, <1>4, LenProperties
  <1>6. PICK r : r = [tabs EXCEPT ![i] = tabs[j], ![j] = tabs[i]]  OBVIOUS
  <1>7. IsInjective(tabs)  BY <1>2
  <1>8. r \in Seq(Pages) /\ IsInjective(r) /\ \A x : Holds(r, x) <=> Holds(tabs, x)
    <2>1. Reorders(tabs, r)  BY ONLY <1>3, <1>5, <1>6, <1>7, SwapIs
    <2>2. QED  BY <2>1 DEF Reorders
  <1>9. \A x : Holds(r, x) <=> InWindow(S, w, x)
    <2>1. \A x : Holds(tabs, x) <=> InWindow(S, w, x)  BY DEF Holds, InWindow
    <2>2. QED  BY ONLY <1>8, <2>1
  <1>10. R = [S EXCEPT !.windows[w].tabs = r]
    <2>1. r = [tabs EXCEPT ![i] = tabs[j], ![j] = p]  BY ONLY <1>4, <1>6
    <2>2. QED  BY ONLY <2>1, R = [S EXCEPT !.windows[w].tabs = [tabs EXCEPT ![i] = tabs[j], ![j] = p]]
  <1>11. Good(S) /\ S.windows[w].open  BY <1>2
  <1>12. QED  BY ONLY <1>8, <1>9, <1>10, <1>11, RetabStep


\* R is S but for the name and the pin of page p, and the shells' titles in it.
Touched(S, R, p) ==
  /\ R \in Screens /\ SameRest(S, R)
  /\ \A q \in Pages \ {p} : R.pages[q] = S.pages[q]
  /\ R.pages[p].focused = S.pages[p].focused /\ R.pages[p].zoomed = S.pages[p].zoomed
  /\ R.pages[p].hidden = S.pages[p].hidden
  /\ \A t \in Panes : /\ R.panes[t].page = S.panes[t].page /\ R.panes[t].path = S.panes[t].path
                      /\ R.panes[t].bridge = S.panes[t].bridge
                      /\ R.panes[t].death = S.panes[t].death
                      /\ R.panes[t].scrim = S.panes[t].scrim
  /\ \A t \in Panes : S.panes[t].page # p => R.panes[t].shell = S.panes[t].shell

\* Then only the title is to be looked at.
LEMMA TouchedStep ==
  ASSUME NEW S, Good(S), NEW p \in Pages, NEW R, Touched(S, R, p), TitleOK(R, p)
  PROVE  Step(S, R)
  <1>1. Sound(S) /\ TabsOK(S) /\ S \in Screens /\ R \in Screens  BY DEF Good, Sound, Touched
  <1>2. R.windows = S.windows /\ R.dim = S.dim /\ R.lost = S.lost  BY DEF Touched, SameRest
  <1>3. \A t \in Panes : /\ R.panes[t].page = S.panes[t].page /\ R.panes[t].path = S.panes[t].path
                         /\ R.panes[t].bridge = S.panes[t].bridge
                         /\ R.panes[t].death = S.panes[t].death
                         /\ R.panes[t].scrim = S.panes[t].scrim
    BY DEF Touched
  <1>4. \A q : Leaves(R, q) = Leaves(S, q)  BY <1>3 DEF Leaves
  <1>5. \A t \in Panes : BridgeOK(R, t)  BY <1>1, <1>3 DEF Sound, BridgeOK
  <1>6. \A w \in Windows : DialogOK(R, w)  BY <1>1, <1>2 DEF Sound, DialogOK
  <1>7. ASSUME NEW q \in Pages \ {p} PROVE PageOK(R, q)
    <2>1. PageOK(S, q) /\ R.pages[q] = S.pages[q]  BY <1>1 DEF Sound, Touched
    <2>2. \A t \in Leaves(S, q) : R.panes[t].shell = S.panes[t].shell  BY DEF Leaves, Touched
    <2>3. \A t \in Leaves(S, q) : /\ R.panes[t].path = S.panes[t].path
                                  /\ R.panes[t].shell = S.panes[t].shell
                                  /\ R.panes[t].scrim = S.panes[t].scrim
      BY <1>3, <2>2 DEF Leaves
    <2>4. QED  BY <1>2, <1>4, <2>1, <2>3, PageFrame
  <1>8. PageOK(R, p)
    <2>1. PageOK(S, p)  BY <1>1 DEF Sound
    <2>2. /\ R.pages[p].focused = S.pages[p].focused /\ R.pages[p].zoomed = S.pages[p].zoomed
          /\ R.pages[p].hidden = S.pages[p].hidden
      BY DEF Touched
    <2>3. TreeOK(R, p)
      <3>1. \A t \in Leaves(S, p) : Paths(R)[t] = Paths(S)[t]  BY <1>3 DEF Paths, Leaves
      <3>2. FullTree(Leaves(S, p), Paths(R))  BY <2>1, <3>1, SameTree DEF TreeOK, PageOK
      <3>3. QED  BY <1>4, <3>2 DEF TreeOK
    <2>4. FocusOK(R, p)
      <3>1. \A t \in Leaves(S, p) : R.panes[t].path = S.panes[t].path  BY <1>3 DEF Leaves
      <3>2. FocusOK(S, p)  BY <2>1 DEF PageOK
      <3>3. QED  BY <1>4, <2>2, <3>1, <3>2 DEF FocusOK
    <2>5. ZoomOK(R, p)
      <3>1. ASSUME S.pages[p].zoomed # NoPane
            PROVE  Around(R, S.pages[p].focused) = Around(S, S.pages[p].focused)
        <4>1. S.pages[p].zoomed = S.pages[p].focused
          BY <2>1, <3>1 DEF PageOK, ZoomOK, ZoomFits
        <4>2. S.pages[p].focused \in Panes  BY <1>1, <3>1, <4>1, PageType
        <4>3. QED  BY <1>3, <4>2 DEF Around
      <3>2. QED  BY <2>1, <2>2, <3>1 DEF PageOK, ZoomOK, ZoomFits
    <2>6. DimOK(R, p)
      <3>1. \A t \in Leaves(S, p) : R.panes[t].scrim = S.panes[t].scrim  BY <1>3 DEF Leaves
      <3>2. DimOK(S, p)  BY <2>1 DEF PageOK
      <3>3. QED  BY <1>2, <1>4, <2>2, <3>1, <3>2 DEF DimOK
    <2>7. QED  BY <2>3, <2>4, <2>5, <2>6 DEF PageOK
  <1>9. Sound(R)  BY <1>1, <1>5, <1>6, <1>7, <1>8 DEF Sound
  <1>10. TabsOK(R) /\ Calm(S, R)  BY <1>1, <1>2, <1>3, SamePanesStay
  <1>11. QED  BY <1>9, <1>10 DEF Step, Good

\* The pin of a page alone.
LEMMA PinStep ==
  ASSUME NEW S, Good(S), NEW p \in Pages, NEW b \in BOOLEAN,
         NEW R, R = [S EXCEPT !.pages[p].pinned = b]
  PROVE  Step(S, R) /\ R.windows = S.windows
  <1>1. S \in Screens  BY DEF Good, Sound
  <1>2. PICK r0 \in PageRecord : r0 = S.pages[p]  BY <1>1, PageType
  <1>3. PICK r : r = [r0 EXCEPT !.pinned = b]  OBVIOUS
  <1>4. r \in PageRecord  BY <1>3, Zenon DEF PageRecord
  <1>5. r.focused = r0.focused /\ r.zoomed = r0.zoomed /\ r.hidden = r0.hidden /\ r.title = r0.title
    BY <1>3 DEF PageRecord
  <1>6. r.custom = r0.custom  BY <1>3, Zenon DEF PageRecord
  <1>7. R = [S EXCEPT !.pages[p] = r]  BY <1>2, <1>3
  <1>8. R \in Screens  BY <1>1, <1>4, <1>7, OneExcept
  <1>9. R.panes = S.panes /\ SameRest(S, R) /\ R.pages = [S.pages EXCEPT ![p] = r]
    BY <1>1, <1>7 DEF Screens, SameRest
  <1>10. R.pages[p] = r /\ \A q \in Pages \ {p} : R.pages[q] = S.pages[q]
    BY <1>1, <1>9, ScreenType
  <1>11. Touched(S, R, p)  BY <1>2, <1>5, <1>8, <1>9, <1>10 DEF Touched
  <1>12. TitleOK(R, p)
    <2>1. TitleFor(R, p) = TitleFor(S, p)
      <3>1. R.pages[p].custom = S.pages[p].custom  BY <1>2, <1>6, <1>10, Zenon
      <3>2. QED  BY <1>2, <1>5, <1>9, <1>10, <3>1 DEF TitleFor
    <2>2. TitleOK(S, p)  BY DEF Good, Sound, PageOK
    <2>3. QED  BY <1>2, <1>5, <1>10, <2>1, <2>2 DEF TitleOK
  <1>13. QED  BY <1>9, <1>11, <1>12, TouchedStep DEF SameRest


\* Some of the elements of a sequence are no more than its length.
LEMMA SomeOf ==
  ASSUME NEW s \in Seq(Pages), NEW K, \A x \in K : Holds(s, x)
  PROVE  IsFiniteSet(K) /\ Cardinality(K) \in 0 .. Len(s)
  <1>1. PICK n : n = Len(s)  OBVIOUS
  <1>2. n \in Nat /\ DOMAIN s = 1..n  BY <1>1, LenProperties
  <1>3. IsFiniteSet(1..n) /\ Cardinality(1..n) = n  BY <1>2, FS_Interval
  <1> DEFINE f == [x \in K |-> CHOOSE i \in 1..n : s[i] = x]
  <1>4. \A x \in K : f[x] \in 1..n /\ s[f[x]] = x  BY <1>2 DEF Holds
  <1>5. f \in [K -> 1..n]  BY <1>4
  <1>6. IsInjective(f)
    <2>1. \A x, y \in K : f[x] = f[y] => x = y  BY <1>4
    <2>2. DOMAIN f = K  OBVIOUS
    <2> HIDE DEF f
    <2>3. QED  BY <2>1, <2>2 DEF IsInjective
  <1>7. f \in Injection(K, 1..n)  BY <1>5, <1>6 DEF Injection
  <1> HIDE DEF f
  <1>8. IsFiniteSet(K) /\ Cardinality(K) <= Cardinality(1..n)  BY <1>3, <1>7, FS_Injection
  <1>9. Cardinality(K) \in Nat  BY <1>8, FS_CardinalityType
  <1>10. QED  BY <1>1, <1>2, <1>3, <1>8, <1>9

\* Pinning or unpinning a tab, which moves it, leaves the screen good.
LEMMA TabPinStep ==
  ASSUME NEW S, Good(S), NEW w \in Windows, NEW p, InWindow(S, w, p),
         NEW K, K = {q \in Pages \ {p} : InWindow(S, w, q) /\ S.pages[q].pinned},
         NEW k, k = Cardinality(K),
         NEW R, R = [S EXCEPT !.pages[p].pinned = ~@,
                              !.windows[w].tabs = InsertAt(Without(S, w, p), k + 1, p)]
  PROVE  Step(S, R)
  <1>1. S \in Screens /\ TabsOK(S)  BY DEF Good, Sound
  <1>2. S.windows[w].open /\ IsInjective(S.windows[w].tabs)  BY <1>1, ShowsIsOpen
  <1>3. p \in Pages  BY <1>1, WithoutIs
  <1>4. PICK s \in Seq(Pages) : s = Without(S, w, p)  BY <1>1, WithoutIs
  <1>5. IsInjective(s) /\ \A x : Holds(s, x) <=> x # p /\ InWindow(S, w, x)
    BY <1>1, <1>2, <1>4, WithoutHolds
  <1>6. k \in 0 .. Len(s)
    <2>1. \A x \in K : Holds(s, x)  BY <1>5
    <2>2. s \in Seq(Pages)  BY <1>4
    <2>3. Cardinality(K) \in 0 .. Len(s)  BY ONLY <2>1, <2>2, SomeOf
    <2>4. QED  BY <2>3
  <1>7. PICK r : r = InsertAt(s, k + 1, p)  OBVIOUS
  <1>8. r \in Seq(Pages) /\ IsInjective(r) /\ \A x : Holds(r, x) <=> x = p \/ Holds(s, x)
    <2>1. s \in Seq(Pages) /\ ~Holds(s, p)  BY <1>4, <1>5
    <2>2. QED  BY ONLY <1>3, <1>5, <1>6, <1>7, <2>1, InsertHolds
  <1>9. PICK b : b = ~S.pages[p].pinned  OBVIOUS
  <1>10. b \in BOOLEAN  BY <1>9
  <1>11. PICK X : X = [S EXCEPT !.pages[p].pinned = b]  OBVIOUS
  <1>12. Step(S, X) /\ X.windows = S.windows
    <2>1. Good(S)  OBVIOUS
    <2>2. QED  BY ONLY <1>3, <1>10, <1>11, <2>1, PinStep
  <1>13. Good(X) /\ X.windows[w].open  BY <1>2, <1>12, Zenon DEF Step
  <1>14. \A x : Holds(r, x) <=> InWindow(X, w, x)
    <2>1. \A x : InWindow(X, w, x) <=> InWindow(S, w, x)  BY <1>12 DEF InWindow
    <2>2. InWindow(S, w, p)  OBVIOUS
    <2>3. QED  BY ONLY <1>5, <1>8, <2>1, <2>2
  <1>15. R = [X EXCEPT !.windows[w].tabs = r]
    <2>1. R = [S EXCEPT !.pages[p].pinned = ~@, !.windows[w].tabs = r]  BY <1>4, <1>7
    <2>2. R = [S EXCEPT !.pages[p].pinned = b, !.windows[w].tabs = r]  BY ONLY <1>9, <2>1
    <2>3. QED  BY ONLY <1>11, <2>2
  <1>16. Step(X, R)  BY ONLY <1>8, <1>13, <1>14, <1>15, RetabStep
  <1>17. QED  BY ONLY <1>12, <1>16, StepsCompose


\* X is S but for window w, which is about to lose its tabs of P.
Drops(S, X, w, P) ==
  /\ X.lost = S.lost
  /\ \A u \in Panes : X.panes[u].page = S.panes[u].page /\ X.panes[u].death = S.panes[u].death
  /\ \A v \in Windows \ {w} : X.windows[v] = S.windows[v]
  /\ WindowOK(X.windows[w])
  /\ \A q \in Pages : Holds(X.windows[w].tabs, q) <=> InWindow(S, w, q) /\ q \notin P

\* The pages whose tabs have gone are destroyed.
LEMMA DestroyStep ==
  ASSUME NEW S, Good(S), NEW w \in Windows, NEW P \in SUBSET Pages, \A p \in P : InWindow(S, w, p),
         NEW X, Sound(X), Drops(S, X, w, P), NEW R, R = DestroyAll(X, P)
  PROVE  Step(S, R)
  <1>1. Sound(S) /\ TabsOK(S) /\ Placed(S)  BY DEF Good, TabsOK
  <1>2. /\ Sound(R) /\ R.lost = X.lost
        /\ \A t \in Panes : R.panes[t] = IF X.panes[t].page \in P THEN NoPaneRecord ELSE X.panes[t]
        /\ \A v \in Windows :
             MenuCleared(R.windows[v], X.windows[v], P) /\ R.windows[v].tabs = X.windows[v].tabs
             /\ R.windows[v].selected = X.windows[v].selected
    <2>1. /\ Sound(R) /\ R.lost = X.lost
          /\ \A t \in Panes : R.panes[t] = IF X.panes[t].page \in P THEN NoPaneRecord ELSE X.panes[t]
      BY ONLY DestroySound, Sound(X), P \in SUBSET Pages, R = DestroyAll(X, P)
    <2>2. \A v \in Windows :
            /\ R.windows[v].open = X.windows[v].open /\ R.windows[v].tabs = X.windows[v].tabs
            /\ R.windows[v].dialog = X.windows[v].dialog
            /\ R.windows[v].selected = X.windows[v].selected
            /\ R.windows[v].menuIdle = X.windows[v].menuIdle
            /\ R.windows[v].menuPage =
                 IF X.windows[v].menuPage \in P THEN NoPage ELSE X.windows[v].menuPage
            /\ R.windows[v].menuOpen =
                 IF X.windows[v].menuOpen \in P THEN NoPage ELSE X.windows[v].menuOpen
      BY ONLY DestroySound, Sound(X), P \in SUBSET Pages, R = DestroyAll(X, P)
    <2>3. QED  BY ONLY <2>1, <2>2, Zenon DEF MenuCleared
  <1>3. NoPage \notin P /\ NoPage \notin Pages  BY TabsConstants
  <1>4. \A v \in Windows : WindowOK(X.windows[v])  BY <1>1 DEF Drops, TabsOK
  <1>5. ASSUME NEW v \in Windows PROVE WindowOK(R.windows[v])
    <2>1. MenuCleared(R.windows[v], X.windows[v], P) /\ R.windows[v].tabs = X.windows[v].tabs
          /\ R.windows[v].selected = X.windows[v].selected
      BY <1>2
    <2>2. WindowOK(X.windows[v])  BY <1>4
    <2>3. R.windows[v].open = X.windows[v].open  BY <2>1, Zenon DEF MenuCleared
    <2>4. IsInjective(R.windows[v].tabs)  BY <2>1, <2>2 DEF WindowOK
    <2>5. ~R.windows[v].open => R.windows[v].tabs = <<>>  BY <2>1, <2>2, <2>3, Zenon DEF WindowOK
    <2>6. R.windows[v].open => Holds(R.windows[v].tabs, R.windows[v].selected)
      BY <2>1, <2>2, <2>3, Zenon DEF WindowOK, Holds
    <2>7. QED  BY ONLY <1>3, <2>1, <2>2, <2>4, <2>5, <2>6, ClearedWindow
  <1>6. \A v \in Windows : \A q \in Pages : InWindow(R, v, q) <=> InWindow(S, v, q) /\ q \notin P
    <2>1. ASSUME NEW q \in Pages PROVE InWindow(R, w, q) <=> InWindow(S, w, q) /\ q \notin P
      <3>1. Holds(X.windows[w].tabs, q) <=> InWindow(S, w, q) /\ q \notin P  BY DEF Drops
      <3>2. InWindow(R, w, q) <=> Holds(X.windows[w].tabs, q)  BY <1>2 DEF InWindow, Holds
      <3>3. QED  BY <3>1, <3>2
    <2>2. ASSUME NEW v \in Windows \ {w}, NEW q \in Pages
          PROVE  InWindow(R, v, q) <=> InWindow(S, v, q) /\ q \notin P
      <3>1. X.windows[v] = S.windows[v]  BY DEF Drops
      <3>2. InWindow(R, v, q) <=> InWindow(S, v, q)  BY <1>2, <3>1 DEF InWindow
      <3>3. ASSUME InWindow(S, v, q), q \in P PROVE FALSE
        <4>1. InWindow(S, w, q)  BY <3>3
        <4>2. QED  BY <1>1, <3>3, <4>1 DEF Placed
      <3>4. QED  BY <3>2, <3>3
    <2>3. QED  BY <2>1, <2>2
  <1>7. \A q \in P : Leaves(R, q) = {}
    <2>1. NoPaneRecord.page = NoPage  BY DEF NoPaneRecord
    <2>2. QED  BY <1>2, <1>3, <2>1 DEF Leaves
  <1>8. ASSUME NEW q \in Pages \ P PROVE Leaves(R, q) = Leaves(S, q)
    <2>1. NoPaneRecord.page # q  BY <1>3 DEF NoPaneRecord
    <2>2. \A u \in Panes : X.panes[u].page = S.panes[u].page  BY DEF Drops
    <2>3. \A u \in Panes : R.panes[u].page = q <=> S.panes[u].page = q  BY <1>2, <2>1, <2>2
    <2>4. QED  BY <2>3 DEF Leaves
  <1>9. Placed(R)
    <2>1. R.lost = S.lost  BY <1>2 DEF Drops
    <2>2. ASSUME NEW q \in Pages, Leaves(R, q) # {}
          PROVE  q \in R.lost \/ \E v \in Windows : InWindow(R, v, q)
      <3>1. q \notin P  BY <1>7, <2>2
      <3>2. q \in S.lost \/ \E v \in Windows : InWindow(S, v, q)  BY <1>1, <1>8, <2>2, <3>1 DEF Placed
      <3>3. QED  BY <1>6, <2>1, <3>1, <3>2
    <2>3. \A v \in Windows : \A q \in Pages : InWindow(R, v, q) => Leaves(R, q) # {}
      BY <1>1, <1>6, <1>8 DEF Placed
    <2>4. \A u, v \in Windows : \A q \in Pages : InWindow(R, u, q) /\ InWindow(R, v, q) => u = v
      BY <1>1, <1>6 DEF Placed
    <2>5. QED  BY <2>2, <2>3, <2>4 DEF Placed
  <1>10. Calm(S, R)
    <2>1. NoPaneRecord.death = "alive"  BY DEF NoPaneRecord
    <2>2. QED  BY <1>2, <2>1 DEF Drops, Calm
  <1>11. QED  BY <1>2, <1>5, <1>9, <1>10 DEF Step, Good, TabsOK

\* A window goes with its tabs.
LEMMA DestroyedStep ==
  ASSUME NEW S, Good(S), NEW w \in Windows, NEW R, R = Destroyed(S, w)
  PROVE  Step(S, R)
  <1>1. Sound(S) /\ TabsOK(S)  BY DEF Good
  <1>2. PICK P : P = {p \in Pages : InWindow(S, w, p)}  OBVIOUS
  <1>3. PICK r \in WindowRecord : r = NoWindowRecord  BY NoRecords
  <1>4. PICK X : X = [S EXCEPT !.windows[w] = r]  OBVIOUS
  <1>5. r.dialog = NoDialog  BY <1>3 DEF NoWindowRecord
  <1>6. Names(r.dialog)  BY <1>5 DEF Names, NoDialog
  <1>7. SetsWindow(S, X, w, r)
    <2>1. r \in WindowRecord  BY <1>3
    <2>2. QED  BY ONLY <1>1, <1>4, <1>6, <2>1, OneWindow
  <1>8. R = DestroyAll(X, P)  BY ONLY <1>2, <1>3, <1>4, R = Destroyed(S, w) DEF Destroyed
  <1>9. /\ Sound(X) /\ X.panes = S.panes /\ X.lost = S.lost /\ X.windows[w] = r
        /\ \A v \in Windows \ {w} : X.windows[v] = S.windows[v]
    BY <1>7 DEF SetsWindow
  <1>10. WindowOK(r) /\ \A x : ~Holds(r.tabs, x)  BY <1>3, NoWindowOK
  <1>11. Drops(S, X, w, P)  BY ONLY <1>2, <1>9, <1>10 DEF Drops
  <1>12. Good(S) /\ P \in SUBSET Pages /\ \A p \in P : InWindow(S, w, p)  BY <1>2
  <1>13. QED  BY ONLY <1>8, <1>9, <1>11, <1>12, DestroyStep


\* The pages of P, which are tabs of window w, in the order of these tabs.
LEMMA InOrderIs ==
  ASSUME NEW S \in Screens, NEW w \in Windows, NEW P, \A x \in P : InWindow(S, w, x),
         NEW s \in InOrder(S, w, P)
  PROVE  s \in Seq(Pages) /\ IsInjective(s) /\ \A x : Holds(s, x) <=> x \in P
  <1>1. PICK tabs \in Seq(Pages) : tabs = S.windows[w].tabs  BY WindowType
  <1>2. \A x \in P : Holds(tabs, x)  BY <1>1 DEF Holds, InWindow
  <1>3. tabs \in Seq(Pages)  BY <1>1
  <1>4. Cardinality(P) \in Nat
    <2>1. Cardinality(P) \in 0 .. Len(tabs)  BY ONLY <1>2, <1>3, SomeOf
    <2>2. QED  BY <2>1
  <1>5. PICK n \in Nat : n = Cardinality(P)  BY <1>4
  <1>6. s \in [1..n -> P] /\ Range(s) = P
        /\ \A i, j \in DOMAIN s : i < j => Position(S, w, s[i]) < Position(S, w, s[j])
    BY <1>5 DEF InOrder
  <1>7. P \subseteq Pages
    <2>1. ASSUME NEW x \in P PROVE x \in Pages
      <3>1. InWindow(S, w, x)  OBVIOUS
      <3>2. QED  BY <3>1, WithoutIs
    <2>2. QED  BY <2>1
  <1>8. s \in [1..n -> Pages]  BY <1>6, <1>7
  <1>9. s \in Seq(Pages)
    <2>1. \A i \in 1..n : s[i] \in Pages  BY <1>8
    <2>2. s = [i \in 1..n |-> s[i]]  BY <1>8
    <2>3. QED  BY <1>8, SeqDef
  <1>10. DOMAIN s = 1..n /\ \A i \in 1..n : s[i] \in P  BY <1>6
  <1>11. \A x \in P : Position(S, w, x) \in Nat
    <2>1. ASSUME NEW x \in P PROVE Position(S, w, x) \in Nat
      <3>1. InWindow(S, w, x)  OBVIOUS
      <3>2. Position(S, w, x) \in 1..Len(S.windows[w].tabs) /\ Len(S.windows[w].tabs) \in Nat \ {0}
        BY <3>1, WithoutIs
      <3>3. QED  BY <3>2
    <2>2. QED  BY <2>1
  <1>12. ASSUME NEW i \in 1..n, NEW j \in 1..n, s[i] = s[j] PROVE i = j
    <2>1. ASSUME NEW a \in 1..n, NEW b \in 1..n, s[a] = s[b] PROVE ~(a < b)
      <3>1. s[a] \in P  BY <1>10
      <3>2. PICK m \in Nat : m = Position(S, w, s[a])  BY <1>11, <3>1
      <3>3. a < b => m < m  BY <1>6, <1>10, <2>1, <3>2
      <3>4. QED  BY ONLY <3>2, <3>3
    <2>2. ~(i < j) /\ ~(j < i)  BY <1>12, <2>1
    <2>3. QED  BY <1>5, <2>2
  <1>13. IsInjective(s)  BY <1>10, <1>12 DEF IsInjective
  <1>14. \A x : Holds(s, x) <=> x \in P  BY <1>6, <1>10 DEF Holds, Range
  <1>15. QED  BY <1>9, <1>13, <1>14

\* Closing all tabs but one and the pinned ones leaves the screen good.
LEMMA CloseOthersStep ==
  ASSUME NEW S, Good(S), NEW w \in Windows, NEW p, InWindow(S, w, p),
         NEW gone, gone = {q \in Pages \ {p} : InWindow(S, w, q) /\ ~S.pages[q].pinned},
         NEW left, left = {q \in Pages \ gone : InWindow(S, w, q)},
         NEW Y, Y = IF S.windows[w].selected \in gone THEN Select(S, w, p) ELSE S,
         NEW tabs \in InOrder(S, w, left),
         NEW R, R = DestroyAll([Y EXCEPT !.windows[w].tabs = tabs], gone)
  PROVE  Step(S, R)
  <1>1. S \in Screens /\ TabsOK(S) /\ WindowOK(S.windows[w])  BY DEF Good, Sound, TabsOK
  <1>2. S.windows[w].open /\ InWindow(S, w, S.windows[w].selected)  BY <1>1, ShowsIsOpen
  <1>3. p \in Pages /\ S.windows[w].selected \in Pages  BY <1>1, <1>2, WithoutIs
  <1>4. p \in left  BY <1>3
  <1>5. /\ Good(Y) /\ SamePlaces(S, Y) /\ (\A v \in Windows \ {w} : Y.windows[v] = S.windows[v])
        /\ SameWindow(Y.windows[w], S.windows[w]) /\ Y.windows[w].selected \in left
    <2>1. CASE S.windows[w].selected \in gone
      <3>1. Y = Select(S, w, p) /\ InWindow(S, w, p) /\ Good(S)  BY <2>1
      <3>2. /\ Step(S, Y) /\ SamePlaces(S, Y) /\ (\A v \in Windows \ {w} : Y.windows[v] = S.windows[v])
            /\ Y.windows[w].selected = p /\ SameWindow(Y.windows[w], S.windows[w])
        BY ONLY <1>3, <3>1, SelectStep
      <3>3. QED  BY <1>4, <3>2 DEF Step
    <2>2. CASE S.windows[w].selected \notin gone
      <3>1. Y = S  BY <2>2
      <3>2. S.windows[w].selected \in left  BY <1>2, <1>3, <2>2
      <3>3. SamePlaces(S, S) /\ SameWindow(S.windows[w], S.windows[w])
        BY Zenon DEF SamePlaces, SamePane, SameWindow, SameMenu
      <3>4. Good(S)  OBVIOUS
      <3>5. QED  BY ONLY <3>1, <3>2, <3>3, <3>4
    <2>3. QED  BY <2>1, <2>2
  <1>6. tabs \in Seq(Pages) /\ IsInjective(tabs) /\ \A x : Holds(tabs, x) <=> x \in left
    <2>1. \A x \in left : InWindow(S, w, x)  OBVIOUS
    <2>2. tabs \in InOrder(S, w, left)  OBVIOUS
    <2>3. QED  BY ONLY <1>1, <2>1, <2>2, InOrderIs
  <1>7. PICK X : X = [Y EXCEPT !.windows[w].tabs = tabs]  OBVIOUS
  <1>8. SetsTabs(Y, X, w, tabs)
    <2>1. Sound(Y)  BY <1>5 DEF Good
    <2>2. QED  BY ONLY <1>6, <1>7, <2>1, SetTabsSound
  <1>9. /\ Sound(X) /\ X.panes = Y.panes /\ X.lost = Y.lost /\ X.windows[w].tabs = tabs
        /\ X.windows[w].selected = Y.windows[w].selected /\ SameMenu(X.windows[w], Y.windows[w])
        /\ \A v \in Windows \ {w} : X.windows[v] = Y.windows[v]
    BY <1>8 DEF SetsTabs
  <1>10. SameMenu(X.windows[w], S.windows[w])
    BY <1>5, <1>9, Zenon DEF SameWindow, SameMenu
  <1>11. WindowOK(X.windows[w])
    <2>1. IsInjective(X.windows[w].tabs) /\ Holds(X.windows[w].tabs, X.windows[w].selected)
      BY <1>5, <1>6, <1>9
    <2>2. S.windows[w].menuOpen # NoPage => S.windows[w].menuPage = S.windows[w].menuOpen
      BY <1>1 DEF WindowOK
    <2>3. S.windows[w].menuIdle => S.windows[w].menuOpen = NoPage  BY <1>1, Zenon DEF WindowOK
    <2>4. QED  BY ONLY <1>2, <1>10, <2>1, <2>2, <2>3, AttachedWindow
  <1>12. Drops(S, X, w, gone)
    <2>1. ASSUME NEW u \in Panes
          PROVE  X.panes[u].page = S.panes[u].page /\ X.panes[u].death = S.panes[u].death
      <3>1. X.panes[u] = Y.panes[u]  BY <1>9
      <3>2. Y.panes[u].page = S.panes[u].page /\ Y.panes[u].death = S.panes[u].death
        BY <1>5 DEF SamePlaces, SamePane
      <3>3. QED  BY <3>1, <3>2
    <2>2. X.lost = S.lost  BY <1>5, <1>9 DEF SamePlaces
    <2>3. \A v \in Windows \ {w} : X.windows[v] = S.windows[v]  BY <1>5, <1>9
    <2>4. \A q \in Pages : Holds(X.windows[w].tabs, q) <=> InWindow(S, w, q) /\ q \notin gone
      BY <1>6, <1>9
    <2>5. QED  BY ONLY <1>11, <2>1, <2>2, <2>3, <2>4 DEF Drops
  <1>13. Good(S) /\ gone \in SUBSET Pages /\ \A q \in gone : InWindow(S, w, q)  OBVIOUS
  <1>14. R = DestroyAll(X, gone)  BY <1>7
  <1>15. QED  BY ONLY <1>9, <1>12, <1>13, <1>14, DestroyStep


\* R is S with the death of pane t at another point.
Dies(S, R, t, d) ==
  /\ Good(R) /\ R.pages = S.pages /\ SameRest(S, R)
  /\ R.panes[t].death = d /\ R.panes[t].page = S.panes[t].page
  /\ R.panes[t].bridge = S.panes[t].bridge
  /\ \A u \in Panes \ {t} : R.panes[u] = S.panes[u]

\* A pane whose shell is found dead, or whose death is looked into, stays in
\* its place.
LEMMA DiesIs ==
  ASSUME NEW S, Good(S), NEW t \in Panes, S.panes[t].bridge # NoPage,
         NEW d \in {"pending", "ran"}, NEW R, R = [S EXCEPT !.panes[t].death = d]
  PROVE  Dies(S, R, t, d)
  <1>1. Sound(S) /\ TabsOK(S) /\ S \in Screens  BY DEF Good, Sound
  <1>2. PICK r0 \in PaneRecord : r0 = S.panes[t]  BY <1>1, PaneType
  <1>3. PICK r : r = [r0 EXCEPT !.death = d]  OBVIOUS
  <1>4. r \in PaneRecord  BY <1>3, Zenon DEF PaneRecord
  <1>5. r.page = r0.page /\ r.path = r0.path /\ r.bridge = r0.bridge /\ r.shell = r0.shell /\ r.death = d
    BY <1>3 DEF PaneRecord
  <1>6. r.scrim = r0.scrim  BY <1>3, Zenon DEF PaneRecord
  <1>7. R = [S EXCEPT !.panes[t] = r]  BY <1>2, <1>3
  <1>8. R \in Screens  BY <1>1, <1>4, <1>7, OneExcept
  <1>9. R.pages = S.pages /\ SameRest(S, R) /\ R.panes = [S.panes EXCEPT ![t] = r]
    BY <1>1, <1>7 DEF Screens, SameRest
  <1>10. R.panes[t] = r /\ \A u \in Panes \ {t} : R.panes[u] = S.panes[u]
    BY <1>1, <1>9, ScreenType
  <1>11. R.windows = S.windows /\ R.dim = S.dim /\ R.lost = S.lost  BY <1>9 DEF SameRest
  <1>12. \A u \in Panes : R.panes[u].page = S.panes[u].page /\ R.panes[u].path = S.panes[u].path
                          /\ R.panes[u].shell = S.panes[u].shell
    BY <1>2, <1>5, <1>10
  <1>13. \A u \in Panes : R.panes[u].scrim = S.panes[u].scrim  BY <1>2, <1>6, <1>10, Zenon
  <1>14. \A q : Leaves(R, q) = Leaves(S, q)  BY <1>12 DEF Leaves
  <1>15. \A u \in Panes : BridgeOK(R, u)
    <2>1. BridgeOK(R, t)  BY <1>1, <1>2, <1>5, <1>10 DEF Sound, BridgeOK
    <2>2. \A u \in Panes \ {t} : BridgeOK(R, u)  BY <1>1, <1>10 DEF Sound, BridgeOK
    <2>3. QED  BY <2>1, <2>2
  <1>16. \A w \in Windows : DialogOK(R, w)  BY <1>1, <1>11 DEF Sound, DialogOK
  <1>17. ASSUME NEW q \in Pages PROVE PageOK(R, q)
    <2>1. PageOK(S, q)  BY <1>1 DEF Sound
    <2>2. SamePage(S, R, q)
      <3>1. \A u \in Leaves(S, q) : u \in Panes  BY DEF Leaves
      <3>2. QED  BY <1>9, <1>11, <1>12, <1>13, <1>14, <3>1, Zenon DEF SamePage
    <2>3. QED  BY <2>1, <2>2, SamePageIsOK
  <1>18. Sound(R)  BY <1>8, <1>15, <1>16, <1>17 DEF Sound
  <1>19. TabsOK(R)
    <2>1. \A p \in Pages : Leaves(R, p) = {} <=> Leaves(S, p) = {}  BY <1>14
    <2>2. QED  BY ONLY <1>1, <1>11, <2>1, SameTabs
  <1>20. QED  BY <1>2, <1>5, <1>9, <1>10, <1>18, <1>19 DEF Dies, Good

\* A shell that is found dead is not yet known to have exited.
LEMMA PendingStep ==
  ASSUME NEW S, Good(S), NEW t \in Panes, S.panes[t].bridge # NoPage,
         NEW R, R = [S EXCEPT !.panes[t].death = "pending"]
  PROVE  Step(S, R) /\ SameRest(S, R) /\ R.pages = S.pages
  <1>1. Dies(S, R, t, "pending")  BY DiesIs
  <1>2. QED  BY <1>1 DEF Dies, Step, Calm

\* Of the shells that were found dead only that of t, on page p, may be seen
\* to have exited in R: then a pin kept the page, or it is lost.
Exits(S, R, t, p) ==
  /\ Good(R) /\ p = S.panes[t].page
  /\ \A u \in Panes : S.panes[u].death = "pending" /\ R.panes[u].death = "ran" =>
       u = t /\ (S.pages[p].pinned \/ p \in S.lost)

\* The idle callback of a dead shell takes its pane out of its page.
LEMMA DeathIdleStep ==
  ASSUME NEW S, Good(S), NEW t \in Panes, S.panes[t].death = "pending",
         NEW p, p = S.panes[t].bridge, NEW X, X = [S EXCEPT !.panes[t].death = "ran"],
         NEW next \in Successors(X, WindowOf(X, p), p), NEW R, R = RemoveTerminal(X, p, t, next)
  PROVE  Exits(S, R, t, p)
  <1>1. S \in Screens /\ BridgeOK(S, t)  BY DEF Good, Sound
  <1>2. S.panes[t].bridge # NoPage /\ p = S.panes[t].page  BY <1>1 DEF BridgeOK
  <1>3. p \in Pages  BY <1>1, <1>2, PaneType
  <1>4. Dies(S, X, t, "ran")  BY <1>2, DiesIs
  <1>5. /\ Sound(X) /\ TabsOK(X) /\ X.pages = S.pages /\ X.lost = S.lost
        /\ X.panes[t].page = p /\ \A u \in Panes \ {t} : X.panes[u] = S.panes[u]
    BY <1>2, <1>4 DEF Dies, Good, SameRest
  <1>6. t \in Leaves(X, p)  BY <1>5 DEF Leaves
  <1>7. /\ Sound(R) /\ TabsOK(R) /\ Calm(X, R)
        /\ R.panes[t] = NoPaneRecord \/ X.pages[p].pinned \/ p \in X.lost
    <2>1. next \in Successors(X, WindowOf(X, p), p) /\ R = RemoveTerminal(X, p, t, next)  OBVIOUS
    <2>2. QED  BY ONLY <1>3, <1>5, <1>6, <2>1, RemovalStays
  <1>8. ASSUME NEW u \in Panes, S.panes[u].death = "pending", R.panes[u].death = "ran"
        PROVE  u = t /\ (S.pages[p].pinned \/ p \in S.lost)
    <2>1. u = t
      <3>1. X.panes[u].death = "ran"  BY <1>7, <1>8 DEF Calm
      <3>2. QED  BY <1>5, <1>8, <3>1
    <2>2. NoPaneRecord.death = "alive"  BY DEF NoPaneRecord
    <2>3. X.pages[p].pinned \/ p \in X.lost  BY <1>7, <1>8, <2>1, <2>2
    <2>4. QED  BY <1>5, <2>1, <2>3
  <1>9. QED  BY <1>2, <1>7, <1>8 DEF Good, Exits


\* The title of a page is recomputed after a change of what it is made of.
LEMMA RetitledStep ==
  ASSUME NEW S, Good(S), NEW p \in Pages, NEW X, Touched(S, X, p),
         NEW R, R = UpdateTitle(X, p)
  PROVE  Step(S, R)
  <1>1. X \in Screens  BY DEF Touched
  <1>2. /\ R \in Screens /\ R.panes = X.panes /\ SameRest(X, R)
        /\ \A q \in Pages \ {p} : R.pages[q] = X.pages[q]
        /\ SameZoom(X, R, p) /\ R.pages[p].focused = X.pages[p].focused
        /\ R.pages[p].title = TitleFor(X, p)
    BY ONLY <1>1, TitleFacts, R = UpdateTitle(X, p), p \in Pages
  <1>3. Touched(S, R, p)  BY <1>2 DEF Touched, SameRest, SameZoom
  <1>4. TitleFor(R, p) = TitleFor(X, p)
    <2>1. R.pages[p].custom = X.pages[p].custom  BY <1>2, Zenon DEF SameZoom
    <2>2. QED  BY <1>2, <2>1 DEF TitleFor, SameZoom
  <1>5. TitleOK(R, p)  BY <1>2, <1>4 DEF TitleOK
  <1>6. QED  BY <1>3, <1>5, TouchedStep

\* A new title of a shell reaches its page if the pane has the focus.
LEMMA TitleChangedStep ==
  ASSUME NEW S, Good(S), NEW t \in Panes, NEW s \in Titles, NEW p, p = S.panes[t].page, p # NoPage,
         NEW X, X = [S EXCEPT !.panes[t].shell = s],
         NEW R, R = IF S.pages[p].focused = t THEN UpdateTitle(X, p) ELSE X
  PROVE  Step(S, R)
  <1>1. S \in Screens /\ PageOK(S, p)
    <2>1. S \in Screens  BY DEF Good, Sound
    <2>2. p \in Pages  BY <2>1, PaneType
    <2>3. QED  BY <2>1, <2>2 DEF Good, Sound
  <1>2. p \in Pages  BY <1>1, PaneType
  <1>3. PICK r0 \in PaneRecord : r0 = S.panes[t]  BY <1>1, PaneType
  <1>4. PICK r : r = [r0 EXCEPT !.shell = s]  OBVIOUS
  <1>5. r \in PaneRecord  BY <1>4, Zenon DEF PaneRecord
  <1>6. r.page = r0.page /\ r.path = r0.path /\ r.bridge = r0.bridge /\ r.death = r0.death
    BY <1>4 DEF PaneRecord
  <1>7. r.scrim = r0.scrim  BY <1>4, Zenon DEF PaneRecord
  <1>8. X = [S EXCEPT !.panes[t] = r]  BY <1>3, <1>4
  <1>9. X \in Screens  BY <1>1, <1>5, <1>8, OneExcept
  <1>10. X.pages = S.pages /\ SameRest(S, X) /\ X.panes = [S.panes EXCEPT ![t] = r]
    BY <1>1, <1>8 DEF Screens, SameRest
  <1>11. X.panes[t] = r /\ \A u \in Panes \ {t} : X.panes[u] = S.panes[u]
    BY <1>1, <1>10, ScreenType
  <1>12. Touched(S, X, p)
    <2>1. \A u \in Panes : /\ X.panes[u].page = S.panes[u].page /\ X.panes[u].path = S.panes[u].path
                           /\ X.panes[u].bridge = S.panes[u].bridge
                           /\ X.panes[u].death = S.panes[u].death
      BY <1>3, <1>6, <1>11
    <2>2. \A u \in Panes : X.panes[u].scrim = S.panes[u].scrim  BY <1>3, <1>7, <1>11, Zenon
    <2>3. \A u \in Panes : S.panes[u].page # p => X.panes[u].shell = S.panes[u].shell  BY <1>11
    <2>4. QED  BY ONLY <1>9, <1>10, <2>1, <2>2, <2>3, Zenon DEF Touched
  <1>13. CASE S.pages[p].focused = t
    <2>1. R = UpdateTitle(X, p) /\ Good(S)  BY <1>13
    <2>2. QED  BY ONLY <1>2, <1>12, <2>1, RetitledStep
  <1>14. CASE S.pages[p].focused # t
    <2>1. R = X  BY <1>14
    <2>2. TitleOK(X, p)
      <3>1. TitleOK(S, p)  BY <1>1 DEF PageOK
      <3>2. SUFFICES ASSUME S.pages[p].focused # NoPane PROVE TitleFor(X, p) = TitleFor(S, p)
        BY <1>10, <3>1 DEF TitleOK
      <3>3. S.pages[p].focused \in Panes \ {t}  BY <1>1, <1>2, <1>14, <3>2, PageType
      <3>4. X.panes[S.pages[p].focused] = S.panes[S.pages[p].focused]  BY <1>11, <3>3
      <3>5. QED  BY ONLY <1>10, <3>4 DEF TitleFor
    <2>3. Good(S)  OBVIOUS
    <2>4. QED  BY ONLY <1>2, <1>12, <2>1, <2>2, <2>3, TouchedStep
  <1>15. QED  BY <1>13, <1>14

\* A tab gets a name of its own, or loses it.
LEMMA CustomStep ==
  ASSUME NEW S, Good(S), NEW p \in Pages, NEW b \in BOOLEAN,
         NEW R, R = UpdateTitle([S EXCEPT !.pages[p].custom = b], p)
  PROVE  Step(S, R) /\ R.windows = S.windows
  <1>1. S \in Screens  BY DEF Good, Sound
  <1>2. PICK r0 \in PageRecord : r0 = S.pages[p]  BY <1>1, PageType
  <1>3. PICK r : r = [r0 EXCEPT !.custom = b]  OBVIOUS
  <1>4. r \in PageRecord  BY <1>3, Zenon DEF PageRecord
  <1>5. r.focused = r0.focused /\ r.zoomed = r0.zoomed /\ r.hidden = r0.hidden
    BY <1>3 DEF PageRecord
  <1>6. PICK X : X = [S EXCEPT !.pages[p].custom = b]  OBVIOUS
  <1>7. X = [S EXCEPT !.pages[p] = r]  BY <1>2, <1>3, <1>6
  <1>8. X \in Screens  BY <1>1, <1>4, <1>7, OneExcept
  <1>9. X.panes = S.panes /\ SameRest(S, X) /\ X.pages = [S.pages EXCEPT ![p] = r]
    BY <1>1, <1>7 DEF Screens, SameRest
  <1>10. X.pages[p] = r /\ \A q \in Pages \ {p} : X.pages[q] = S.pages[q]
    BY <1>1, <1>9, ScreenType
  <1>11. Touched(S, X, p)  BY <1>2, <1>5, <1>8, <1>9, <1>10 DEF Touched
  <1>12. R = UpdateTitle(X, p) /\ Good(S) /\ p \in Pages  BY <1>6
  <1>13. Step(S, R)  BY ONLY <1>11, <1>12, RetitledStep
  <1>14. SameRest(X, R)  BY ONLY <1>8, <1>12, TitleFacts
  <1>15. QED  BY ONLY <1>9, <1>13, <1>14 DEF SameRest

\* The setting that dims inactive panes reaches all pages.
LEMMA SetDimStep ==
  ASSUME NEW S, Good(S), NEW b \in BOOLEAN, NEW R, R = Dimmed([S EXCEPT !.dim = b], Pages)
  PROVE  Step(S, R)
  <1>1. Sound(S) /\ TabsOK(S) /\ S \in Screens  BY DEF Good, Sound
  <1>2. PICK X : X = [S EXCEPT !.dim = b]  OBVIOUS
  <1>3. X \in Screens  BY <1>1, <1>2, ScreenExcept
  <1>4. X.panes = S.panes /\ X.pages = S.pages /\ X.windows = S.windows /\ X.lost = S.lost
    BY <1>1, <1>2 DEF Screens
  <1>5. /\ R \in Screens /\ R.pages = X.pages /\ SameRest(X, R)
        /\ \A t \in Panes : SamePane(X, R, t)
        /\ \A t \in Panes : X.panes[t].page \in Pages =>
             (R.panes[t].scrim <=> /\ X.dim
                                   /\ Cardinality(Leaves(X, X.panes[t].page)) > 1
                                   /\ t # X.pages[X.panes[t].page].focused)
    <2>1. Pages \in SUBSET Pages /\ R = Dimmed(X, Pages)  BY <1>2
    <2>2. QED  BY ONLY <1>3, <2>1, DimFacts
  <1>6. R.windows = S.windows /\ R.lost = S.lost /\ R.pages = S.pages /\ R.dim = X.dim
        /\ \A t \in Panes : SamePane(S, R, t)
    <2>1. R.windows = S.windows /\ R.lost = S.lost /\ R.pages = S.pages  BY <1>4, <1>5 DEF SameRest
    <2>2. R.dim = X.dim  BY ONLY <1>5, Zenon DEF SameRest
    <2>3. \A t \in Panes : SamePane(S, R, t)  BY <1>4, <1>5 DEF SamePane
    <2>4. QED  BY ONLY <2>1, <2>2, <2>3
  <1>7. \A q : Leaves(R, q) = Leaves(S, q) /\ Leaves(X, q) = Leaves(S, q)
    BY <1>4, <1>6 DEF Leaves, SamePane
  <1>8. \A t \in Panes : BridgeOK(R, t)  BY <1>1, <1>6 DEF Sound, BridgeOK, SamePane
  <1>9. \A w \in Windows : DialogOK(R, w)  BY <1>1, <1>6 DEF Sound, DialogOK
  <1>10. ASSUME NEW q \in Pages PROVE PageOK(R, q)
    <2>1. PageOK(S, q)  BY <1>1 DEF Sound
    <2>2. TreeOK(R, q)
      <3>1. \A t \in Leaves(S, q) : Paths(R)[t] = Paths(S)[t]  BY <1>6 DEF Paths, Leaves, SamePane
      <3>2. FullTree(Leaves(S, q), Paths(R))  BY <2>1, <3>1, SameTree DEF TreeOK, PageOK
      <3>3. QED  BY <1>7, <3>2 DEF TreeOK
    <2>3. FocusOK(R, q)
      <3>1. \A t \in Leaves(S, q) : R.panes[t].path = S.panes[t].path  BY <1>6 DEF Leaves, SamePane
      <3>2. FocusOK(S, q)  BY <2>1 DEF PageOK
      <3>3. QED  BY <1>6, <1>7, <3>1, <3>2 DEF FocusOK
    <2>4. ZoomOK(R, q)
      <3>1. ASSUME S.pages[q].zoomed # NoPane
            PROVE  Around(R, S.pages[q].focused) = Around(S, S.pages[q].focused)
        <4>1. S.pages[q].zoomed = S.pages[q].focused
          BY <2>1, <3>1 DEF PageOK, ZoomOK, ZoomFits
        <4>2. S.pages[q].focused \in Panes  BY <1>1, <3>1, <4>1, PageType
        <4>3. QED  BY <1>6, <4>2 DEF Around, SamePane
      <3>2. QED  BY <1>6, <2>1, <3>1 DEF PageOK, ZoomOK, ZoomFits
    <2>5. DimOK(R, q)
      <3>1. ASSUME NEW t \in Leaves(S, q)
            PROVE  R.panes[t].scrim <=> X.dim /\ S.pages[q].focused \in Leaves(S, q) \ {t}
        <4>1. t \in Panes /\ S.panes[t].page = q  BY DEF Leaves
        <4>2. R.panes[t].scrim <=> /\ X.dim /\ Cardinality(Leaves(S, q)) > 1
                                   /\ t # S.pages[q].focused
          BY <1>4, <1>5, <1>7, <4>1
        <4>3. Cardinality(Leaves(S, q)) > 1 <=> \E u \in Leaves(S, q) : u # t  BY LeavesCount
        <4>4. S.panes[t].path = <<>> => Leaves(S, q) = {t}
          <5>1. FullTree(Leaves(S, q), Paths(S)) /\ Paths(S)[t] = S.panes[t].path
            BY <2>1, <4>1 DEF PageOK, TreeOK, Paths
          <5>2. QED  BY <5>1, RootIsAlone
        <4>5. \/ S.pages[q].focused \in Leaves(S, q)
              \/ S.pages[q].focused = NoPane /\ S.panes[t].path = <<>>
          BY <2>1 DEF PageOK, FocusOK
        <4>6. CASE S.pages[q].focused \in Leaves(S, q)  BY ONLY <4>2, <4>3, <4>6
        <4>7. CASE S.pages[q].focused \notin Leaves(S, q)
          <5>1. \A u \in Leaves(S, q) : u = t  BY <4>4, <4>5, <4>7
          <5>2. QED  BY ONLY <4>2, <4>3, <4>7, <5>1
        <4>8. QED  BY <4>6, <4>7
      <3>2. QED  BY <1>6, <1>7, <3>1 DEF DimOK
    <2>6. TitleOK(R, q)
      <3>1. TitleOK(S, q)  BY <2>1 DEF PageOK
      <3>2. SUFFICES ASSUME S.pages[q].focused # NoPane PROVE TitleFor(R, q) = TitleFor(S, q)
        BY <1>6, <3>1 DEF TitleOK
      <3>3. S.pages[q].focused \in Panes  BY <1>1, <3>2, PageType
      <3>4. R.panes[S.pages[q].focused].shell = S.panes[S.pages[q].focused].shell
        BY <1>6, <3>3 DEF SamePane
      <3>5. QED  BY ONLY <1>6, <3>4 DEF TitleFor
    <2>7. QED  BY <2>2, <2>3, <2>4, <2>5, <2>6 DEF PageOK
  <1>11. Sound(R)  BY <1>5, <1>8, <1>9, <1>10 DEF Sound
  <1>12. TabsOK(R) /\ Calm(S, R)
    <2>1. \A u \in Panes : R.panes[u].page = S.panes[u].page /\ R.panes[u].death = S.panes[u].death
      BY <1>6 DEF SamePane
    <2>2. QED  BY ONLY <1>1, <1>6, <2>1, SamePanesStay
  <1>13. QED  BY <1>11, <1>12 DEF Step, Good


\* The current terminal gets the focus back, if there is one.
Regains(S, q) == IF q = NoPage THEN S ELSE FocusTerminal(S, q)

\* Giving it the focus leaves the screen good.
LEMMA RegainsStep ==
  ASSUME NEW S, Good(S), NEW q \in Pages \union {NoPage}, NEW R, R = Regains(S, q)
  PROVE  Step(S, R)
  <1>1. CASE q = NoPage  BY <1>1 DEF Regains, Step, Calm
  <1>2. CASE q # NoPage
    <2>1. q \in Pages /\ R = FocusTerminal(S, q) /\ Good(S)  BY <1>2 DEF Regains
    <2>2. QED  BY ONLY <2>1, FocusTerminalStep
  <1>3. QED  BY <1>1, <1>2

\* What the answer to a dialog changes before the focus comes back.
Answers(S, X, d, Y) ==
  \/ Y = X
  \/ /\ d.kind = "kill" /\ S.panes[d.pane].bridge # NoPage
     /\ Y = [X EXCEPT !.panes[d.pane].death = "pending"]
  \/ /\ d.kind = "title"
     /\ \E b \in BOOLEAN : Y = UpdateTitle([X EXCEPT !.pages[d.page].custom = b], d.page)

\* Every answer to every dialog leaves the screen good.
LEMMA AnswerStep ==
  ASSUME NEW S, Good(S), NEW w \in Windows, NEW d, d = S.windows[w].dialog,
         NEW X, X = [S EXCEPT !.windows[w].dialog = NoDialog],
         NEW q, q = S.windows[w].selected, NEW R,
         \/ R = Destroyed(X, w)
         \/ \E Y : Answers(S, X, d, Y) /\ R = Regains(Y, q)
  PROVE  Step(S, R)
  <1>1. S \in Screens /\ DialogOK(S, w)  BY DEF Good, Sound
  <1>2. q \in Pages \union {NoPage} /\ d.page \in Pages \union {NoPage}
        /\ d.pane \in Panes \union {NoPane} /\ Names(d)
    BY <1>1, WindowType DEF DialogOK
  <1>3. NoDialog \in Dialog /\ Names(NoDialog)  BY DEF NoDialog, Dialog, Names
  <1>4. Step(S, X) /\ X.panes = S.panes
    <2>1. PICK e \in Dialog : e = NoDialog  BY <1>3
    <2>2. X = [S EXCEPT !.windows[w].dialog = e] /\ Names(e) /\ e \in Dialog /\ Good(S)
      BY <1>3, <2>1
    <2>3. QED  BY ONLY <2>2, DialogStep
  <1>5. Good(X)  BY <1>4 DEF Step
  <1>6. CASE R = Destroyed(X, w)
    <2>1. Step(X, R)  BY ONLY <1>5, <1>6, DestroyedStep
    <2>2. QED  BY ONLY <1>4, <2>1, StepsCompose
  <1>7. ASSUME NEW Y, Answers(S, X, d, Y), R = Regains(Y, q) PROVE Step(S, R)
    <2>1. Step(X, Y)
      <3>1. CASE Y = X  BY <1>5, <3>1 DEF Step, Calm
      <3>2. CASE /\ d.kind = "kill" /\ S.panes[d.pane].bridge # NoPage
                 /\ Y = [X EXCEPT !.panes[d.pane].death = "pending"]
        <4>1. PICK t : t = d.pane  OBVIOUS
        <4>2. t \in Panes /\ X.panes[t].bridge # NoPage  BY <1>2, <1>4, <3>2, <4>1 DEF Names
        <4>3. Y = [X EXCEPT !.panes[t].death = "pending"]  BY <3>2, <4>1
        <4>4. QED  BY ONLY <1>5, <4>2, <4>3, PendingStep
      <3>3. CASE /\ d.kind = "title"
                 /\ \E b \in BOOLEAN : Y = UpdateTitle([X EXCEPT !.pages[d.page].custom = b], d.page)
        <4>1. PICK p : p = d.page  OBVIOUS
        <4>2. p \in Pages  BY <1>2, <3>3, <4>1 DEF Names
        <4>3. PICK b \in BOOLEAN : Y = UpdateTitle([X EXCEPT !.pages[p].custom = b], p)
          BY <3>3, <4>1
        <4>4. b \in BOOLEAN  BY <4>3
        <4>5. QED  BY ONLY <1>5, <4>2, <4>3, <4>4, CustomStep
      <3>4. QED  BY <1>7, <3>1, <3>2, <3>3 DEF Answers
    <2>2. Good(Y)  BY <2>1 DEF Step
    <2>3. Step(Y, R)  BY ONLY <1>2, <1>7, <2>2, RegainsStep
    <2>4. QED  BY ONLY <1>4, <2>1, <2>3, StepsCompose
  <1>8. QED  BY <1>6, <1>7

-----------------------------------------------------------------------------
(* The actions of the specification *)

\* The screen becomes a good one, and no shell is newly seen to have exited.
Moves == \E R : Becomes(R) /\ Step(Screen, R)

\* The parts of the screen.
LEMMA ScreenIs ==
  /\ Screen.panes = panes /\ Screen.pages = pages /\ Screen.windows = windows
  /\ Screen.dim = dimInactive /\ Screen.lost = stranded
  BY DEF Screen

\* What the screen becomes.
LEMMA BecomesIs ==
  ASSUME NEW R \in Screens, Becomes(R)
  PROVE  Screen' = R
  BY DEF Becomes, Screen, Screens

\* A move keeps the invariant, and finds no new exit of a shell.
LEMMA MovesIsGood ==
  ASSUME Moves
  PROVE  Inv' /\ ExitsCloseTheirPane
  <1>1. PICK R : Becomes(R) /\ Step(Screen, R)  BY DEF Moves
  <1>2. Good(R) /\ R \in Screens /\ Calm(Screen, R)  BY <1>1 DEF Step, Good, Sound
  <1>3. Screen' = R  BY <1>1, <1>2, BecomesIs
  <1>4. Inv'
    <2>1. Good(Screen')  BY <1>2, <1>3
    <2>2. QED  BY <2>1 DEF Inv, Good
  <1>5. panes' = R.panes /\ Screen.panes = panes  BY <1>1, ScreenIs DEF Becomes
  <1>6. ASSUME NEW t \in Panes, panes[t].death = "pending", panes'[t].death = "ran" PROVE FALSE
    <2>1. R.panes[t].death = "ran"  BY <1>5, <1>6
    <2>2. Screen.panes[t].death = "ran"  BY <1>2, <2>1 DEF Calm
    <2>3. QED  BY <1>5, <1>6, <2>2
  <1>7. QED  BY <1>4, <1>6 DEF ExitsCloseTheirPane

\* Split is a move.
LEMMA SplitMoves ==
  ASSUME Inv, NEW w \in Windows, Split(w)
  PROVE  Moves
  <1>1. PICK S : S = Screen  OBVIOUS
  <1>2. Good(S) /\ S.windows = windows /\ S.pages = pages  BY <1>1, ScreenIs DEF Inv, Good
  <1>3. PICK p : p = Current(w)  OBVIOUS
  <1>4. p \in Pages /\ S.pages[p].focused # NoPane
    BY <1>2, <1>3, CurrentIs DEF Split, Open, Current
  <1>5. PICK t \in FreePanes(S), ok \in BOOLEAN : Becomes(SplitPage(S, p, t, ok))
    BY <1>1, <1>3 DEF Split
  <1>6. PICK R : R = SplitPage(S, p, t, ok)  OBVIOUS
  <1>7. t \in FreePanes(S) /\ ok \in BOOLEAN  BY <1>5
  <1>8. Step(S, R)  BY ONLY <1>2, <1>4, <1>6, <1>7, SplitStep
  <1>9. QED  BY <1>1, <1>5, <1>6, <1>8 DEF Moves


\* ClosePane is a move.
LEMMA ClosePaneMoves ==
  ASSUME Inv, NEW w \in Windows, ClosePane(w)
  PROVE  Moves
  <1>1. PICK S : S = Screen  OBVIOUS
  <1>2. Good(S) /\ S.windows = windows /\ S.pages = pages  BY <1>1, ScreenIs DEF Inv, Good
  <1>3. PICK p : p = Current(w)  OBVIOUS
  <1>4. p \in Pages /\ S.pages[p].focused # NoPane /\ InWindow(S, w, p)
    BY <1>2, <1>3, CurrentIs DEF ClosePane, Open, Current
  <1>5. PICK next \in Successors(S, w, p) : Becomes(RemoveTerminal(S, p, S.pages[p].focused, next))
    BY <1>1, <1>2, <1>3 DEF ClosePane
  <1>6. PICK R : R = RemoveTerminal(S, p, S.pages[p].focused, next)  OBVIOUS
  <1>7. next \in Successors(S, w, p)  BY <1>5
  <1>8. Step(S, R)  BY ONLY <1>2, <1>4, <1>6, <1>7, ClosePaneStep
  <1>9. QED  BY <1>1, <1>5, <1>6, <1>8 DEF Moves

\* ToggleZoom is a move, whether it zooms or unzooms.
LEMMA ToggleZoomMoves ==
  ASSUME Inv, NEW w \in Windows, ToggleZoom(w)
  PROVE  Moves
  <1>1. PICK S : S = Screen  OBVIOUS
  <1>2. Good(S) /\ S.windows = windows /\ S.pages = pages  BY <1>1, ScreenIs DEF Inv, Good
  <1>3. PICK p : p = Current(w)  OBVIOUS
  <1>4. p \in Pages  BY <1>2, <1>3, CurrentIs DEF ToggleZoom, Open, Current
  <1>5. PICK R : /\ Becomes(R)
                 /\ \/ R = Unzoom(S, p)
                    \/ /\ S.pages[p].focused # NoPane /\ S.pages[p].zoomed = NoPane
                       /\ R = ApplyZoom(S, p, S.pages[p].focused)
    BY <1>1, <1>2, <1>3 DEF ToggleZoom
  <1>6. Step(S, R)  BY ONLY <1>2, <1>4, <1>5, ZoomStep
  <1>7. QED  BY <1>1, <1>5, <1>6 DEF Moves

\* FocusDirection is a move: it unzooms, then focuses a neighbour.
LEMMA FocusDirectionMoves ==
  ASSUME Inv, NEW w \in Windows, FocusDirection(w)
  PROVE  Moves
  <1>1. PICK S : S = Screen  OBVIOUS
  <1>2. Good(S) /\ S.windows = windows /\ S.pages = pages  BY <1>1, ScreenIs DEF Inv, Good
  <1>3. PICK p : p = Current(w)  OBVIOUS
  <1>4. p \in Pages  BY <1>2, <1>3, CurrentIs DEF FocusDirection, Open, Current
  <1>5. PICK X : X = Unzoom(S, p)  OBVIOUS
  <1>6. Step(S, X)  BY ONLY <1>2, <1>4, <1>5, ZoomStep
  <1>7. X.pages[p].zoomed = NoPane /\ Good(X)
    <2>1. Sound(S) /\ Good(X)  BY <1>2, <1>6 DEF Good, Step
    <2>2. X.pages[p].zoomed = NoPane  BY ONLY <1>4, <1>5, <2>1, UnzoomSound
    <2>3. QED  BY <2>1, <2>2
  <1>8. CASE Becomes(X)  BY <1>1, <1>6, <1>8 DEF Moves
  <1>9. ASSUME NEW t \in Leaves(X, p), Becomes(SetFocused(X, p, t)) PROVE Moves
    <2>1. PICK R : R = SetFocused(X, p, t)  OBVIOUS
    <2>2. t \in Leaves(X, p)  OBVIOUS
    <2>3. Step(X, R)  BY ONLY <1>4, <1>7, <2>1, <2>2, FocusStep
    <2>4. Step(S, R)  BY ONLY <1>6, <2>3, StepsCompose
    <2>5. QED  BY <1>1, <1>9, <2>1, <2>4 DEF Moves
  <1>10. Becomes(X) \/ \E t \in Leaves(X, p) : Becomes(SetFocused(X, p, t))
    BY <1>1, <1>3, <1>5 DEF FocusDirection
  <1>11. QED  BY <1>8, <1>9, <1>10

\* NewTab is a move.
LEMMA NewTabMoves ==
  ASSUME Inv, NEW w \in Windows, NewTab(w)
  PROVE  Moves
  <1>1. PICK S : S = Screen  OBVIOUS
  <1>2. Good(S) /\ S.windows = windows /\ S.windows[w].open
    BY <1>1, ScreenIs, Zenon DEF Inv, Good, NewTab, Open
  <1>3. PICK p \in FreePages(S), t \in FreePanes(S), ok \in BOOLEAN :
          Becomes(Append1(NewPage(S, p, t, ok), w, p))
    BY <1>1 DEF NewTab
  <1>4. PICK R : R = Append1(NewPage(S, p, t, ok), w, p)  OBVIOUS
  <1>5. p \in FreePages(S) /\ t \in FreePanes(S) /\ ok \in BOOLEAN  BY <1>3
  <1>6. Step(S, R)  BY ONLY <1>2, <1>4, <1>5, NewTabStep
  <1>7. QED  BY <1>1, <1>3, <1>4, <1>6 DEF Moves

\* NewWindow is a move.
LEMMA NewWindowMoves ==
  ASSUME Inv, NewWindow
  PROVE  Moves
  <1>1. PICK S : S = Screen  OBVIOUS
  <1>2. Good(S)  BY <1>1 DEF Inv, Good
  <1>3. PICK w \in FreeWindows(S), p \in FreePages(S), t \in FreePanes(S), ok \in BOOLEAN :
          Becomes(Append1(NewPage(OpenWindow(S, w), p, t, ok), w, p))
    BY <1>1 DEF NewWindow
  <1>4. PICK R : R = Append1(NewPage(OpenWindow(S, w), p, t, ok), w, p)  OBVIOUS
  <1>5. w \in FreeWindows(S) /\ p \in FreePages(S) /\ t \in FreePanes(S) /\ ok \in BOOLEAN  BY <1>3
  <1>6. Step(S, R)  BY ONLY <1>2, <1>4, <1>5, NewWindowStep
  <1>7. QED  BY <1>1, <1>3, <1>4, <1>6 DEF Moves

\* OpenInNewTab is a move.
LEMMA OpenInNewTabMoves ==
  ASSUME Inv, NEW w \in Windows, OpenInNewTab(w)
  PROVE  Moves
  <1>1. PICK S : S = Screen  OBVIOUS
  <1>2. Good(S) /\ S.windows = windows /\ S.pages = pages  BY <1>1, ScreenIs DEF Inv, Good
  <1>3. PICK p : p = Current(w)  OBVIOUS
  <1>4. p \in Pages /\ InWindow(S, w, p) /\ S.pages[p].focused # NoPane
        /\ Cardinality(Leaves(S, p)) > 1
    <2>1. p \in Pages /\ InWindow(S, w, p)
      BY <1>2, <1>3, CurrentIs DEF OpenInNewTab, Open, Current
    <2>2. QED  BY <1>1, <1>2, <1>3, <2>1 DEF OpenInNewTab
  <1>5. PICK q \in FreePages(S) : \E X, R :
          /\ X = AdoptLeaf(TakeFocusedLeaf(S, p), q, S.pages[p].focused) /\ Becomes(R)
          /\ R = [X EXCEPT !.lost = @ \union {q}] \/ R = AttachAt(X, w, q, Position(S, w, p))
    BY <1>1, <1>2, <1>3 DEF OpenInNewTab
  <1>6. PICK X, R :
          /\ X = AdoptLeaf(TakeFocusedLeaf(S, p), q, S.pages[p].focused) /\ Becomes(R)
          /\ R = [X EXCEPT !.lost = @ \union {q}] \/ R = AttachAt(X, w, q, Position(S, w, p))
    BY <1>5
  <1>7. q \in FreePages(S)  BY <1>5
  <1>8. Step(S, R)  BY ONLY <1>2, <1>4, <1>6, <1>7, OpenInNewTabStep
  <1>9. QED  BY <1>1, <1>6, <1>8 DEF Moves

\* A page that a window shows.
LEMMA ShownPage ==
  ASSUME NEW S, Good(S), NEW w \in Windows, NEW p, InWindow(S, w, p)
  PROVE  p \in Pages
  <1>1. S \in Screens  BY DEF Good, Sound
  <1>2. QED  BY <1>1, WithoutIs

\* Moving the current tab to a new window is a move.
LEMMA MoveToNewWindowMoves ==
  ASSUME Inv, NEW p, MoveToNewWindow(p)
  PROVE  Moves
  <1>1. PICK S : S = Screen  OBVIOUS
  <1>2. Good(S) /\ S.windows = windows  BY <1>1, ScreenIs DEF Inv, Good
  <1>3. PICK w : w = WindowOf(S, p)  OBVIOUS
  <1>4. w \in Windows /\ InWindow(S, w, p)  BY <1>1, <1>3, WindowOfIs DEF MoveToNewWindow
  <1>5. p \in Pages  BY <1>2, <1>4, ShownPage
  <1>6. Len(S.windows[w].tabs) > 1  BY <1>1, <1>2, <1>3 DEF MoveToNewWindow
  <1>7. PICK v \in FreeWindows(S), next \in Successors(S, w, p) :
          Becomes(FocusTerminal(AttachAt(
            SelectionMoves(RemoveTab(OpenWindow(S, v), w, p), w, p, next), v, p, 0), p))
    BY <1>1, <1>3 DEF MoveToNewWindow
  <1>8. PICK R : R = FocusTerminal(AttachAt(
                   SelectionMoves(RemoveTab(OpenWindow(S, v), w, p), w, p, next), v, p, 0), p)
    OBVIOUS
  <1>9. v \in FreeWindows(S) /\ next \in Successors(S, w, p)  BY <1>7
  <1>10. Step(S, R)  BY ONLY <1>2, <1>4, <1>5, <1>6, <1>8, <1>9, MoveStep
  <1>11. QED  BY <1>1, <1>7, <1>8, <1>10 DEF Moves

\* SelectPage is a move.
LEMMA SelectPageMoves ==
  ASSUME Inv, NEW w \in Windows, NEW p \in Pages, SelectPage(w, p)
  PROVE  Moves
  <1>1. PICK S : S = Screen  OBVIOUS
  <1>2. Good(S)  BY <1>1 DEF Inv, Good
  <1>3. PICK R : R = Select(S, w, p)  OBVIOUS
  <1>4. InWindow(S, w, p) /\ Becomes(R)  BY <1>1, <1>3 DEF SelectPage
  <1>5. p \in Pages  OBVIOUS
  <1>6. Step(S, R)  BY ONLY <1>2, <1>3, <1>4, <1>5, SelectStep
  <1>7. QED  BY <1>1, <1>4, <1>6 DEF Moves

\* Closing a tab is a move.
LEMMA CloseTabMoves ==
  ASSUME Inv, NEW w \in Windows, NEW p, CloseTab(w, p)
  PROVE  Moves
  <1>1. PICK S : S = Screen  OBVIOUS
  <1>2. Good(S)  BY <1>1 DEF Inv, Good
  <1>3. PICK next \in Successors(S, w, p) : Becomes(ClosePage(S, w, p, next))
    BY <1>1 DEF CloseTab
  <1>4. PICK R : R = ClosePage(S, w, p, next)  OBVIOUS
  <1>5. InWindow(S, w, p) /\ next \in Successors(S, w, p)  BY <1>1, <1>3 DEF CloseTab
  <1>6. p \in Pages  BY <1>2, <1>5, ShownPage
  <1>7. Step(S, R)  BY ONLY <1>2, <1>4, <1>5, <1>6, CloseTabStep
  <1>8. QED  BY <1>1, <1>3, <1>4, <1>7 DEF Moves


\* A step that takes the screen to R, for actions that say so at once.
LEMMA MovesTo ==
  ASSUME NEW S, S = Screen, NEW R, Becomes(R), Step(S, R)
  PROVE  Moves
  BY DEF Moves

\* The steps of the tab menu are moves.
LEMMA MenuMoves ==
  ASSUME Inv, NEW w \in Windows,
         MenuClosed(w) \/ ClearMenuPage(w) \/ \E p \in Pages : SetupMenu(w, p)
  PROVE  Moves
  <1>1. PICK S : S = Screen  OBVIOUS
  <1>2. Good(S) /\ S.windows = windows /\ w \in Windows  BY <1>1, ScreenIs DEF Inv, Good
  <1>3. CASE MenuClosed(w)
    <2>1. PICK R : R = [S EXCEPT !.windows[w].menuOpen = NoPage, !.windows[w].menuIdle = TRUE]
      OBVIOUS
    <2>2. Becomes(R)  BY <1>1, <1>3, <2>1 DEF MenuClosed
    <2>3. Step(S, R)  BY ONLY <1>2, <2>1, MenuGoneStep
    <2>4. QED  BY ONLY <1>1, <2>2, <2>3, MovesTo
  <1>4. CASE ClearMenuPage(w)
    <2>1. PICK R : R = [S EXCEPT !.windows[w].menuPage = NoPage, !.windows[w].menuIdle = FALSE]
      OBVIOUS
    <2>2. Becomes(R)  BY <1>1, <1>4, <2>1 DEF ClearMenuPage
    <2>3. S.windows[w].menuIdle  BY <1>2, <1>4, Zenon DEF ClearMenuPage
    <2>4. Step(S, R)  BY ONLY <1>2, <2>1, <2>3, MenuGoneStep
    <2>5. QED  BY ONLY <1>1, <2>2, <2>4, MovesTo
  <1>5. ASSUME NEW p \in Pages, SetupMenu(w, p) PROVE Moves
    <2>1. PICK R : R = [S EXCEPT !.windows[w] = Captured(@, p)]  OBVIOUS
    <2>2. Becomes(R)  BY <1>1, <1>5, <2>1 DEF SetupMenu
    <2>3. S.windows[w].open /\ p \in Pages  BY <1>2, <1>5, Zenon DEF SetupMenu, Open
    <2>4. Step(S, R)  BY ONLY <1>2, <2>1, <2>3, SetupMenuStep
    <2>5. QED  BY ONLY <1>1, <2>2, <2>4, MovesTo
  <1>6. QED  BY <1>3, <1>4, <1>5

\* Moving the menu's tab left or right is a move.
LEMMA TabMoveMoves ==
  ASSUME Inv, NEW w \in Windows, TabMove(w)
  PROVE  Moves
  <1>1. PICK S : S = Screen  OBVIOUS
  <1>2. Good(S) /\ S.windows = windows /\ w \in Windows  BY <1>1, ScreenIs DEF Inv, Good
  <1>3. PICK p : p = MenuTarget(w)  OBVIOUS
  <1>4. PICK i : i = Position(S, w, p)  OBVIOUS
  <1>5. PICK tabs : tabs = S.windows[w].tabs  OBVIOUS
  <1>6. InWindow(S, w, p)  BY <1>1, <1>3 DEF TabMove
  <1>7. PICK j \in DOMAIN S.windows[w].tabs :
          Becomes([S EXCEPT !.windows[w].tabs = [tabs EXCEPT ![i] = tabs[j], ![j] = p]])
    BY <1>1, <1>2, <1>3, <1>4, <1>5 DEF TabMove
  <1>8. PICK R : R = [S EXCEPT !.windows[w].tabs = [tabs EXCEPT ![i] = tabs[j], ![j] = p]]
    OBVIOUS
  <1>9. j \in DOMAIN S.windows[w].tabs /\ Becomes(R)  BY <1>7, <1>8
  <1>10. Step(S, R)  BY ONLY <1>2, <1>4, <1>5, <1>6, <1>8, <1>9, TabMoveStep
  <1>11. QED  BY ONLY <1>1, <1>9, <1>10, MovesTo

\* TabPin is a move.
LEMMA TabPinMoves ==
  ASSUME Inv, NEW w \in Windows, TabPin(w)
  PROVE  Moves
  <1>1. PICK S : S = Screen  OBVIOUS
  <1>2. Good(S) /\ S.pages = pages /\ w \in Windows  BY <1>1, ScreenIs DEF Inv, Good
  <1>3. PICK p : p = MenuTarget(w)  OBVIOUS
  <1>4. PICK K : K = {q \in Pages \ {p} : InWindow(S, w, q) /\ S.pages[q].pinned}  OBVIOUS
  <1>5. PICK k : k = Cardinality(K)  OBVIOUS
  <1>6. PICK R : R = [S EXCEPT !.pages[p].pinned = ~@,
                               !.windows[w].tabs = InsertAt(Without(S, w, p), k + 1, p)]
    OBVIOUS
  <1>7. K = {q \in Pages \ {p} : InWindow(Screen, w, q) /\ pages[q].pinned}
    BY ONLY <1>1, <1>2, <1>4, Zenon
  <1>8. InWindow(S, w, p) /\ Becomes(R)  BY <1>1, <1>3, <1>5, <1>6, <1>7 DEF TabPin
  <1>9. Step(S, R)  BY ONLY <1>2, <1>4, <1>5, <1>6, <1>8, TabPinStep
  <1>10. QED  BY ONLY <1>1, <1>8, <1>9, MovesTo

\* TabCloseOthers is a move.
LEMMA TabCloseOthersMoves ==
  ASSUME Inv, NEW w \in Windows, TabCloseOthers(w)
  PROVE  Moves
  <1>1. PICK S : S = Screen  OBVIOUS
  <1>2. Good(S) /\ S.pages = pages /\ S.windows = windows /\ w \in Windows
    BY <1>1, ScreenIs DEF Inv, Good
  <1>3. PICK p : p = MenuTarget(w)  OBVIOUS
  <1>4. PICK gone : gone = {q \in Pages \ {p} : InWindow(S, w, q) /\ ~S.pages[q].pinned}  OBVIOUS
  <1>5. PICK left : left = {q \in Pages \ gone : InWindow(S, w, q)}  OBVIOUS
  <1>6. PICK Y : Y = IF S.windows[w].selected \in gone THEN Select(S, w, p) ELSE S  OBVIOUS
  <1>7. gone = {q \in Pages \ {p} : InWindow(Screen, w, q) /\ ~pages[q].pinned}
    BY ONLY <1>1, <1>2, <1>4, Zenon
  <1>8. Current(w) = S.windows[w].selected  BY <1>2 DEF Current
  <1>9. /\ InWindow(S, w, p)
        /\ \E tabs \in InOrder(S, w, left) :
             Becomes(DestroyAll([Y EXCEPT !.windows[w].tabs = tabs], gone))
    BY <1>1, <1>3, <1>5, <1>6, <1>7, <1>8 DEF TabCloseOthers
  <1>10. PICK tabs \in InOrder(S, w, left) :
           Becomes(DestroyAll([Y EXCEPT !.windows[w].tabs = tabs], gone))
    BY <1>9
  <1>11. PICK R : R = DestroyAll([Y EXCEPT !.windows[w].tabs = tabs], gone)  OBVIOUS
  <1>12. tabs \in InOrder(S, w, left) /\ Becomes(R)  BY <1>10, <1>11
  <1>13. Step(S, R)
    BY ONLY <1>2, <1>4, <1>5, <1>6, <1>9, <1>11, <1>12, CloseOthersStep
  <1>14. QED  BY ONLY <1>1, <1>12, <1>13, MovesTo

\* A dialog that is about something comes up.
LEMMA AskMoves ==
  ASSUME Inv, NEW w \in Windows, NEW kind \in {"title", "kill", "close"},
         NEW p \in Pages \union {NoPage}, NEW t \in Panes \union {NoPane},
         kind = "title" => p # NoPage, kind = "kill" => t # NoPane, Ask(w, kind, p, t)
  PROVE  Moves
  <1>1. PICK S : S = Screen  OBVIOUS
  <1>2. Good(S) /\ w \in Windows  BY <1>1 DEF Inv, Good
  <1>3. PICK d : d = [kind |-> kind, page |-> p, pane |-> t]  OBVIOUS
  <1>4. d \in Dialog /\ Names(d)  BY <1>3 DEF Dialog, Names
  <1>5. PICK R : R = [S EXCEPT !.windows[w].dialog = d]  OBVIOUS
  <1>6. Becomes(R)  BY <1>1, <1>3, <1>5 DEF Ask
  <1>7. Step(S, R)  BY ONLY <1>2, <1>4, <1>5, DialogStep
  <1>8. QED  BY ONLY <1>1, <1>6, <1>7, MovesTo

\* Asking for a title, or whether to kill or to close, is a move.
LEMMA DialogMoves ==
  ASSUME Inv, NEW w \in Windows, PresentSetTitle(w) \/ KillPane(w) \/ CloseRequest(w)
  PROVE  Moves
  <1>1. PICK S : S = Screen  OBVIOUS
  <1>2. Good(S) /\ S \in Screens /\ S.windows = windows /\ S.pages = pages
    BY <1>1, ScreenIs DEF Inv, Good, Sound
  <1>3. CASE PresentSetTitle(w)
    <2>1. PICK p \in {Current(w), MenuTarget(w)} \ {NoPage} : Ask(w, "title", p, NoPane)
      BY <1>3 DEF PresentSetTitle
    <2>2. p \in Pages  BY <1>2, <2>1, WindowType DEF Current, MenuTarget
    <2>3. QED  BY <2>1, <2>2, AskMoves
  <1>4. CASE KillPane(w)
    <2>1. PICK t : t = pages[Current(w)].focused /\ t # NoPane /\ Ask(w, "kill", NoPage, t)
      BY <1>4 DEF KillPane
    <2>2. Current(w) \in Pages  BY <1>2, <1>4, WindowType DEF KillPane, Current
    <2>3. t \in Panes  BY <1>2, <2>1, <2>2, PageType
    <2>4. QED  BY <2>1, <2>3, AskMoves
  <1>5. CASE CloseRequest(w)
    <2>1. CASE Ask(w, "close", NoPage, NoPane)  BY <2>1, AskMoves
    <2>2. CASE Becomes(Destroyed(Screen, w))
      <3>1. PICK R : R = Destroyed(S, w)  OBVIOUS
      <3>2. Becomes(R) /\ w \in Windows  BY <1>1, <2>2, <3>1
      <3>3. Step(S, R)  BY ONLY <1>2, <3>1, <3>2, DestroyedStep
      <3>4. QED  BY ONLY <1>1, <3>2, <3>3, MovesTo
    <2>3. QED  BY <1>5, <2>1, <2>2 DEF CloseRequest
  <1>6. QED  BY <1>3, <1>4, <1>5


\* The answer to a dialog is a move.
LEMMA AnswerMoves ==
  ASSUME Inv, NEW w \in Windows, Answer(w)
  PROVE  Moves
  <1>1. PICK S : S = Screen  OBVIOUS
  <1>2. Good(S) /\ S \in Screens /\ S.windows = windows /\ w \in Windows
    BY <1>1, ScreenIs DEF Inv, Good, Sound
  <1>3. PICK d : d = S.windows[w].dialog  OBVIOUS
  <1>4. PICK X : X = [S EXCEPT !.windows[w].dialog = NoDialog]  OBVIOUS
  <1>5. PICK q : q = S.windows[w].selected  OBVIOUS
  <1>6. d = windows[w].dialog /\ X = [Screen EXCEPT !.windows[w].dialog = NoDialog] /\ q = Current(w)
    BY <1>1, <1>2, <1>3, <1>4, <1>5 DEF Current
  <1>7. X.panes = S.panes  BY ONLY <1>2, <1>4 DEF Screens
  <1>8. \/ Becomes(Regains(X, q))
        \/ Becomes(Destroyed(X, w))
        \/ /\ d.kind = "kill"
           /\ Becomes(Regains(IF X.panes[d.pane].death = "alive" /\ X.panes[d.pane].bridge # NoPage
                              THEN [X EXCEPT !.panes[d.pane].death = "pending"] ELSE X, q))
        \/ /\ d.kind = "title"
           /\ \E b \in BOOLEAN :
                Becomes(Regains(IF Leaves(X, d.page) = {} THEN X
                                ELSE IF X.pages[d.page].custom = b THEN X
                                ELSE UpdateTitle([X EXCEPT !.pages[d.page].custom = b], d.page), q))
    BY ONLY <1>6, Answer(w) DEF Answer, Regains
  <1>9. PICK R : /\ Becomes(R)
                 /\ \/ R = Destroyed(X, w)
                    \/ \E Y : Answers(S, X, d, Y) /\ R = Regains(Y, q)
    <2>1. Answers(S, X, d, X)  BY DEF Answers
    <2>2. CASE Becomes(Regains(X, q))  BY ONLY <2>1, <2>2
    <2>3. CASE Becomes(Destroyed(X, w))  BY ONLY <2>3
    <2>4. CASE /\ d.kind = "kill"
               /\ Becomes(Regains(IF X.panes[d.pane].death = "alive" /\ X.panes[d.pane].bridge # NoPage
                                  THEN [X EXCEPT !.panes[d.pane].death = "pending"] ELSE X, q))
      <3>1. CASE X.panes[d.pane].death = "alive" /\ X.panes[d.pane].bridge # NoPage
        <4>1. PICK Y : Y = [X EXCEPT !.panes[d.pane].death = "pending"]  OBVIOUS
        <4>2. Becomes(Regains(Y, q))  BY ONLY <2>4, <3>1, <4>1
        <4>3. Answers(S, X, d, Y)  BY ONLY <1>7, <2>4, <3>1, <4>1 DEF Answers
        <4>4. QED  BY ONLY <4>2, <4>3
      <3>2. CASE ~(X.panes[d.pane].death = "alive" /\ X.panes[d.pane].bridge # NoPage)
        <4>1. Becomes(Regains(X, q))  BY ONLY <2>4, <3>2
        <4>2. QED  BY ONLY <2>1, <4>1
      <3>3. QED  BY <3>1, <3>2
    <2>5. CASE /\ d.kind = "title"
               /\ \E b \in BOOLEAN :
                    Becomes(Regains(IF Leaves(X, d.page) = {} THEN X
                                    ELSE IF X.pages[d.page].custom = b THEN X
                                    ELSE UpdateTitle([X EXCEPT !.pages[d.page].custom = b], d.page), q))
      <3>1. PICK b \in BOOLEAN :
              Becomes(Regains(IF Leaves(X, d.page) = {} THEN X
                              ELSE IF X.pages[d.page].custom = b THEN X
                              ELSE UpdateTitle([X EXCEPT !.pages[d.page].custom = b], d.page), q))
        BY <2>5
      <3>2. PICK Z : Z = UpdateTitle([X EXCEPT !.pages[d.page].custom = b], d.page)  OBVIOUS
      <3>3. Answers(S, X, d, Z)
        <4>1. b \in BOOLEAN  BY <3>1
        <4>2. QED  BY ONLY <2>5, <3>2, <4>1 DEF Answers
      <3>4. Becomes(Regains(X, q)) \/ Becomes(Regains(Z, q))  BY ONLY <3>1, <3>2
      <3>5. QED  BY ONLY <2>1, <3>3, <3>4
    <2>6. QED  BY <1>8, <2>2, <2>3, <2>4, <2>5
  <1>10. Step(S, R)  BY ONLY <1>2, <1>3, <1>4, <1>5, <1>9, AnswerStep
  <1>11. QED  BY ONLY <1>1, <1>9, <1>10, MovesTo

\* What the shells do is a move, but for the idle callback of a death.
LEMMA PaneMoves ==
  ASSUME Inv, NEW t \in Panes,
         FocusEnter(t) \/ SockEof(t) \/ \E s \in Titles : TitleChanged(t, s)
  PROVE  Moves
  <1>1. PICK S : S = Screen  OBVIOUS
  <1>2. Good(S) /\ S \in Screens /\ S.panes = panes /\ S.pages = pages /\ t \in Panes
    BY <1>1, ScreenIs DEF Inv, Good, Sound
  <1>3. PICK p : p = S.panes[t].page  OBVIOUS
  <1>4. p = panes[t].page  BY <1>2, <1>3
  <1>5. CASE FocusEnter(t)
    <2>1. PICK R : R = SetFocused(S, p, t)  OBVIOUS
    <2>2. p # NoPage /\ S.pages[p].focused # t /\ Becomes(R)
      BY ONLY <1>1, <1>2, <1>4, <1>5, <2>1 DEF FocusEnter
    <2>3. \A m \in S.pages[p].hidden : ~IsPrefix(m, S.panes[t].path)
      BY ONLY <1>2, <1>4, <1>5 DEF FocusEnter, Shown
    <2>4. p \in Pages /\ t \in Leaves(S, p)  BY <1>2, <1>3, <2>2, PaneType DEF Leaves
    <2>5. Step(S, R)  BY ONLY <1>2, <2>1, <2>2, <2>3, <2>4, FocusEnterStep
    <2>6. QED  BY ONLY <1>1, <2>2, <2>5, MovesTo
  <1>6. CASE SockEof(t)
    <2>1. PICK R : R = [S EXCEPT !.panes[t].death = "pending"]  OBVIOUS
    <2>2. S.panes[t].bridge # NoPage /\ Becomes(R)
      BY ONLY <1>1, <1>2, <1>6, <2>1 DEF SockEof
    <2>3. Step(S, R)  BY ONLY <1>2, <2>1, <2>2, PendingStep
    <2>4. QED  BY ONLY <1>1, <2>2, <2>3, MovesTo
  <1>7. ASSUME NEW s \in Titles, TitleChanged(t, s) PROVE Moves
    <2>1. PICK X : X = [S EXCEPT !.panes[t].shell = s]  OBVIOUS
    <2>2. PICK R : R = IF S.pages[p].focused = t THEN UpdateTitle(X, p) ELSE X  OBVIOUS
    <2>3. p # NoPage /\ Becomes(R)
      BY ONLY <1>1, <1>2, <1>4, <1>7, <2>1, <2>2 DEF TitleChanged
    <2>4. s \in Titles  OBVIOUS
    <2>5. Step(S, R)  BY ONLY <1>2, <1>3, <2>1, <2>2, <2>3, <2>4, TitleChangedStep
    <2>6. QED  BY ONLY <1>1, <2>3, <2>5, MovesTo
  <1>8. QED  BY <1>5, <1>6, <1>7

\* SetDimInactive is a move.
LEMMA SetDimInactiveMoves ==
  ASSUME Inv, NEW b \in BOOLEAN, SetDimInactive(b)
  PROVE  Moves
  <1>1. PICK S : S = Screen  OBVIOUS
  <1>2. Good(S) /\ b \in BOOLEAN  BY <1>1 DEF Inv, Good
  <1>3. PICK R : R = Dimmed([S EXCEPT !.dim = b], Pages)  OBVIOUS
  <1>4. Becomes(R)  BY ONLY <1>1, <1>3, SetDimInactive(b) DEF SetDimInactive
  <1>5. Step(S, R)  BY ONLY <1>2, <1>3, SetDimStep
  <1>6. QED  BY ONLY <1>1, <1>4, <1>5, MovesTo


\* A screen without panes is a good one.
LEMMA BareIsGood ==
  ASSUME NEW R \in Screens, R.panes = [t \in Panes |-> NoPaneRecord],
         R.pages = [p \in Pages |-> NoPageRecord],
         \A w \in Windows : WindowOK(R.windows[w]) /\ R.windows[w].tabs = <<>> /\ DialogOK(R, w)
  PROVE  Good(R)
  <1>1. NoPage \notin Pages  BY TabsConstants
  <1>2. \A t \in Panes : R.panes[t].page = NoPage /\ R.panes[t].bridge = NoPage
                         /\ R.panes[t].death = "alive"
    BY DEF NoPaneRecord
  <1>3. \A q \in Pages : Leaves(R, q) = {}  BY <1>1, <1>2 DEF Leaves
  <1>4. \A t \in Panes : BridgeOK(R, t)  BY <1>2 DEF BridgeOK
  <1>5. ASSUME NEW q \in Pages PROVE PageOK(R, q)
    <2>1. R.pages[q].focused = NoPane /\ R.pages[q].zoomed = NoPane /\ R.pages[q].hidden = {}
      BY DEF NoPageRecord
    <2>2. TreeOK(R, q)  BY <1>3 DEF TreeOK, FullTree
    <2>3. FocusOK(R, q)  BY <1>3, <2>1 DEF FocusOK
    <2>4. ZoomOK(R, q)  BY <2>1 DEF ZoomOK, ZoomFits
    <2>5. DimOK(R, q)  BY <1>3 DEF DimOK
    <2>6. TitleOK(R, q)  BY <2>1 DEF TitleOK
    <2>7. QED  BY <2>2, <2>3, <2>4, <2>5, <2>6 DEF PageOK
  <1>6. \A w \in Windows : \A p : ~InWindow(R, w, p)
    <2>1. DOMAIN <<>> = {}  OBVIOUS
    <2>2. QED  BY <2>1 DEF InWindow
  <1>7. Placed(R)  BY <1>3, <1>6 DEF Placed
  <1>8. QED  BY <1>4, <1>5, <1>7 DEF Good, Sound, TabsOK

\* The screen at the start
LEMMA InitIsGood ==
  ASSUME Init
  PROVE  Inv
  <1>1. PICK S : S = Screen  OBVIOUS
  <1>2. /\ S.panes = [t \in Panes |-> NoPaneRecord] /\ S.pages = [p \in Pages |-> NoPageRecord]
        /\ S.windows = [w \in Windows |-> NoWindowRecord]
    BY <1>1, ScreenIs DEF Init
  <1>3. S \in Screens
    <2>1. panes \in [Panes -> PaneRecord] /\ pages \in [Pages -> PageRecord]
          /\ windows \in [Windows -> WindowRecord]
      BY NoRecords DEF Init
    <2>2. dimInactive \in BOOLEAN /\ stranded \in SUBSET Pages  BY DEF Init
    <2>3. QED  BY <1>1, <2>1, <2>2 DEF Screen, Screens
  <1>4. ASSUME NEW w \in Windows
        PROVE  WindowOK(S.windows[w]) /\ S.windows[w].tabs = <<>> /\ DialogOK(S, w)
    <2>1. S.windows[w] = NoWindowRecord  BY <1>2
    <2>2. NoWindowRecord.tabs = <<>> /\ NoWindowRecord.dialog = NoDialog  BY DEF NoWindowRecord
    <2>3. Names(NoDialog)  BY DEF Names, NoDialog
    <2>4. QED  BY ONLY <2>1, <2>2, <2>3, NoWindowOK DEF DialogOK
  <1>5. Good(S)  BY ONLY <1>2, <1>3, <1>4, BareIsGood
  <1>6. QED  BY <1>1, <1>5 DEF Inv, Good

\* The end of the process, when no window is left to show what was lost
LEMMA QuitIsGood ==
  ASSUME Inv, Quit
  PROVE  Inv' /\ ExitsCloseTheirPane
  <1>1. PICK S : S = Screen  OBVIOUS
  <1>2. Good(S) /\ S \in Screens /\ S.windows = windows /\ S.dim = dimInactive
    BY <1>1, ScreenIs DEF Inv, Good, Sound
  <1>3. PICK R : R = [panes |-> [t \in Panes |-> NoPaneRecord], pages |-> [p \in Pages |-> NoPageRecord],
                      windows |-> S.windows, dim |-> S.dim, lost |-> {}]
    OBVIOUS
  <1>4. Screen' = R  BY <1>2, <1>3 DEF Quit, Screen
  <1>5. R \in Screens
    <2>1. [t \in Panes |-> NoPaneRecord] \in [Panes -> PaneRecord]
          /\ [p \in Pages |-> NoPageRecord] \in [Pages -> PageRecord]
      BY NoRecords
    <2>2. S.windows \in [Windows -> WindowRecord] /\ S.dim \in BOOLEAN  BY <1>2, ScreenType
    <2>3. QED  BY <1>3, <2>1, <2>2 DEF Screens
  <1>6. /\ R.panes = [t \in Panes |-> NoPaneRecord] /\ R.pages = [p \in Pages |-> NoPageRecord]
        /\ R.windows = S.windows
    BY ONLY <1>3
  <1>7. ASSUME NEW w \in Windows
        PROVE  WindowOK(R.windows[w]) /\ R.windows[w].tabs = <<>> /\ DialogOK(R, w)
    <2>1. WindowOK(S.windows[w]) /\ DialogOK(S, w)  BY <1>2 DEF Good, Sound, TabsOK
    <2>2. ~S.windows[w].open  BY <1>2, Zenon DEF Quit, Open
    <2>3. S.windows[w].tabs = <<>>  BY <2>1, <2>2, Zenon DEF WindowOK
    <2>4. QED  BY <1>6, <2>1, <2>3 DEF DialogOK
  <1>8. Good(R)  BY ONLY <1>5, <1>6, <1>7, BareIsGood
  <1>9. Inv'
    <2>1. Good(Screen')  BY <1>4, <1>8
    <2>2. QED  BY <2>1 DEF Inv, Good
  <1>10. ExitsCloseTheirPane
    <2>1. \A t \in Panes : panes'[t].death = "alive"  BY DEF Quit, NoPaneRecord
    <2>2. QED  BY <2>1 DEF ExitsCloseTheirPane
  <1>11. QED  BY <1>9, <1>10

\* The exit of a shell
LEMMA DeathIdleIsGood ==
  ASSUME Inv, NEW t \in Panes, DeathIdle(t)
  PROVE  Inv' /\ ExitsCloseTheirPane
  <1>1. PICK S : S = Screen  OBVIOUS
  <1>2. Good(S) /\ S.panes = panes /\ S.pages = pages /\ S.lost = stranded /\ t \in Panes
    BY <1>1, ScreenIs DEF Inv, Good
  <1>3. PICK p : p = S.panes[t].bridge  OBVIOUS
  <1>4. PICK X : X = [S EXCEPT !.panes[t].death = "ran"]  OBVIOUS
  <1>5. /\ S.panes[t].death = "pending"
        /\ \E next \in Successors(X, WindowOf(X, p), p) : Becomes(RemoveTerminal(X, p, t, next))
    BY ONLY <1>1, <1>2, <1>3, <1>4, DeathIdle(t) DEF DeathIdle
  <1>6. PICK next \in Successors(X, WindowOf(X, p), p) : Becomes(RemoveTerminal(X, p, t, next))
    BY <1>5
  <1>7. PICK R : R = RemoveTerminal(X, p, t, next)  OBVIOUS
  <1>8. next \in Successors(X, WindowOf(X, p), p) /\ Becomes(R)  BY <1>6, <1>7
  <1>9. /\ Good(R) /\ p = S.panes[t].page
        /\ \A u \in Panes : S.panes[u].death = "pending" /\ R.panes[u].death = "ran" =>
             u = t /\ (S.pages[p].pinned \/ p \in S.lost)
    <2>1. S.panes[t].death = "pending"  BY <1>5
    <2>2. Exits(S, R, t, p)
      BY ONLY <1>2, <1>3, <1>4, <1>7, <1>8, <2>1, DeathIdleStep
    <2>3. QED  BY ONLY <2>2 DEF Exits
  <1>10. Screen' = R
    <2>1. R \in Screens  BY <1>9 DEF Good, Sound
    <2>2. QED  BY ONLY <1>8, <2>1, BecomesIs
  <1>11. Inv'
    <2>1. Good(Screen')  BY <1>9, <1>10
    <2>2. QED  BY <2>1 DEF Inv, Good
  <1>12. panes' = R.panes  BY <1>8 DEF Becomes
  <1>13. ExitsCloseTheirPane
    <2>1. ASSUME NEW u \in Panes, panes[u].death = "pending", panes'[u].death = "ran"
          PROVE  pages[panes[u].page].pinned \/ panes[u].page \in stranded
      <3>1. u = t /\ (S.pages[p].pinned \/ p \in S.lost)  BY <1>2, <1>9, <1>12, <2>1
      <3>2. panes[u].page = p  BY <1>2, <1>9, <3>1
      <3>3. QED  BY <1>2, <3>1, <3>2
    <2>2. QED  BY <2>1 DEF ExitsCloseTheirPane
  <1>14. QED  BY <1>11, <1>13

\* Every step keeps the invariant, and an exit closes its pane.
LEMMA NextIsGood ==
  ASSUME Inv, Next
  PROVE  Inv' /\ ExitsCloseTheirPane
  <1>1. CASE NewWindow  BY <1>1, NewWindowMoves, MovesIsGood
  <1>2. CASE Quit  BY <1>2, QuitIsGood
  <1>3. ASSUME NEW w \in Windows, Split(w) \/ ClosePane(w) \/ ToggleZoom(w) \/ FocusDirection(w)
        PROVE  Moves
    BY <1>3, SplitMoves, ClosePaneMoves, ToggleZoomMoves, FocusDirectionMoves
  <1>4. ASSUME NEW w \in Windows, NewTab(w) \/ OpenInNewTab(w) PROVE Moves
    BY <1>4, NewTabMoves, OpenInNewTabMoves
  <1>5. ASSUME NEW w \in Windows, MenuClosed(w) \/ ClearMenuPage(w) \/ TabMove(w) \/ TabPin(w)
        PROVE  Moves
    BY <1>5, MenuMoves, TabMoveMoves, TabPinMoves
  <1>6. ASSUME NEW w \in Windows, TabClose(w) \/ TabToNewWindow(w) \/ TabCloseOthers(w)
        PROVE  Moves
    BY <1>6, CloseTabMoves, MoveToNewWindowMoves, TabCloseOthersMoves DEF TabClose, TabToNewWindow
  <1>7. ASSUME NEW w \in Windows,
               PresentSetTitle(w) \/ KillPane(w) \/ CloseRequest(w) \/ Answer(w)
        PROVE  Moves
    BY <1>7, DialogMoves, AnswerMoves
  <1>8. ASSUME NEW w \in Windows, NEW p \in Pages, SelectPage(w, p) \/ CloseTab(w, p) \/ SetupMenu(w, p)
        PROVE  Moves
    BY <1>8, SelectPageMoves, CloseTabMoves, MenuMoves
  <1>9. ASSUME NEW t \in Panes, FocusEnter(t) \/ SockEof(t) \/ \E s \in Titles : TitleChanged(t, s)
        PROVE  Moves
    BY <1>9, PaneMoves
  <1>10. ASSUME NEW t \in Panes, DeathIdle(t) PROVE Inv' /\ ExitsCloseTheirPane
    BY <1>10, DeathIdleIsGood
  <1>11. CASE SetDimInactive(~dimInactive)
    <2>1. (~dimInactive) \in BOOLEAN  OBVIOUS
    <2>2. Moves  BY <1>11, <2>1, SetDimInactiveMoves
    <2>3. QED  BY <2>2, MovesIsGood
  <1>12. QED
    BY <1>1, <1>2, <1>3, <1>4, <1>5, <1>6, <1>7, <1>8, <1>9, <1>10, <1>11, MovesIsGood DEF Next


-----------------------------------------------------------------------------
(* The theorems *)

\* However panes, tabs and windows are split, closed, moved, zoomed and renamed,
\* and shells exit (the handlers of epimone-page.c and epimone-window.c), trees,
\* titles, scrims and places of tabs stay right.
THEOREM Invariance == Spec => []Inv
  <1>1. Init => Inv  BY InitIsGood
  <1>2. Inv /\ [Next]_vars => Inv'
    <2>1. ASSUME Inv, UNCHANGED vars PROVE Inv'
      <3>1. Screen' = Screen  BY <2>1 DEF vars, Screen
      <3>2. Good(Screen)  BY <2>1 DEF Inv, Good
      <3>3. Good(Screen')  BY <3>1, <3>2
      <3>4. QED  BY <3>3 DEF Inv, Good
    <2>2. QED  BY <2>1, NextIsGood
  <1>3. QED  BY <1>1, <1>2, PTL DEF Spec

\* In a good screen the panes of every page form a whole tree.
LEMMA WholeTrees ==
  ASSUME Inv
  PROVE  TreeIsWhole
  <1>1. PICK S : S = Screen  OBVIOUS
  <1>2. Good(S) /\ S \in Screens /\ S.panes = panes /\ S.pages = pages
    BY <1>1, ScreenIs DEF Inv, Good, Sound
  <1>3. TypeOK  BY <1>1, <1>2 DEF TypeOK
  <1>4. ASSUME NEW t \in Panes, panes[t].page # NoPage
        PROVE  /\ \A i \in 1..Len(panes[t].path) :
                    Under(S, panes[t].page, Sibling(SubSeq(panes[t].path, 1, i))) # {}
               /\ Under(S, panes[t].page, panes[t].path) = {t}
    <2>1. PICK p : p = S.panes[t].page  OBVIOUS
    <2>2. p \in Pages /\ t \in Leaves(S, p)  BY <1>2, <1>4, <2>1, PaneType DEF Leaves
    <2>3. FullTree(Leaves(S, p), Paths(S))  BY <1>2, <2>2 DEF Good, Sound, PageOK, TreeOK
    <2>4. PICK a \in Path : a = S.panes[t].path  BY <1>2, PaneType
    <2>5. \A u \in Leaves(S, p) : u \in Panes /\ Paths(S)[u] = S.panes[u].path /\ S.panes[u].path \in Path
      BY <1>2, PaneType DEF Leaves, Paths
    <2>6. ASSUME NEW i \in 1..Len(a) PROVE Under(S, p, Sibling(SubSeq(a, 1, i))) # {}
      <3>1. PICK u \in Leaves(S, p) : Parts(a, S.panes[u].path, i)
        BY <2>2, <2>3, <2>4, <2>5 DEF FullTree
      <3>2. IsPrefix(Sibling(SubSeq(a, 1, i)), S.panes[u].path)  BY <2>5, <3>1, BelowSiblings
      <3>3. u \in Under(S, p, Sibling(SubSeq(a, 1, i)))  BY <3>1, <3>2 DEF Under
      <3>4. QED  BY <3>3
    <2>7. ASSUME NEW u \in Leaves(S, p) PROVE IsPrefix(a, S.panes[u].path) <=> u = t
      <3>1. PICK b \in Path : b = S.panes[u].path  BY <2>5
      <3>2. CASE u = t
        <4>1. b = a  BY <2>4, <3>1, <3>2
        <4>2. Len(a) \in Nat  BY PathType
        <4>3. IsPrefix(a, b)  BY <4>1, <4>2, PrefixOf
        <4>4. QED  BY <3>1, <3>2, <4>3
      <3>3. CASE u # t
        <4>1. Fork(a, b)  BY <2>2, <2>3, <2>4, <2>5, <3>1, <3>3 DEF FullTree
        <4>2. PICK i \in 1..Len(a) : a[i] # b[i]  BY <4>1 DEF Fork, Parts
        <4>3. ~IsPrefix(a, b)  BY <4>2, PrefixOf
        <4>4. QED  BY <3>1, <3>3, <4>3
      <3>4. QED  BY <3>2, <3>3
    <2>8. Under(S, p, a) = {t}  BY <2>2, <2>7 DEF Under
    <2>9. panes[t].page = p /\ panes[t].path = a  BY <1>2, <2>1, <2>4
    <2>10. QED  BY <2>6, <2>8, <2>9
  <1>5. TreesAreFull  BY ONLY <1>1, <1>4 DEF TreesAreFull
  <1>6. FocusIsOwn
    <2>1. \A p \in Pages : FocusOK(S, p)  BY <1>2 DEF Good, Sound, PageOK
    <2>2. QED  BY ONLY <1>1, <1>2, <2>1 DEF FocusIsOwn, FocusOK
  <1>7. BridgeKnowsPage
    <2>1. \A t \in Panes : BridgeOK(S, t)  BY <1>2 DEF Good, Sound
    <2>2. QED  BY ONLY <1>2, <2>1 DEF BridgeKnowsPage, BridgeOK
  <1>8. QED  BY <1>3, <1>5, <1>6, <1>7 DEF TreeIsWhole

\* After any splits, exits, zooms and moves of a pane between tabs (remove_terminal,
\* epimone_page_take_focused_leaf, epimone_page_adopt_leaf) a page holds a full
\* binary tree of its own panes, with its focus in it and their bridges on it.
THEOREM TreesCorrect == Spec => []TreeIsWhole
  BY Invariance, WholeTrees, PTL

\* In a good screen every page shows what its tree, focus and zoom ask for.
LEMMA CurrentShows ==
  ASSUME Inv
  PROVE  ShownIsCurrent
  <1>1. PICK S : S = Screen  OBVIOUS
  <1>2. /\ Good(S) /\ Sound(S) /\ S \in Screens /\ S.panes = panes /\ S.pages = pages
        /\ S.dim = dimInactive
    BY <1>1, ScreenIs DEF Inv, Good, Sound
  <1>3. ASSUME NEW p \in Pages, Leaves(S, p) # {}
        PROVE  /\ {t \in Leaves(S, p) : Shown(t)} =
                    IF pages[p].zoomed = NoPane THEN Leaves(S, p) ELSE {pages[p].zoomed}
               /\ pages[p].zoomed # NoPane => pages[p].zoomed = pages[p].focused
               /\ pages[p].zoomed = NoPane => pages[p].hidden = {}
    <2>1. PageOK(S, p)  BY <1>2 DEF Sound
    <2>2. ZoomFits(S, p, S.pages[p].focused)  BY <2>1 DEF PageOK, ZoomOK
    <2>3. \A t \in Leaves(S, p) :
            t \in Panes /\ (Shown(t) <=> \A m \in S.pages[p].hidden : ~IsPrefix(m, S.panes[t].path))
      BY <1>2 DEF Shown, Leaves
    <2>4. CASE S.pages[p].zoomed = NoPane
      <3>1. S.pages[p].hidden = {}  BY <2>2, <2>4 DEF ZoomFits
      <3>2. QED  BY <1>2, <2>3, <2>4, <3>1
    <2>5. CASE S.pages[p].zoomed # NoPane
      <3>1. PICK z : z = S.pages[p].zoomed  OBVIOUS
      <3>2. z = S.pages[p].focused /\ S.pages[p].hidden = Around(S, z)
        BY <2>2, <2>5, <3>1 DEF ZoomFits
      <3>3. z \in Leaves(S, p)  BY <2>1, <2>5, <3>1, <3>2 DEF PageOK, FocusOK
      <3>4. \A m \in S.pages[p].hidden : ~IsPrefix(m, S.panes[z].path)
        <4>1. z \in Panes  BY <3>3 DEF Leaves
        <4>2. PICK a \in Path : a = S.panes[z].path  BY <1>2, <4>1, PaneType
        <4>3. ASSUME NEW i \in 1..Len(a) PROVE ~IsPrefix(Sibling(SubSeq(a, 1, i)), a)
          BY BelowSiblings DEF Parts
        <4>4. QED  BY <3>2, <4>2, <4>3 DEF Around
      <3>5. \A t \in Leaves(S, p) :
              (\A m \in S.pages[p].hidden : ~IsPrefix(m, S.panes[t].path)) => t = z
        BY <1>2, <2>5, <3>1, ShownIsZoomed
      <3>6. {t \in Leaves(S, p) : Shown(t)} = {z}  BY <2>3, <3>3, <3>4, <3>5
      <3>7. QED  BY <1>2, <2>5, <3>1, <3>2, <3>6
    <2>6. QED  BY <2>4, <2>5
  <1>4. ZoomShowsOne  BY ONLY <1>1, <1>3 DEF ZoomShowsOne
  <1>5. DimmingIsCurrent
    <2>1. ASSUME NEW t \in Panes, panes[t].page # NoPage
          PROVE  panes[t].scrim <=> /\ dimInactive
                                    /\ Cardinality(Leaves(S, panes[t].page)) > 1
                                    /\ pages[panes[t].page].focused # t
      <3>1. PICK p : p = S.panes[t].page  OBVIOUS
      <3>2. p \in Pages /\ t \in Leaves(S, p)  BY <1>2, <2>1, <3>1, PaneType DEF Leaves
      <3>3. PageOK(S, p)  BY <1>2, <3>2 DEF Sound
      <3>4. S.panes[t].scrim <=> S.dim /\ S.pages[p].focused \in Leaves(S, p) \ {t}
        BY <3>2, <3>3 DEF PageOK, DimOK
      <3>5. Cardinality(Leaves(S, p)) > 1 <=> \E u \in Leaves(S, p) : u # t
        BY <3>2, LeavesCount
      <3>6. S.panes[t].path = <<>> => Leaves(S, p) = {t}
        <4>1. FullTree(Leaves(S, p), Paths(S)) /\ Paths(S)[t] = S.panes[t].path
          BY <3>3 DEF PageOK, TreeOK, Paths
        <4>2. QED  BY <3>2, <4>1, RootIsAlone
      <3>7. \/ S.pages[p].focused \in Leaves(S, p)
            \/ S.pages[p].focused = NoPane /\ S.panes[t].path = <<>>
        BY <3>2, <3>3 DEF PageOK, FocusOK
      <3>8. S.panes[t].scrim <=> /\ S.dim
                                 /\ Cardinality(Leaves(S, p)) > 1
                                 /\ S.pages[p].focused # t
        <4>1. CASE S.pages[p].focused \in Leaves(S, p)  BY ONLY <3>4, <3>5, <4>1
        <4>2. CASE S.pages[p].focused \notin Leaves(S, p)
          <5>1. \A u \in Leaves(S, p) : u = t  BY <3>6, <3>7, <4>2
          <5>2. QED  BY ONLY <3>4, <3>5, <4>2, <5>1
        <4>3. QED  BY <4>1, <4>2
      <3>9. QED  BY <1>2, <3>1, <3>8
    <2>2. QED  BY ONLY <1>1, <2>1 DEF DimmingIsCurrent
  <1>6. TitleIsCurrent
    <2>1. ASSUME NEW p \in Pages, pages[p].focused # NoPane
          PROVE  pages[p].title = [zoom |-> pages[p].zoomed # NoPane,
                                   base |-> IF pages[p].custom THEN "custom"
                                            ELSE panes[pages[p].focused].shell]
      <3>1. TitleOK(S, p)  BY <1>2 DEF Sound, PageOK
      <3>2. S.pages[p].focused # NoPane  BY <1>2, <2>1
      <3>3. S.pages[p].title = TitleFor(S, p)  BY <3>1, <3>2 DEF TitleOK
      <3>4. QED  BY <1>2, <3>2, <3>3 DEF TitleFor
    <2>2. QED  BY ONLY <2>1 DEF TitleIsCurrent
  <1>7. QED  BY <1>4, <1>5, <1>6 DEF ShownIsCurrent

\* What a page shows follows from its tree, its focus, its zoom and the setting:
\* every handler ends with the right calls of epimone_page_update_title and
\* epimone_page_update_dimming, and no pane stays hidden.
THEOREM ShownCorrect == Spec => []ShownIsCurrent
  BY Invariance, CurrentShows, PTL

\* In a good screen every page with panes that is not lost is in one open
\* window, and a menu acts on the tab it was opened on.
LEMMA TabsKept ==
  ASSUME Inv
  PROVE  TabsAreInWindows /\ MenuActsOnItsTab
  <1>1. PICK S : S = Screen  OBVIOUS
  <1>2. Good(S) /\ S \in Screens /\ S.windows = windows /\ S.lost = stranded
    BY <1>1, ScreenIs DEF Inv, Good, Sound
  <1>3. TabsOK(S) /\ Placed(S) /\ \A w \in Windows : WindowOK(S.windows[w])
    BY <1>2 DEF Good, TabsOK
  <1>4. ASSUME NEW p \in Pages, Leaves(S, p) # {}, p \notin stranded
        PROVE  Cardinality({w \in Windows : Open(w) /\ InWindow(S, w, p)}) = 1
    <2>1. PICK v \in Windows : InWindow(S, v, p)  BY <1>2, <1>3, <1>4 DEF Placed
    <2>2. Open(v)
      <3>1. S.windows[v].open  BY <1>3, <2>1, ShowsIsOpen
      <3>2. QED  BY <1>2, <3>1, Zenon DEF Open
    <2>3. \A w \in Windows : InWindow(S, w, p) => w = v  BY <1>3, <2>1 DEF Placed
    <2>4. {w \in Windows : Open(w) /\ InWindow(S, w, p)} = {v}  BY ONLY <2>1, <2>2, <2>3
    <2>5. QED  BY <2>4, FS_Singleton
  <1>5. ASSUME NEW w \in Windows, Open(w)
        PROVE  /\ IsInjective(windows[w].tabs)
               /\ InWindow(S, w, windows[w].selected)
               /\ \A i \in DOMAIN windows[w].tabs : Leaves(S, windows[w].tabs[i]) # {}
    <2>1. S.windows[w].open  BY <1>2, <1>5, Zenon DEF Open
    <2>2. InWindow(S, w, S.windows[w].selected)  BY <1>3, <2>1, Zenon DEF WindowOK, InWindow
    <2>3. IsInjective(S.windows[w].tabs)  BY <1>3 DEF WindowOK
    <2>4. ASSUME NEW i \in DOMAIN S.windows[w].tabs PROVE Leaves(S, S.windows[w].tabs[i]) # {}
      <3>1. InWindow(S, w, S.windows[w].tabs[i])  BY DEF InWindow
      <3>2. S.windows[w].tabs[i] \in Pages  BY <1>2, <3>1, ShownPage
      <3>3. QED  BY <1>3, <3>1, <3>2 DEF Placed
    <2>5. QED  BY <1>2, <2>2, <2>3, <2>4
  <1>6. TabsAreInWindows  BY ONLY <1>1, <1>4, <1>5 DEF TabsAreInWindows
  <1>7. MenuActsOnItsTab
    <2>1. ASSUME NEW w \in Windows, windows[w].menuOpen # NoPage
          PROVE  windows[w].menuPage = windows[w].menuOpen
      BY <1>2, <1>3, <2>1 DEF WindowOK
    <2>2. QED  BY ONLY <2>1 DEF MenuActsOnItsTab, MenuTarget
  <1>8. QED  BY <1>6, <1>7

\* A page with panes is the tab of one open window, unless AdwTabView refused it;
\* the menu's items act on the tab it was opened on (epimone_window_tab_menu_page);
\* and the exit of a shell closes its own pane, wherever its tab is by then
\* (death_idle, epimone_window_page_close_cb).
THEOREM TabsCorrect == Spec => NothingIsLost
  <1>1. Inv /\ [Next]_vars => [ExitsCloseTheirPane]_vars  BY NextIsGood
  <1>2. QED  BY <1>1, Invariance, TabsKept, PTL DEF Spec, NothingIsLost

===============================================================================
