----------------------------- MODULE RingProofs -----------------------------
(***************************************************************************)
(* Ring holds the most recent output for every capacity, every sequence of *)
(* writes and every pattern of allocation failures.                        *)
(***************************************************************************)
EXTENDS Ring, TLAPS

\* An index less than two turns around the ring.
LEMMA Wrap ==
  ASSUME NEW c \in Nat, c > 0, NEW a \in Nat, a < 2 * c
  PROVE  a % c = (IF a < c THEN a ELSE a - c) /\ a % c \in 0 .. c - 1
<1>1. CASE a < c BY <1>1
<1>2. CASE a >= c
  <2>1. a % c = a - c BY <1>2, Z3
  <2> QED BY <1>2, <2>1
<1> QED BY <1>1, <1>2

\* What memcpy leaves in a cell.
LEMMA Copied ==
  ASSUME NEW dst, NEW src, NEW at, NEW from, NEW n, NEW i \in DOMAIN dst
  PROVE  MemCpy(dst, at, src, from, n)[i] =
           IF i >= at /\ i < at + n THEN src[from + i - at] ELSE dst[i]
  BY DEF MemCpy

\* Copying out of the ring puts logical byte i in cell i.
LEMMA LinearCopy ==
  ASSUME TypeOK, NEW m \in Nat, NEW n \in 0 .. m, NEW at \in 0 .. cap - 1, n <= cap
  PROVE  /\ Linear(Fresh(m), at, n) \in [0 .. m - 1 -> 0 .. written]
         /\ \A i \in 0 .. n - 1 : Linear(Fresh(m), at, n)[i] = buf[(at + i) % cap]
<1> DEFINE first == cap - at
           one == MemCpy(Fresh(m), 0, buf, at, n)
           part == MemCpy(Fresh(m), 0, buf, at, first)
           two == MemCpy(part, first, buf, 0, n - first)
<1>0. /\ cap \in Nat /\ cap > 0 /\ written \in Nat /\ at \in Nat /\ n \in Nat /\ first \in Nat
      /\ \A i \in 0 .. cap - 1 : buf[i] \in 0 .. written
  BY DEF TypeOK
<1>1. \A i \in 0 .. n - 1 : (at + i) % cap = IF i < first THEN at + i ELSE i - first
  <2> SUFFICES ASSUME NEW i \in 0 .. n - 1
               PROVE (at + i) % cap = IF i < first THEN at + i ELSE i - first
    OBVIOUS
  <2>1. at + i \in Nat /\ at + i < 2 * cap
    BY <1>0
  <2>2. (at + i) % cap = IF at + i < cap THEN at + i ELSE at + i - cap
    BY <1>0, <2>1, Wrap
  <2> QED BY <1>0, <2>2
<1>2. Fresh(m) = [i \in 0 .. m - 1 |-> 0]
  BY DEF Fresh, Junk
<1>3. CASE first >= n
  <2>1. Linear(Fresh(m), at, n) = one
    BY <1>3 DEF Linear
  <2>2. \A i \in 0 .. m - 1 : one[i] = IF i < n THEN buf[at + i] ELSE 0
    BY <1>0, <1>2 DEF MemCpy
  <2>3. \A i \in 0 .. n - 1 : at + i \in 0 .. cap - 1
    BY <1>0, <1>3
  <2>4. one \in [0 .. m - 1 -> 0 .. written]
    BY <1>0, <1>2, <2>2, <2>3 DEF MemCpy
  <2>5. \A i \in 0 .. n - 1 : one[i] = buf[(at + i) % cap]
    BY <1>0, <1>1, <1>3, <2>2
  <2> QED BY <2>1, <2>4, <2>5
<1>4. CASE first < n
  <2>1. Linear(Fresh(m), at, n) = two
    BY <1>0, <1>4 DEF Linear
  <2>2. \A i \in 0 .. m - 1 : part[i] = IF i < first THEN buf[at + i] ELSE 0
    BY <1>0, <1>2 DEF MemCpy
  <2>3. \A i \in 0 .. m - 1 : two[i] = IF i >= first /\ i < n THEN buf[i - first] ELSE part[i]
    BY <1>0, <1>2, <1>4 DEF MemCpy
  <2>4. two \in [0 .. m - 1 -> 0 .. written]
    <3>1. \A i \in 0 .. m - 1 : two[i] \in 0 .. written
      BY <1>0, <1>4, <2>2, <2>3
    <3>2. DOMAIN two = 0 .. m - 1 /\ two = [i \in DOMAIN two |-> two[i]]
      BY <1>2 DEF MemCpy
    <3> QED BY <3>1, <3>2
  <2>5. \A i \in 0 .. n - 1 : two[i] = buf[(at + i) % cap]
    BY <1>0, <1>1, <1>4, <2>2, <2>3
  <2> QED BY <2>1, <2>4, <2>5
<1> QED BY <1>0, <1>3, <1>4

\* ring_grow keeps the contents and puts the oldest byte in cell 0.
LEMMA Relayout ==
  ASSUME TypeOK, NEW nc \in cap .. MaxCap
  PROVE  /\ Relaid(nc) \in [0 .. nc - 1 -> 0 .. written]
         /\ \A i \in 0 .. size - 1 : Relaid(nc)[i] = At(i)
<1>0. /\ cap \in Nat /\ cap > 0 /\ nc \in Nat /\ size \in Nat /\ size <= cap /\ head \in 0 .. cap - 1
      /\ written \in Nat /\ \A i \in 0 .. cap - 1 : buf[i] \in 0 .. written
  BY RingAssumption DEF TypeOK
<1>1. CASE head = 0
  <2> DEFINE b == MemCpy(Fresh(nc), 0, buf, 0, cap)
  <2>1. b = [i \in 0 .. nc - 1 |-> IF i < cap THEN buf[i] ELSE 0]
    BY <1>0 DEF MemCpy, Fresh, Junk
  <2>2. \A i \in 0 .. size - 1 : b[i] = buf[(head + i) % cap]
    BY <1>0, <1>1, <2>1
  <2> QED BY <1>0, <1>1, <2>1, <2>2 DEF Relaid, At
<1>2. CASE head # 0
  <2>1. Relaid(nc) = Linear(Fresh(nc), head, size)
    BY <1>2 DEF Relaid
  <2>2. size \in 0 .. nc
    BY <1>0
  <2>3. /\ Linear(Fresh(nc), head, size) \in [0 .. nc - 1 -> 0 .. written]
        /\ \A i \in 0 .. size - 1 : Linear(Fresh(nc), head, size)[i] = buf[(head + i) % cap]
    BY ONLY <1>0, <2>2, TypeOK, LinearCopy
  <2> QED BY <2>1, <2>3 DEF At
<1> QED BY <1>1, <1>2

\* a % c, for an index less than two turns around the ring (Wrap).
Mod(a, c) == IF a < c THEN a ELSE a - c

\* Buffer b of capacity c holds, from index h on, the last n of w bytes.
Holds(b, h, c, n, w) == \A i \in 0 .. n - 1 : b[Mod(h + i, c)] = w - n + i + 1

\* nb is b with len bytes written from tl on, wrapping after the first piece.
Pieces(nb, b, c, tl, first, len, w) ==
  \A j \in 0 .. c - 1 :
    nb[j] = IF j < len - first THEN w + first + j + 1
            ELSE IF j >= tl /\ j < tl + first THEN w + (j - tl) + 1
            ELSE b[j]

\* The cells after the two memcpy calls of epi_ring_write.
LEMMA Cells ==
  ASSUME NEW w \in Nat, NEW c \in Nat, NEW b \in [0 .. c - 1 -> 0 .. w],
         NEW len \in 1 .. c - 1, NEW tl \in 0 .. c - 1,
         NEW first \in 1 .. len, first <= c - tl, NEW data,
         data = [i \in 0 .. len - 1 |-> w + i + 1],
         NEW nb, nb = MemCpy(MemCpy(b, tl, data, 0, first), 0, data, first, len - first)
  PROVE  nb \in [0 .. c - 1 -> 0 .. w + len] /\ Pieces(nb, b, c, tl, first, len, w)
<1> DEFINE m == MemCpy(b, tl, data, 0, first)
<1>1. m = [j \in 0 .. c - 1 |-> IF j >= tl /\ j < tl + first THEN data[0 + j - tl] ELSE b[j]]
  BY DEF MemCpy
<1>2. nb = [j \in 0 .. c - 1 |-> IF j >= 0 /\ j < 0 + (len - first) THEN data[first + j - 0] ELSE m[j]]
  BY <1>1 DEF MemCpy
<1>3. ASSUME NEW j \in 0 .. c - 1
      PROVE  /\ nb[j] = IF j < len - first THEN w + first + j + 1
                        ELSE IF j >= tl /\ j < tl + first THEN w + (j - tl) + 1
                        ELSE b[j]
             /\ nb[j] \in 0 .. w + len
  <2> HIDE DEF m
  <2>1. CASE j < len - first
    <3>1. nb[j] = data[first + j]
      BY <1>2, <2>1
    <3>2. first + j \in 0 .. len - 1
      BY <2>1
    <3> QED BY <2>1, <3>1, <3>2
  <2>2. CASE ~(j < len - first) /\ j >= tl /\ j < tl + first
    <3>1. nb[j] = data[j - tl]
      BY <1>1, <1>2, <2>2
    <3>2. j - tl \in 0 .. len - 1
      BY <2>2
    <3> QED BY <2>2, <3>1, <3>2
  <2>3. CASE ~(j < len - first) /\ ~(j >= tl /\ j < tl + first)
    <3>1. nb[j] = b[j]
      BY <1>1, <1>2, <2>3
    <3>2. b[j] \in 0 .. w
      OBVIOUS
    <3> QED BY <2>3, <3>1, <3>2
  <2> QED BY <2>1, <2>2, <2>3
<1>4. nb \in [0 .. c - 1 -> 0 .. w + len]
  BY <1>2, <1>3
<1> QED BY <1>3, <1>4 DEF Pieces

\* epi_ring_write of fewer bytes than the ring holds: sz bytes from h on, len
\* more from tl on, the oldest sh given up.  Logical byte sh + i is at j,
\* outside the two pieces written if it is old, in its place if it is new.
LEMMA StoredShort ==
  ASSUME NEW w \in Nat, NEW c \in Nat, NEW h \in 0 .. c - 1, NEW b, NEW sz \in 0 .. c,
         Holds(b, h, c, sz, w), NEW len \in 1 .. c - 1,
         NEW tl \in Nat, tl = Mod(h + sz, c),
         NEW first \in Nat, first = Least(c - tl, len),
         NEW nb, Pieces(nb, b, c, tl, first, len, w),
         NEW sh \in Nat, sh = (IF sz + len <= c THEN 0 ELSE sz + len - c),
         NEW hd \in Nat, hd = Mod(h + sh, c)
  PROVE  Holds(nb, hd, c, sz + len - sh, w + len)
<1> SUFFICES ASSUME NEW i \in 0 .. sz + len - sh - 1
             PROVE  nb[Mod(hd + i, c)] = w + len - (sz + len - sh) + i + 1
  BY DEF Holds
<1>0. Mod(hd + i, c) \in Nat
  BY DEF Mod
<1>1. PICK j \in Nat : j = Mod(hd + i, c)
  BY <1>0, Zenon
<1>2. /\ j \in 0 .. c - 1
      /\ sh + i < sz => /\ j = Mod(h + (sh + i), c)
                        /\ ~(j < len - first) /\ ~(j >= tl /\ j < tl + first)
      /\ sh + i >= sz => \/ j < len - first /\ first + j = sh + i - sz
                         \/ /\ ~(j < len - first) /\ j >= tl /\ j < tl + first
                            /\ j - tl = sh + i - sz
  BY <1>1 DEF Mod, Least
<1>3. CASE sh + i < sz
  <2>1. nb[j] = b[j]
    BY <1>2, <1>3 DEF Pieces
  <2>2. sh + i \in 0 .. sz - 1
    BY <1>3
  <2>3. b[j] = w - sz + (sh + i) + 1
    BY <1>2, <1>3, <2>2 DEF Holds
  <2> QED BY <1>1, <2>1, <2>3
<1>4. CASE sh + i >= sz
  <2>1. nb[j] = w + (sh + i - sz) + 1
    BY <1>2, <1>4 DEF Pieces
  <2> QED BY <1>1, <2>1
<1> QED BY <1>3, <1>4

\* epi_ring_write of at least as many bytes as the ring holds.
LEMMA StoredLong ==
  ASSUME NEW w \in Nat, NEW c \in Nat, c > 0, NEW b \in [0 .. c - 1 -> 0 .. w],
         NEW len \in Nat, len >= c, NEW data, data = [i \in 0 .. len - 1 |-> w + i + 1],
         NEW nb, nb = MemCpy(b, 0, data, len - c, c)
  PROVE  nb \in [0 .. c - 1 -> 0 .. w + len] /\ Holds(nb, 0, c, c, w + len)
<1>1. nb = [j \in 0 .. c - 1 |-> data[len - c + j]]
  <2>1. DOMAIN b = 0 .. c - 1
    OBVIOUS
  <2>2. nb = [j \in 0 .. c - 1 |-> IF j >= 0 /\ j < 0 + c THEN data[len - c + j - 0] ELSE b[j]]
    BY <2>1 DEF MemCpy
  <2> HIDE DEF MemCpy
  <2>3. \A j \in 0 .. c - 1 : len - c + j - 0 = len - c + j /\ j >= 0 /\ j < 0 + c
    OBVIOUS
  <2> QED BY <2>2, <2>3
<1>2. ASSUME NEW j \in 0 .. c - 1
      PROVE  nb[j] = w + len - c + j + 1 /\ nb[j] \in 0 .. w + len
  <2>1. len - c + j \in 0 .. len - 1
    OBVIOUS
  <2>2. nb[j] = data[len - c + j]
    BY <1>1
  <2> QED BY <2>1, <2>2
<1>3. Holds(nb, 0, c, c, w + len)
  <2> SUFFICES ASSUME NEW i \in 0 .. c - 1 PROVE nb[Mod(0 + i, c)] = w + len - c + i + 1
    BY DEF Holds
  <2>1. Mod(0 + i, c) = i
    BY DEF Mod
  <2> QED BY <1>2, <2>1
<1>4. nb \in [0 .. c - 1 -> 0 .. w + len]
  BY <1>1, <1>2
<1> QED BY <1>3, <1>4

-----------------------------------------------------------------------------
(* The inductive invariant *)

LEMMA Remainders ==
  ASSUME NEW c \in Nat, c > 0, NEW h \in 0 .. c - 1, NEW n \in 0 .. c
  PROVE  \A i \in 0 .. n - 1 : (h + i) % c = Mod(h + i, c)
<1> SUFFICES ASSUME NEW i \in 0 .. n - 1 PROVE (h + i) % c = Mod(h + i, c)
  OBVIOUS
<1>1. h + i \in Nat /\ h + i < 2 * c
  OBVIOUS
<1> QED BY <1>1, Wrap DEF Mod

\* The ring in the terms of the lemmas above.
LEMMA TailHeld ==
  ASSUME TypeOK PROVE HoldsTheTail <=> Holds(buf, head, cap, size, written)
<1>1. ASSUME NEW i \in 0 .. size - 1 PROVE (head + i) % cap = Mod(head + i, cap)
  <2>1. cap \in Nat /\ cap > 0 /\ head + i \in Nat /\ head + i < 2 * cap
    BY RingAssumption DEF TypeOK
  <2> QED BY <2>1, Wrap DEF Mod
<1> QED BY <1>1 DEF HoldsTheTail, At, Holds

\* epi_ring_write proper, whatever ring_grow has done before it.
LEMMA Stored ==
  ASSUME NEW c \in Nat, c > 0, cap' = c, NEW h \in 0 .. c - 1,
         NEW b \in [0 .. c - 1 -> 0 .. written], written \in Nat, size \in 0 .. c,
         Holds(b, h, c, size, written), NEW len \in Nat, len > 0, Store(b, h, len)
  PROVE  /\ buf' \in [0 .. c - 1 -> 0 .. written + len] /\ head' \in 0 .. c - 1
         /\ size' = Least(size + len, c)
         /\ Holds(buf', head', c, size', written + len)
<1> DEFINE data == [i \in 0 .. len - 1 |-> written + i + 1]
           tl == Mod(h + size, c)
           first == Least(c - tl, len)
           sh == IF size + len <= c THEN 0 ELSE size + len - c
<1>1. CASE len >= c
  <2>1. buf' = MemCpy(b, 0, data, len - c, c) /\ head' = 0 /\ size' = c
    BY <1>1 DEF Store
  <2>2. Least(size + len, c) = c
    BY <1>1 DEF Least
  <2>3. buf' \in [0 .. c - 1 -> 0 .. written + len] /\ Holds(buf', 0, c, c, written + len)
    BY <1>1, <2>1, StoredLong
  <2> QED BY <2>1, <2>2, <2>3
<1>2. CASE len < c
  <2>1. (h + size) % c = tl /\ tl \in 0 .. c - 1
    <3>1. h + size \in Nat /\ h + size < 2 * c
      OBVIOUS
    <3> QED BY <3>1, Wrap DEF Mod
  <2>2. /\ buf' = MemCpy(MemCpy(b, tl, data, 0, first), 0, data, first, len - first)
        /\ head' = IF size + len <= c THEN h ELSE (h + (size + len - c)) % c
        /\ size' = Least(size + len, c)
    BY <1>2, <2>1 DEF Store
  <2>3. sh \in Nat /\ sh < c /\ sh <= size /\ Least(size + len, c) = size + len - sh
    BY <1>2 DEF Least
  <2>4. head' = Mod(h + sh, c) /\ head' \in 0 .. c - 1
    <3>1. CASE size + len <= c
      BY <2>2, <3>1 DEF Mod
    <3>2. CASE size + len > c
      <4>1. head' = (h + sh) % c
        BY <2>2, <3>2
      <4>2. h + sh \in Nat /\ h + sh < 2 * c
        BY <2>3
      <4> HIDE DEF sh
      <4> QED BY <4>1, <4>2, Wrap DEF Mod
    <3> QED BY <3>1, <3>2
  <2>5. first \in 1 .. len /\ first <= c - tl
    BY <1>2, <2>1 DEF Least
  <2>6. len \in 1 .. c - 1
    BY <1>2
  <2>7. /\ buf' \in [0 .. c - 1 -> 0 .. written + len]
        /\ Pieces(buf', b, c, tl, first, len, written)
    BY <2>1, <2>2, <2>5, <2>6, Cells
  <2>8. Holds(buf', head', c, size + len - sh, written + len)
    <3>1. tl \in Nat /\ first \in Nat /\ head' \in Nat
      BY <2>1, <2>4, <2>5
    <3> QED BY <2>3, <2>4, <2>6, <2>7, <3>1, StoredShort
  <2> QED BY <2>2, <2>3, <2>4, <2>7, <2>8
<1> QED BY <1>1, <1>2

IInv == TypeOK /\ HoldsTheTail /\ LosesNothingEarly

\* What one write does, besides keeping the invariant.
LEMMA WriteStep ==
  ASSUME IInv, NEW len \in 1 .. MaxWrites, Write(len)
  PROVE  IInv' /\ cap' >= cap /\ size' >= size /\ (size' = size => size = cap')
<1> USE RingAssumption
<1>0. /\ len \in Nat /\ len > 0 /\ written' = written + len /\ written \in Nat
      /\ cap \in Nat /\ cap > 0 /\ cap <= MaxCap /\ MaxCap \in Nat
      /\ size \in 0 .. cap /\ size <= written /\ head \in 0 .. cap - 1
      /\ Holds(buf, head, cap, size, written)
  BY TailHeld DEF IInv, TypeOK, Write
<1>1. PICK c \in cap .. MaxCap :
        /\ cap' = c
        /\ \/ c = cap /\ (failed' = TRUE \/ size + len <= cap \/ cap = MaxCap)
           \/ c >= Least(size + len, MaxCap)
        /\ failed' \in BOOLEAN /\ (failed => failed')
        /\ \E h \in 0 .. c - 1, b \in [0 .. c - 1 -> 0 .. written] :
             Holds(b, h, c, size, written) /\ Store(b, h, len)
  <2>1. CASE NoGrow(size + len) /\ Store(buf, head, len)
    <3>1. cap' = cap /\ (failed' = TRUE \/ size + len <= cap \/ cap = MaxCap)
          /\ failed' \in BOOLEAN /\ (failed => failed')
      <4>1. failed \in BOOLEAN
        BY DEF IInv, TypeOK
      <4>2. cap' = cap
        BY <2>1 DEF NoGrow
      <4>3. CASE failed' = failed
        <5>1. size + len <= cap \/ cap >= MaxCap \/ failed' = TRUE
          BY <2>1 DEF NoGrow
        <5>2. size + len <= cap \/ cap = MaxCap \/ failed' = TRUE
          BY <1>0, <5>1
        <5> QED BY <4>1, <4>2, <4>3, <5>2, Zenon
      <4>4. CASE failed' = TRUE
        BY <4>2, <4>4, Zenon
      <4> QED BY <2>1, <4>3, <4>4 DEF NoGrow
    <3>2. buf \in [0 .. cap - 1 -> 0 .. written] /\ cap \in cap .. MaxCap
      BY <1>0 DEF IInv, TypeOK
    <3> QED BY <1>0, <2>1, <3>1, <3>2
  <2>2. ASSUME NEW nc \in cap .. MaxCap, Grow(nc, size + len), Store(Relaid(nc), 0, len),
               UNCHANGED failed
        PROVE  /\ cap' = nc /\ nc >= Least(size + len, MaxCap)
               /\ Relaid(nc) \in [0 .. nc - 1 -> 0 .. written]
               /\ Holds(Relaid(nc), 0, nc, size, written) /\ 0 \in 0 .. nc - 1
    <3>1. cap' = nc /\ nc >= Least(size + len, MaxCap) /\ 0 \in 0 .. nc - 1
      BY <1>0, <2>2 DEF Grow, Doubled
    <3>2. /\ Relaid(nc) \in [0 .. nc - 1 -> 0 .. written]
          /\ \A i \in 0 .. size - 1 : Relaid(nc)[i] = At(i)
      BY Relayout DEF IInv
    <3>3. \A i \in 0 .. size - 1 : Relaid(nc)[i] = written - size + i + 1
      BY <3>2 DEF IInv, HoldsTheTail
    <3>4. \A i \in 0 .. size - 1 : Mod(0 + i, nc) = i
      BY <1>0 DEF Mod
    <3>5. Holds(Relaid(nc), 0, nc, size, written)
      BY <3>3, <3>4 DEF Holds
    <3> QED BY <3>1, <3>2, <3>5
  <2>3. CASE \E nc \in cap .. MaxCap : Grow(nc, size + len) /\ Store(Relaid(nc), 0, len) /\ UNCHANGED failed
    <3>1. PICK nc \in cap .. MaxCap :
            Grow(nc, size + len) /\ Store(Relaid(nc), 0, len) /\ UNCHANGED failed
      BY <2>3
    <3>2. /\ cap' = nc /\ nc >= Least(size + len, MaxCap)
          /\ Relaid(nc) \in [0 .. nc - 1 -> 0 .. written]
          /\ Holds(Relaid(nc), 0, nc, size, written) /\ 0 \in 0 .. nc - 1
      BY <2>2, <3>1
    <3>3. failed' \in BOOLEAN /\ (failed => failed')
      BY <3>1 DEF IInv, TypeOK
    <3> QED BY <3>1, <3>2, <3>3
  <2> QED BY <2>1, <2>3 DEF Write
<1>2. PICK h \in 0 .. c - 1, b \in [0 .. c - 1 -> 0 .. written] :
        Holds(b, h, c, size, written) /\ Store(b, h, len)
  BY <1>1
<1>3. c \in Nat /\ c > 0 /\ c >= cap /\ c <= MaxCap /\ size \in 0 .. c
  BY <1>0, <1>1
<1>4. /\ buf' \in [0 .. c - 1 -> 0 .. written'] /\ head' \in 0 .. c - 1
      /\ size' = Least(size + len, c)
      /\ Holds(buf', head', c, size', written')
  BY <1>0, <1>1, <1>2, <1>3, Stored
<1>5. size' \in 0 .. c /\ size' >= size /\ (size' = size => size = c) /\ size' <= written'
  BY <1>0, <1>3, <1>4 DEF Least
<1>6. TypeOK'
  <2>1. /\ cap' \in 1 .. MaxCap /\ size' \in 0 .. cap' /\ head' \in 0 .. cap' - 1
        /\ written' \in Nat /\ size' <= written'
    BY <1>0, <1>1, <1>3, <1>4, <1>5
  <2>2. buf' \in [0 .. cap' - 1 -> 0 .. written'] /\ failed' \in BOOLEAN
    BY <1>1, <1>4, Zenon
  <2> QED BY <2>1, <2>2, Zenon DEF TypeOK
<1>7. HoldsTheTail'
  <2>1. \A i \in 0 .. size' - 1 : (head' + i) % c = Mod(head' + i, c)
    BY ONLY <1>3, <1>4, <1>5, Remainders
  <2>2. \A i \in 0 .. size' - 1 : buf'[(head' + i) % cap'] = written' - size' + i + 1
    BY <1>1, <1>4, <2>1 DEF Holds
  <2> QED BY <2>2 DEF HoldsTheTail, At
<1>8. LosesNothingEarly'
  <2> SUFFICES ASSUME ~failed' PROVE size' = Least(written', MaxCap)
    BY DEF LosesNothingEarly
  <2>1. size = Least(written, MaxCap)
    BY <1>1 DEF IInv, LosesNothingEarly
  <2>2. c >= Least(size + len, MaxCap)
    BY <1>0, <1>1, <1>3 DEF Least
  <2>3. size' = Least(size + len, MaxCap)
    BY <1>0, <1>3, <1>4, <2>2 DEF Least
  <2> QED BY <1>0, <2>1, <2>3 DEF Least
<1> QED BY <1>1, <1>3, <1>5, <1>6, <1>7, <1>8 DEF IInv

LEMMA Inductive == Spec => []IInv
<1>1. Init => IInv
  <2> SUFFICES ASSUME Init PROVE IInv
    OBVIOUS
  <2>1. cap \in 1 .. MaxCap /\ size = 0 /\ head = 0 /\ written = 0 /\ failed = FALSE
    BY RingAssumption DEF Init, Least
  <2>2. buf \in [0 .. cap - 1 -> 0 .. written]
    BY <2>1 DEF Init, Fresh, Junk
  <2>3. TypeOK
    <3>1. size \in 0 .. cap /\ head \in 0 .. cap - 1 /\ written \in Nat /\ size <= written
      BY <2>1, RingAssumption
    <3> QED BY <2>1, <2>2, <3>1, Zenon DEF TypeOK
  <2>4. HoldsTheTail /\ LosesNothingEarly
    BY <2>1, RingAssumption DEF HoldsTheTail, LosesNothingEarly, Least
  <2> QED BY <2>3, <2>4 DEF IInv
<1>2. ASSUME IInv, UNCHANGED vars PROVE IInv'
  BY <1>2 DEF IInv, vars, TypeOK, HoldsTheTail, At, LosesNothingEarly
<1>3. IInv /\ [Next]_vars => IInv'
  BY <1>2, WriteStep DEF Next
<1> QED BY <1>1, <1>3, PTL DEF Spec

\* After any writes the ring holds the last bytes written, in order.
THEOREM RingCorrect == Spec => []HoldsTheTail
<1>1. IInv => HoldsTheTail
  BY DEF IInv
<1> QED BY <1>1, Inductive, PTL

\* With no failed allocation it holds as many bytes as a ring that had its
\* full size from the start.
THEOREM GrowthIsFree == Spec => []LosesNothingEarly
<1>1. IInv => LosesNothingEarly
  BY DEF IInv
<1> QED BY <1>1, Inductive, PTL

\* A write never shrinks the ring, and drops old bytes only when it is full.
THEOREM RingGrows == Spec => NeverShrinks
<1>1. IInv /\ [Next]_vars => [cap' >= cap /\ size' >= size /\ (size' = size => size = cap')]_vars
  BY WriteStep DEF Next
<1> QED BY <1>1, Inductive, PTL DEF Spec, NeverShrinks

\* What ATTACH replays and PEEK returns is the tail of the output.
THEOREM SnapshotsCorrect == Spec => []SnapshotsAreTheTail
<1>1. IInv => SnapshotsAreTheTail
  <2> SUFFICES ASSUME IInv PROVE SnapshotsAreTheTail
    OBVIOUS
  <2>0. /\ TypeOK /\ cap \in Nat /\ cap > 0 /\ size \in Nat /\ size <= cap
        /\ head \in 0 .. cap - 1 /\ written \in Nat
    BY RingAssumption DEF IInv, TypeOK
  <2>1. ASSUME NEW n \in 0 .. size
        PROVE  Linear(Fresh(n), (head + (size - n)) % cap, n) =
                 [i \in 0 .. n - 1 |-> written - n + i + 1]
    <3>1. PICK at \in 0 .. cap - 1 : at = (head + (size - n)) % cap
      <4>1. head + (size - n) \in Nat /\ head + (size - n) < 2 * cap
        BY <2>0
      <4> QED BY <2>0, <4>1, Wrap
    <3>2. at = Mod(head + (size - n), cap)
      <4>1. head + (size - n) \in Nat /\ head + (size - n) < 2 * cap
        BY <2>0
      <4> QED BY <2>0, <3>1, <4>1, Wrap DEF Mod
    <3>3. /\ Linear(Fresh(n), at, n) \in [0 .. n - 1 -> 0 .. written]
          /\ \A i \in 0 .. n - 1 : Linear(Fresh(n), at, n)[i] = buf[(at + i) % cap]
      <4>1. n \in Nat /\ n \in 0 .. n /\ n <= cap
        BY <2>0
      <4> QED BY ONLY <2>0, <4>1, at \in 0 .. cap - 1, LinearCopy
    <3>4. ASSUME NEW i \in 0 .. n - 1
          PROVE  Linear(Fresh(n), at, n)[i] = written - n + i + 1
      <4>1. size - n + i \in 0 .. size - 1 /\ at + i \in Nat /\ at + i < 2 * cap
        BY <2>0
      <4>2. (at + i) % cap = Mod(at + i, cap)
        BY <2>0, <4>1, Wrap DEF Mod
      <4>3. Mod(at + i, cap) = Mod(head + (size - n + i), cap)
        BY <2>0, <3>2 DEF Mod
      <4>4. buf[Mod(head + (size - n + i), cap)] = written - size + (size - n + i) + 1
        BY <2>0, <4>1, TailHeld DEF IInv, Holds
      <4>5. Linear(Fresh(n), at, n)[i] = written - size + (size - n + i) + 1
        BY <3>3, <4>2, <4>3, <4>4
      <4> QED BY <2>0, <4>5
    <3> QED BY <3>1, <3>3, <3>4
  <2>2. Snapshot = [i \in 0 .. size - 1 |-> written - size + i + 1]
    <3>1. (head + (size - size)) % cap = head /\ size \in 0 .. size
      <4>1. head + (size - size) = head /\ head \in Nat /\ head < 2 * cap /\ head < cap
        BY <2>0
      <4> QED BY <2>0, <4>1, Wrap
    <3> QED BY <2>1, <3>1 DEF Snapshot
  <2>3. \A m \in 0 .. MaxCap + 1 : TailLen(m) \in 0 .. size
    BY <2>0, RingAssumption DEF TailLen, Least
  <2> QED BY <2>1, <2>2, <2>3 DEF SnapshotsAreTheTail, SnapshotTail
<1> QED BY <1>1, Inductive, PTL
=============================================================================
