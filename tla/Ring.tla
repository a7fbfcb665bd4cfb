-------------------------------- MODULE Ring --------------------------------
(***************************************************************************)
(* The circular buffer that keeps a session's most recent PTY output       *)
(* (daemon/ring.c): it doubles on demand up to a ceiling, then overwrites  *)
(* its oldest bytes.  Growing allocates memory, which may fail.            *)
(*                                                                         *)
(* The i-th byte ever written is represented by its number i, so a buffer  *)
(* that holds the right numbers holds the right bytes, whatever they are.  *)
(***************************************************************************)
EXTENDS Integers, FiniteSets

CONSTANTS
  MaxCap,    \* the ceiling, EPI_RING_CAP
  InitCap,   \* the first allocation, EPI_RING_INIT_CAP
  MaxWrites  \* bound: bytes written in one behaviour

ASSUME RingAssumption ==
  MaxCap \in Nat \ {0} /\ InitCap \in Nat \ {0} /\ MaxWrites \in Nat

VARIABLES
  buf, cap, head, size,  \* the fields of epi_ring
  written,               \* history: bytes ever written
  failed                 \* history: an allocation has failed

vars == <<buf, cap, head, size, written, failed>>

Least(a, b) == IF a <= b THEN a ELSE b

Junk == 0   \* a cell that was never written

-----------------------------------------------------------------------------
\* memcpy(dst + at, src + from, n).
MemCpy(dst, at, src, from, n) ==
  [i \in DOMAIN dst |-> IF i >= at /\ i < at + n THEN src[from + i - at] ELSE dst[i]]

Fresh(n) == [i \in 0 .. n - 1 |-> Junk]

\* Copying n bytes out of the ring from index at, in one piece or two.
Linear(out, at, n) ==
  LET first == cap - at IN
  IF first >= n THEN MemCpy(out, 0, buf, at, n)
                ELSE MemCpy(MemCpy(out, 0, buf, at, first), first, buf, 0, n - first)

\* epi_ring_snapshot and epi_ring_snapshot_tail, where malloc succeeds.
Snapshot == Linear(Fresh(size), head, size)

TailLen(maxBytes) == Least(size, maxBytes)

\* Mutant of SnapshotTail: the oldest bytes instead of the newest.
SnapshotHead(maxBytes) ==
  LET n == TailLen(maxBytes) IN Linear(Fresh(n), head, n)

SnapshotTail(maxBytes) ==
  LET n == TailLen(maxBytes) IN
  Linear(Fresh(n), (head + (size - n)) % cap, n)

-----------------------------------------------------------------------------
Init ==
  /\ cap = Least(MaxCap, InitCap)
  /\ buf = Fresh(cap)
  /\ head = 0 /\ size = 0 /\ written = 0 /\ failed = FALSE

\* Mutant of Doubled: one doubling, whatever is needed.
DoubledOnce(nc, need) == nc = Least(cap * 2, MaxCap)

\* nc is where doubling cap until need fits, or the ceiling, ends.
Doubled(nc, need) ==
  LET goal == Least(need, MaxCap) IN
  \E k \in 0 .. need :
    /\ nc = Least(cap * 2^k, MaxCap)
    /\ nc >= goal
    /\ k > 0 => cap * 2^(k - 1) < goal

\* ring_grow enlarges the ring: realloc, or a copy into a linear layout if
\* the ring has wrapped.
Grow(nc, need) ==
  /\ need > cap /\ cap < MaxCap
  /\ Doubled(nc, need)
  /\ cap' = nc

\* Mutant of Relaid: realloc keeps the layout of a ring that has wrapped.
RelaidAsIs(nc) == MemCpy(Fresh(nc), 0, buf, 0, cap)

Relaid(nc) ==
  IF head = 0 THEN MemCpy(Fresh(nc), 0, buf, 0, cap)
              ELSE Linear(Fresh(nc), head, size)

\* ring_grow leaves the ring alone: it fits, is at the ceiling, or malloc
\* fails.
NoGrow(need) ==
  /\ cap' = cap
  /\ \/ (need <= cap \/ cap >= MaxCap) /\ UNCHANGED failed
     \/ need > cap /\ cap < MaxCap /\ failed' = TRUE

\* Mutant of Store: a write that does not fit starts the ring afresh.
StoreAfresh(b, h, len) ==
  LET data  == [i \in 0 .. len - 1 |-> written + i + 1]
      tail  == (h + size) % cap'
  IN  /\ len < cap' /\ len <= cap' - tail
      /\ buf' = MemCpy(b, tail, data, 0, len)
      /\ head' = IF size + len <= cap' THEN h ELSE tail
      /\ size' = IF size + len <= cap' THEN size + len ELSE len

\* epi_ring_write after ring_grow has left b as the buffer and h as its head;
\* cap' is its capacity.  data[i] is the i-th new byte.
Store(b, h, len) ==
  LET data  == [i \in 0 .. len - 1 |-> written + i + 1]
      tail  == (h + size) % cap'
      first == Least(cap' - tail, len)
  IN  IF len >= cap'
      THEN /\ buf' = MemCpy(b, 0, data, len - cap', cap')
           /\ head' = 0
           /\ size' = cap'
      ELSE /\ buf' = MemCpy(MemCpy(b, tail, data, 0, first), 0, data, first, len - first)
           /\ head' = IF size + len <= cap' THEN h ELSE (h + (size + len - cap')) % cap'
           /\ size' = Least(size + len, cap')

Write(len) ==
  /\ len > 0 /\ written + len <= MaxWrites
  /\ written' = written + len
  /\ \/ NoGrow(size + len) /\ Store(buf, head, len)
     \/ /\ \E nc \in cap .. MaxCap : Grow(nc, size + len) /\ Store(Relaid(nc), 0, len)
        /\ UNCHANGED failed

Next == \E len \in 1 .. MaxWrites : Write(len)

Spec == Init /\ [][Next]_vars

-----------------------------------------------------------------------------
(* Properties *)

\* Every variable has its type: the indices of epi_ring stay within cap.
TypeOK ==
  /\ cap \in 1 .. MaxCap /\ size \in 0 .. cap /\ head \in 0 .. cap - 1
  /\ written \in Nat /\ size <= written
  /\ buf \in [0 .. cap - 1 -> 0 .. written]
  /\ failed \in BOOLEAN

\* The byte at logical position i, oldest first.
At(i) == buf[(head + i) % cap]

\* However the ring grew, wrapped, was laid out again or failed to grow, it
\* holds the last size bytes written, in order.
HoldsTheTail == \A i \in 0 .. size - 1 : At(i) = written - size + i + 1

\* The snapshots an ATTACH replays and a PEEK returns are that tail, whole
\* and in order (epi_ring_snapshot, epi_ring_snapshot_tail).
SnapshotsAreTheTail ==
  /\ Snapshot = [i \in 0 .. size - 1 |-> written - size + i + 1]
  /\ \A m \in 0 .. MaxCap + 1 :
       LET n == TailLen(m) IN SnapshotTail(m) = [i \in 0 .. n - 1 |-> written - n + i + 1]

\* If no allocation failed, the ring is as good as one allocated at the
\* ceiling: it discards a byte only when MaxCap newer ones exist (ring.h).
LosesNothingEarly == ~failed => size = Least(written, MaxCap)

\* Nothing a snapshot could show is lost except to newer bytes: neither the
\* ring nor what it holds ever shrinks, even when growing fails.
NeverShrinks == [][cap' >= cap /\ size' >= size /\ (size' = size => size = cap')]_vars
=============================================================================
