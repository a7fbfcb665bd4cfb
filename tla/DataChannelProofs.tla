-------------------------- MODULE DataChannelProofs --------------------------
(***************************************************************************)
(* For any number of connections, any chunk, socket and buffer size and    *)
(* any amount of output: what a client is given is one continuous stream,  *)
(* EOF comes after all of it, and bytes that wait are watched.             *)
(***************************************************************************)
EXTENDS DataChannel, SequenceTheorems, TLAPS

Byte == 0 .. MaxOut

-----------------------------------------------------------------------------
(* The invariant *)

\* Facts about connection c that the order of the daemon's steps rests on.
Unused(c) ==
  state[c] = "new" => /\ wbuf[c] = <<>> /\ sock[c] = <<>> /\ got[c] = <<>>
                      /\ ~shut[c] /\ ~wantClose[c] /\ ~evicted[c] /\ ~eof[c]
                      /\ ~dropped[c] /\ ~lagged[c]

Attached(c) == client = c <=> state[c] = "open" /\ ~evicted[c]

\* A socket is shut down by an eviction, or empty at the end of the output.
WhyShut(c) ==
  /\ evicted[c] => shut[c]
  /\ shut[c] => evicted[c] \/ (~ptyOpen /\ wbuf[c] = <<>>)

WhyClosing(c) ==
  /\ wantClose[c] => evicted[c] \/ dropped[c] \/ lagged[c] \/ ~peer[c] \/ ~ptyOpen
  /\ state[c] = "closed" => wbuf[c] = <<>>

\* A connection closed at the end of the output was given all of it.
ClosedIsFull(c) ==
  state[c] = "closed" /\ ~evicted[c] /\ ~dropped[c] /\ ~lagged[c] /\ (peer[c] \/ eof[c])
    => ~ptyOpen /\ Len(Stream(c)) = 1 + out - Before(c)

EofIsLast(c) == eof[c] => sock[c] = <<>> /\ (shut[c] \/ state[c] = "closed")

Continuous(c) ==
  state[c] # "new" /\ ~dropped[c] =>
    /\ Stream(c) = <<0>> \o Bytes(Before(c), Before(c) + Len(Stream(c)) - 1)
    /\ client = c => Len(Stream(c)) = 1 + out - Before(c)

Watched(c) ==
  state[c] = "open" /\ wbuf[c] # <<>> /\ ~Broken(c) => interest[c] \/ (dropped[c] /\ wantClose[c])

Bounded(c) == Len(sock[c]) <= SockCap /\ Before(c) <= out

ConnInv(c) ==
  /\ Unused(c) /\ Attached(c) /\ WhyShut(c) /\ WhyClosing(c) /\ ClosedIsFull(c)
  /\ EofIsLast(c) /\ Continuous(c) /\ Watched(c) /\ Bounded(c)

PtyInv == ~ptyOpen => ~slaveOpen /\ out = made

-----------------------------------------------------------------------------
(* Streams of bytes *)

LEMMA LeastFact ==
  ASSUME NEW a \in Nat, NEW b \in Nat
  PROVE  Least(a, b) \in Nat /\ Least(a, b) <= a /\ Least(a, b) <= b
  BY DEF Least

LEMMA BytesFact ==
  ASSUME NEW m \in Nat, NEW n \in Nat, m <= n, n <= MaxOut
  PROVE  /\ Bytes(m, n) \in Seq(Byte) /\ Len(Bytes(m, n)) = n - m
         /\ \A i \in 1 .. n - m : Bytes(m, n)[i] = m + i
<1>0. MaxOut \in Nat
  BY ChannelAssumption
<1>1. n - m \in Nat /\ \A i \in 1 .. n - m : m + i \in Byte
  BY <1>0 DEF Byte
<1>2. Bytes(m, n) \in [1 .. n - m -> Byte]
  BY <1>1 DEF Bytes
<1>3. Bytes(m, n) \in Seq(Byte)
  BY <1>1, <1>2, SeqDef
<1>4. Len(Bytes(m, n)) = n - m
  BY <1>1, <1>2, <1>3, LenProperties
<1> QED BY <1>1, <1>3, <1>4 DEF Bytes

LEMMA BytesJoin ==
  ASSUME NEW b \in Nat, NEW m \in Nat, NEW n \in Nat, b <= m, m <= n, n <= MaxOut
  PROVE  Bytes(b, m) \o Bytes(m, n) = Bytes(b, n)
<1>0. MaxOut \in Nat
  BY ChannelAssumption
<1>1. /\ Bytes(b, m) \in Seq(Byte) /\ Len(Bytes(b, m)) = m - b
      /\ \A i \in 1 .. m - b : Bytes(b, m)[i] = b + i
  BY <1>0, BytesFact
<1>2. /\ Bytes(m, n) \in Seq(Byte) /\ Len(Bytes(m, n)) = n - m
      /\ \A i \in 1 .. n - m : Bytes(m, n)[i] = m + i
  BY <1>0, BytesFact
<1>3. /\ Bytes(b, n) \in Seq(Byte) /\ Len(Bytes(b, n)) = n - b
      /\ \A i \in 1 .. n - b : Bytes(b, n)[i] = b + i
  BY <1>0, BytesFact
<1> DEFINE joined == Bytes(b, m) \o Bytes(m, n)
<1>4. /\ joined \in Seq(Byte) /\ Len(joined) = (m - b) + (n - m)
      /\ \A i \in 1 .. (m - b) + (n - m) :
           joined[i] = IF i <= m - b THEN Bytes(b, m)[i] ELSE Bytes(m, n)[i - (m - b)]
  <2>1. /\ joined \in Seq(Byte) /\ Len(joined) = Len(Bytes(b, m)) + Len(Bytes(m, n))
        /\ \A i \in 1 .. Len(Bytes(b, m)) + Len(Bytes(m, n)) :
             joined[i] = IF i <= Len(Bytes(b, m)) THEN Bytes(b, m)[i]
                                                  ELSE Bytes(m, n)[i - Len(Bytes(b, m))]
    BY <1>1, <1>2, ConcatProperties, Zenon
  <2> QED BY <1>1, <1>2, <2>1, Zenon
<1>5. \A i \in 1 .. n - b : joined[i] = b + i
  <2> SUFFICES ASSUME NEW i \in 1 .. n - b PROVE joined[i] = b + i
    OBVIOUS
  <2> HIDE DEF joined
  <2>0. i \in 1 .. (m - b) + (n - m)
    OBVIOUS
  <2>1. CASE i <= m - b
    BY <1>1, <1>4, <2>0, <2>1
  <2>2. CASE i > m - b
    <3>1. i - (m - b) \in 1 .. n - m
      BY <2>2
    <3>2. joined[i] = Bytes(m, n)[i - (m - b)]
      BY <1>4, <2>0, <2>2
    <3>3. Bytes(m, n)[i - (m - b)] = m + (i - (m - b))
      BY <1>2, <3>1
    <3> QED BY <3>2, <3>3
  <2> QED BY <2>1, <2>2
<1>6. Len(joined) = n - b
  BY <1>4
<1> HIDE DEF joined
<1>7. joined = Bytes(b, n)
  BY <1>3, <1>4, <1>5, <1>6, SeqEqual
<1> QED BY <1>7 DEF joined

LEMMA Regroup ==
  ASSUME NEW g \in Seq(Byte), NEW s \in Seq(Byte), NEW a \in Seq(Byte), NEW b \in Seq(Byte)
  PROVE  (g \o (s \o a)) \o b = (g \o s) \o (a \o b)
<1>1. g \o (s \o a) = (g \o s) \o a
  BY ConcatAssociative
<1>2. g \o s \in Seq(Byte)
  BY ConcatProperties
<1>3. \A x \in Seq(Byte) : (x \o a) \o b = x \o (a \o b)
  BY ConcatAssociative
<1> QED BY <1>1, <1>2, <1>3

\* y appended to the last part of a stream is appended to the stream.
Extended(g, s, x, y) == (g \o s) \o (x \o y) = ((g \o s) \o x) \o y

LEMMA Extend ==
  ASSUME NEW g \in Seq(Byte), NEW s \in Seq(Byte), NEW x \in Seq(Byte), NEW y \in Seq(Byte)
  PROVE  Extended(g, s, x, y)
<1>1. \A e \in Seq(Byte) : (e \o x) \o y = e \o (x \o y)
  BY ConcatAssociative
<1>2. g \o s \in Seq(Byte)
  BY ConcatProperties
<1> QED BY <1>1, <1>2 DEF Extended

\* The replay is the ATTACHED frame and the output since byte b.
LEMMA ReplayFact ==
  ASSUME NEW b \in Nat, NEW n \in Nat, b <= n, n <= MaxOut
  PROVE  /\ <<0>> \o Bytes(b, n) \in Seq(Byte)
         /\ Len(<<0>> \o Bytes(b, n)) = 1 + n - b
<1>0. MaxOut \in Nat
  BY ChannelAssumption
<1>1. Bytes(b, n) \in Seq(Byte) /\ Len(Bytes(b, n)) = n - b
  BY <1>0, BytesFact
<1>2. <<0>> \in Seq(Byte) /\ Len(<<0>>) = 1
  BY <1>0 DEF Byte
<1> QED BY <1>1, <1>2, ConcatProperties

LEMMA ReplayGrows ==
  ASSUME NEW b \in Nat, NEW m \in Nat, NEW n \in Nat, b <= m, m <= n, n <= MaxOut
  PROVE  (<<0>> \o Bytes(b, m)) \o Bytes(m, n) = <<0>> \o Bytes(b, n)
<1>0. MaxOut \in Nat
  BY ChannelAssumption
<1>1. <<0>> \in Seq(Byte)
  BY <1>0 DEF Byte
<1>2. Bytes(b, m) \in Seq(Byte) /\ Bytes(m, n) \in Seq(Byte)
  BY <1>0, BytesFact
<1>3. (<<0>> \o Bytes(b, m)) \o Bytes(m, n) = <<0>> \o (Bytes(b, m) \o Bytes(m, n))
  BY <1>1, <1>2, ConcatAssociative
<1> QED BY <1>3, BytesJoin

\* Moving the first k bytes of w to the end of s leaves g, s, w one stream.
LEMMA FlushKeeps ==
  ASSUME NEW g \in Seq(Byte), NEW s \in Seq(Byte), NEW w \in Seq(Byte), NEW k \in 0 .. Len(w)
  PROVE  /\ SubSeq(w, 1, k) \in Seq(Byte) /\ Len(SubSeq(w, 1, k)) = k
         /\ SubSeq(w, k + 1, Len(w)) \in Seq(Byte)
         /\ Len(SubSeq(w, k + 1, Len(w))) = Len(w) - k
         /\ (g \o (s \o SubSeq(w, 1, k))) \o SubSeq(w, k + 1, Len(w)) = (g \o s) \o w
<1> DEFINE first == SubSeq(w, 1, k)
           rest == SubSeq(w, k + 1, Len(w))
<1>0. Len(w) \in Nat /\ \A i \in 1 .. Len(w) : w[i] \in Byte
  BY LenProperties, ElementOfSeq
<1>1. \A i \in 1 .. k : w[i] \in Byte
  BY <1>0
<1>2. \A i \in k + 1 .. Len(w) : w[i] \in Byte
  BY <1>0
<1>3. first \in Seq(Byte) /\ Len(first) = k
  <2>1. 1 \in Int /\ k \in Int
    BY <1>0
  <2> QED BY <1>0, <1>1, <2>1, SubSeqProperties
<1>4. rest \in Seq(Byte) /\ Len(rest) = Len(w) - k
  <2>1. k + 1 \in Int /\ Len(w) \in Int
    BY <1>0
  <2> QED BY <1>0, <1>2, <2>1, SubSeqProperties
<1>5. first \o rest = w
  <2>1. 1 \in 1 .. Len(w) + 1 /\ k \in 1 - 1 .. Len(w) /\ Len(w) \in k .. Len(w)
    BY <1>0
  <2>2. first \o rest = SubSeq(w, 1, Len(w))
    BY <2>1, ConcatAdjacentSubSeq
  <2> QED BY <2>2, SubSeqFull
<1> HIDE DEF first, rest
<1>6. (g \o (s \o first)) \o rest = (g \o s) \o (first \o rest)
  <2>1. \A a, b \in Seq(Byte) : (g \o (s \o a)) \o b = (g \o s) \o (a \o b)
    BY Regroup
  <2> QED BY <1>3, <1>4, <2>1
<1> QED BY <1>3, <1>4, <1>5, <1>6 DEF first, rest

\* So does moving the first byte of s to the end of g.
LEMMA ReadKeeps ==
  ASSUME NEW g \in Seq(Byte), NEW s \in Seq(Byte), s # <<>>
  PROVE  /\ Append(g, Head(s)) \in Seq(Byte) /\ Tail(s) \in Seq(Byte)
         /\ Len(Tail(s)) <= Len(s)
         /\ Append(g, Head(s)) \o Tail(s) = g \o s
<1>1. Head(s) \in Byte /\ Tail(s) \in Seq(Byte) /\ Len(Tail(s)) = Len(s) - 1 /\ Len(s) \in Nat
  BY HeadTailProperties, LenProperties
<1>2. Append(g, Head(s)) = g \o <<Head(s)>> /\ Append(g, Head(s)) \in Seq(Byte)
  BY <1>1, AppendIsConcat, AppendProperties
<1>3. <<Head(s)>> \in Seq(Byte)
  BY <1>1
<1>4. (g \o <<Head(s)>>) \o Tail(s) = g \o (<<Head(s)>> \o Tail(s))
  BY <1>1, <1>3, ConcatAssociative
<1>5. <<Head(s)>> \o Tail(s) = s
  <2>1. Len(s) \in Nat \ {0}
    BY EmptySeq
  <2>2. SubSeq(s, 1, Len(s)) = <<s[1]>> \o SubSeq(s, 1 + 1, Len(s))
    BY <2>1, SubSeqRecursiveFirst
  <2>3. Tail(s) = SubSeq(s, 2, Len(s)) /\ SubSeq(s, 1, Len(s)) = s
    BY TailIsSubSeq, SubSeqFull
  <2>4. Head(s) = s[1]
    BY <2>1
  <2> QED BY <2>2, <2>3, <2>4
<1> QED BY <1>1, <1>2, <1>4, <1>5

-----------------------------------------------------------------------------
(* Types, and what a flush does *)

TypeParts ==
  /\ made \in 0 .. MaxOut /\ out \in 0 .. made
  /\ slaveOpen \in BOOLEAN /\ ptyOpen \in BOOLEAN
  /\ client \in Conns \union {NoConn}
  /\ state \in [Conns -> {"new", "open", "closed"}]
  /\ wantClose \in [Conns -> BOOLEAN] /\ interest \in [Conns -> BOOLEAN]
  /\ shut \in [Conns -> BOOLEAN] /\ peer \in [Conns -> BOOLEAN] /\ eof \in [Conns -> BOOLEAN]
  /\ evicted \in [Conns -> BOOLEAN] /\ dropped \in [Conns -> BOOLEAN]
  /\ lagged \in [Conns -> BOOLEAN]
  /\ wbuf \in [Conns -> Seq(Byte)] /\ sock \in [Conns -> Seq(Byte)] /\ got \in [Conns -> Seq(Byte)]
  /\ base \in [Conns -> Byte] /\ skipped \in [Conns -> Byte]

LEMMA TypesSplit == TypeOK <=> TypeParts
  BY DEF TypeOK, TypeParts, Byte

LEMMA TypesSplitNext == TypeOK' <=> TypeParts'
  BY DEF TypeOK, TypeParts, Byte

LEMMA Sizes ==
  /\ NoConn \notin Conns /\ MaxOut \in Nat
  /\ SockCap \in Nat /\ SockCap > 0 /\ Chunk \in Nat /\ RingCap \in Nat /\ MaxWbuf \in Nat
  BY ChannelAssumption

LEMMA FlushFact ==
  ASSUME TypeParts, NEW c \in Conns, Bounded(c), NEW w \in Seq(Byte)
  PROVE  /\ Unsent(c, w) \in Seq(Byte)
         /\ SocketAfter(c, w) \in Seq(Byte) /\ Len(SocketAfter(c, w)) <= SockCap
         /\ (got[c] \o SocketAfter(c, w)) \o Unsent(c, w) = (got[c] \o sock[c]) \o w
         /\ Broken(c) /\ sock[c] = <<>> => SocketAfter(c, w) = <<>>
         /\ w = <<>> => Unsent(c, w) = <<>>
<1>0. /\ got[c] \in Seq(Byte) /\ sock[c] \in Seq(Byte)
      /\ Len(w) \in Nat /\ Len(sock[c]) \in Nat /\ Len(sock[c]) <= SockCap
  BY LenProperties DEF TypeParts, Bounded
<1>1. Sent(c, w) \in 0 .. Len(w) /\ Sent(c, w) <= SockCap - Len(sock[c])
  <2>1. SockCap - Len(sock[c]) \in Nat
    BY <1>0, Sizes
  <2>2. CASE Broken(c)
    BY <1>0, <2>1, <2>2 DEF Sent
  <2>3. CASE ~Broken(c)
    <3>1. Sent(c, w) = Least(Len(w), SockCap - Len(sock[c]))
      BY <2>3 DEF Sent
    <3>2. Least(Len(w), SockCap - Len(sock[c])) \in 0 .. Len(w)
      BY <1>0, <2>1 DEF Least
    <3>3. Least(Len(w), SockCap - Len(sock[c])) <= SockCap - Len(sock[c])
      BY <1>0, <2>1 DEF Least
    <3> QED BY <3>1, <3>2, <3>3
  <2> QED BY <2>2, <2>3
<1>2. Broken(c) => Sent(c, w) = 0
  BY DEF Sent
<1> DEFINE k == Sent(c, w)
<1>3. /\ SubSeq(w, 1, k) \in Seq(Byte) /\ Len(SubSeq(w, 1, k)) = k
      /\ SubSeq(w, k + 1, Len(w)) \in Seq(Byte)
      /\ Len(SubSeq(w, k + 1, Len(w))) = Len(w) - k
      /\ (got[c] \o (sock[c] \o SubSeq(w, 1, k))) \o SubSeq(w, k + 1, Len(w)) = (got[c] \o sock[c]) \o w
  <2>1. \A g, s \in Seq(Byte), n \in 0 .. Len(w) :
          /\ SubSeq(w, 1, n) \in Seq(Byte) /\ Len(SubSeq(w, 1, n)) = n
          /\ SubSeq(w, n + 1, Len(w)) \in Seq(Byte)
          /\ Len(SubSeq(w, n + 1, Len(w))) = Len(w) - n
          /\ (g \o (s \o SubSeq(w, 1, n))) \o SubSeq(w, n + 1, Len(w)) = (g \o s) \o w
    BY FlushKeeps
  <2> QED BY <1>0, <1>1, <2>1, Zenon
<1>4. /\ sock[c] \o SubSeq(w, 1, k) \in Seq(Byte)
      /\ Len(sock[c] \o SubSeq(w, 1, k)) = Len(sock[c]) + k
  BY <1>0, <1>3, ConcatProperties
<1>5. Unsent(c, w) = SubSeq(w, k + 1, Len(w)) /\ SocketAfter(c, w) = sock[c] \o SubSeq(w, 1, k)
  BY DEF Unsent, SocketAfter
<1>6. Broken(c) /\ sock[c] = <<>> => SocketAfter(c, w) = <<>>
  <2>1. Broken(c) /\ sock[c] = <<>> => Len(SocketAfter(c, w)) = 0
    BY <1>2, <1>4, <1>5, EmptySeq
  <2> QED BY <1>4, <1>5, <2>1, EmptySeq
<1>7. w = <<>> => Unsent(c, w) = <<>>
  <2>1. w = <<>> => Len(Unsent(c, w)) = 0
    BY <1>1, <1>3, <1>5, EmptySeq
  <2> QED BY <1>3, <1>5, <2>1, EmptySeq
<1>8. Len(SocketAfter(c, w)) <= SockCap
  BY <1>0, <1>1, <1>4, <1>5, Sizes
<1> QED BY <1>3, <1>4, <1>5, <1>6, <1>7, <1>8

\* The state that belongs to connection k.
Own(k) == <<state[k], wbuf[k], wantClose[k], interest[k], shut[k], sock[k], peer[k], got[k],
            eof[k], base[k], skipped[k], evicted[k], dropped[k], lagged[k]>>

\* A step that does not touch k keeps its invariant, output for others included.
LEMMA Untouched ==
  ASSUME NEW k \in Conns, TypeParts, TypeParts', ConnInv(k), UNCHANGED Own(k),
         client' = k <=> client = k, ptyOpen' => ptyOpen, out <= out',
         out' = out \/ (ptyOpen /\ client # k)
  PROVE  ConnInv(k)'
<1>1. Stream(k)' = Stream(k)
  BY DEF Own, Stream
<1>2. Broken(k)' = Broken(k)
  BY DEF Own, Broken
<1>3. Unused(k)' /\ Attached(k)' /\ WhyShut(k)' /\ WhyClosing(k)' /\ EofIsLast(k)' /\ Watched(k)'
  BY <1>2 DEF ConnInv, Own, Unused, Attached, WhyShut, WhyClosing, EofIsLast, Watched
<1>4. ClosedIsFull(k)'
  BY <1>1 DEF ConnInv, Own, ClosedIsFull, Before
<1>5. Continuous(k)'
  BY <1>1 DEF ConnInv, Own, Continuous, Before
<1>6. Bounded(k)'
  BY DEF ConnInv, Own, Bounded, Before, TypeParts, Byte
<1> QED BY <1>3, <1>4, <1>5, <1>6 DEF ConnInv

-----------------------------------------------------------------------------
(* One lemma per action *)

Inv == TypeParts /\ PtyInv /\ \A k \in Conns : ConnInv(k)

LEMMA InitInv == Init => Inv
<1> SUFFICES ASSUME Init PROVE Inv
  OBVIOUS
<1>1. <<>> \in Seq(Byte) /\ 0 \in Byte /\ Len(<<>>) = 0
  BY Sizes DEF Byte
<1>2. TypeParts
  BY <1>1, Sizes DEF Init, TypeParts
<1>3. PtyInv
  BY DEF Init, PtyInv
<1>4. ASSUME NEW k \in Conns PROVE ConnInv(k)
  <2>1. Unused(k) /\ Attached(k) /\ WhyShut(k) /\ WhyClosing(k) /\ ClosedIsFull(k)
    BY Sizes DEF Init, Unused, Attached, WhyShut, WhyClosing, ClosedIsFull
  <2>2. EofIsLast(k) /\ Continuous(k) /\ Watched(k) /\ Bounded(k)
    BY <1>1, Sizes DEF Init, EofIsLast, Continuous, Watched, Bounded, Before
  <2> QED BY <2>1, <2>2 DEF ConnInv
<1> QED BY <1>2, <1>3, <1>4 DEF Inv

LEMMA ChildStep == Inv /\ (ChildWrites \/ ChildCloses) => Inv'
<1> SUFFICES ASSUME Inv, ChildWrites \/ ChildCloses PROVE Inv'
  OBVIOUS
<1>1. /\ UNCHANGED <<client, connVars, peerVars, histVars, out, ptyOpen>>
      /\ TypeParts /\ PtyInv /\ \A k \in Conns : ConnInv(k)
  BY DEF Inv, ChildWrites, ChildCloses
<1>2. TypeParts'
  <2>1. made' \in 0 .. MaxOut /\ out' \in 0 .. made' /\ slaveOpen' \in BOOLEAN /\ ptyOpen' \in BOOLEAN
    <3>1. CASE ChildWrites
      BY <1>1, <3>1, Sizes DEF ChildWrites, TypeParts
    <3>2. CASE ChildCloses
      BY <1>1, <3>2 DEF ChildCloses, TypeParts
    <3> QED BY <3>1, <3>2
  <2> QED BY <1>1, <2>1 DEF TypeParts, connVars, peerVars, histVars
<1>3. PtyInv'
  BY <1>1 DEF PtyInv, ChildWrites, ChildCloses
<1>4. ASSUME NEW k \in Conns PROVE ConnInv(k)'
  <2>1. UNCHANGED Own(k) /\ ConnInv(k)
    BY <1>1 DEF Own, connVars, peerVars, histVars
  <2>2. client' = client /\ ptyOpen' = ptyOpen /\ out' = out /\ out <= out'
    BY <1>1 DEF TypeParts
  <2> QED BY <1>1, <1>2, <2>1, <2>2, Untouched
<1> QED BY <1>2, <1>3, <1>4 DEF Inv

LEMMA ClientReadsStep ==
  ASSUME Inv, NEW c \in Conns, ClientReads(c)
  PROVE  Inv'
<1>1. TypeParts /\ PtyInv /\ \A k \in Conns : ConnInv(k)
  BY DEF Inv
<1>2. /\ got' = [got EXCEPT ![c] = Append(@, Head(sock[c]))] /\ sock' = [sock EXCEPT ![c] = Tail(@)]
      /\ UNCHANGED <<made, slaveOpen, out, ptyOpen, client, state, wbuf, wantClose, interest,
                     shut, peer, eof, base, skipped, evicted, dropped, lagged>>
      /\ sock[c] # <<>>
  BY DEF ClientReads, ptyVars, histVars
<1>3. /\ got[c] \in Seq(Byte) /\ sock[c] \in Seq(Byte)
      /\ got'[c] = Append(got[c], Head(sock[c])) /\ sock'[c] = Tail(sock[c])
  BY <1>1, <1>2 DEF TypeParts
<1>4. /\ got'[c] \in Seq(Byte) /\ sock'[c] \in Seq(Byte)
      /\ Len(sock'[c]) <= Len(sock[c]) /\ got'[c] \o sock'[c] = got[c] \o sock[c]
      /\ Len(sock'[c]) \in Nat /\ Len(sock[c]) \in Nat
  <2>1. \A g, s \in Seq(Byte) : s # <<>> =>
          /\ Append(g, Head(s)) \in Seq(Byte) /\ Tail(s) \in Seq(Byte)
          /\ Len(Tail(s)) <= Len(s) /\ Append(g, Head(s)) \o Tail(s) = g \o s
    BY ReadKeeps
  <2>2. /\ got'[c] \in Seq(Byte) /\ sock'[c] \in Seq(Byte)
        /\ Len(sock'[c]) <= Len(sock[c]) /\ got'[c] \o sock'[c] = got[c] \o sock[c]
    BY <1>2, <1>3, <2>1, Zenon
  <2> QED BY <1>3, <2>2, LenProperties
<1>5. TypeParts'
  <2>1. got' \in [Conns -> Seq(Byte)] /\ sock' \in [Conns -> Seq(Byte)]
    BY <1>1, <1>2, <1>3, <1>4 DEF TypeParts
  <2> QED BY <1>1, <1>2, <2>1 DEF TypeParts
<1>6. PtyInv'
  BY <1>1, <1>2 DEF PtyInv
<1>7. ASSUME NEW k \in Conns PROVE ConnInv(k)'
  <2>1. CASE k # c
    <3>1. UNCHANGED Own(k) /\ ConnInv(k)
      BY <1>1, <1>2, <2>1 DEF Own, TypeParts
    <3>2. client' = client /\ ptyOpen' = ptyOpen /\ out' = out /\ out <= out'
      BY <1>1, <1>2 DEF TypeParts
    <3> QED BY <1>1, <1>5, <3>1, <3>2, Untouched
  <2>2. CASE k = c
    <3>1. Stream(c)' = Stream(c)
      BY <1>2, <1>4 DEF Stream
    <3>2. ConnInv(c) /\ Broken(c)' = Broken(c)
      BY <1>1, <1>2 DEF Broken
    <3>3. Unused(c)' /\ Attached(c)' /\ WhyShut(c)' /\ WhyClosing(c)' /\ EofIsLast(c)' /\ Watched(c)'
      BY <1>2, <3>2 DEF ConnInv, Unused, Attached, WhyShut, WhyClosing, EofIsLast, Watched
    <3>4. ClosedIsFull(c)' /\ Continuous(c)'
      BY <1>2, <3>1, <3>2 DEF ConnInv, ClosedIsFull, Continuous, Before
    <3>5. Bounded(c)'
      BY <1>2, <1>4, <3>2, Sizes DEF ConnInv, Bounded, Before
    <3> QED BY <2>2, <3>3, <3>4, <3>5 DEF ConnInv
  <2> QED BY <2>1, <2>2
<1> QED BY <1>5, <1>6, <1>7 DEF Inv

LEMMA ClientReadsEofStep ==
  ASSUME Inv, NEW c \in Conns, ClientReadsEof(c)
  PROVE  Inv'
<1>1. TypeParts /\ PtyInv /\ \A k \in Conns : ConnInv(k)
  BY DEF Inv
<1>2. /\ peer[c] /\ sock[c] = <<>> /\ (shut[c] \/ state[c] = "closed")
      /\ eof' = [eof EXCEPT ![c] = TRUE]
      /\ UNCHANGED <<made, slaveOpen, out, ptyOpen, client, state, wbuf, wantClose, interest,
                     shut, sock, peer, got, base, skipped, evicted, dropped, lagged>>
  BY DEF ClientReadsEof, ptyVars, connVars, histVars
<1>3. TypeParts'
  BY <1>1, <1>2 DEF TypeParts
<1>4. PtyInv'
  BY <1>1, <1>2 DEF PtyInv
<1>5. ASSUME NEW k \in Conns PROVE ConnInv(k)'
  <2>1. CASE k # c
    <3>1. UNCHANGED Own(k) /\ ConnInv(k)
      BY <1>1, <1>2, <2>1 DEF Own, TypeParts
    <3>2. client' = client /\ ptyOpen' = ptyOpen /\ out' = out /\ out <= out'
      BY <1>1, <1>2 DEF TypeParts
    <3> QED BY <1>1, <1>3, <3>1, <3>2, Untouched
  <2>2. CASE k = c
    <3>1. Stream(c)' = Stream(c)
      BY <1>2 DEF Stream
    <3>2. ConnInv(c) /\ Broken(c)' = Broken(c) /\ eof'[c] = TRUE /\ state[c] # "new"
      BY <1>1, <1>2 DEF Broken, TypeParts, ConnInv, Unused
    <3>3. Unused(c)' /\ Attached(c)' /\ WhyShut(c)' /\ WhyClosing(c)' /\ EofIsLast(c)' /\ Watched(c)'
      BY <1>2, <3>2 DEF ConnInv, Unused, Attached, WhyShut, WhyClosing, EofIsLast, Watched
    <3>4. ClosedIsFull(c)' /\ Continuous(c)'
      BY <1>2, <3>1, <3>2 DEF ConnInv, ClosedIsFull, Continuous, Before
    <3>5. Bounded(c)'
      BY <1>2, <3>2 DEF ConnInv, Bounded, Before
    <3> QED BY <2>2, <3>3, <3>4, <3>5 DEF ConnInv
  <2> QED BY <2>1, <2>2
<1> QED BY <1>3, <1>4, <1>5 DEF Inv

LEMMA ClientClosesStep ==
  ASSUME Inv, NEW c \in Conns, ClientCloses(c)
  PROVE  Inv'
<1>1. TypeParts /\ PtyInv /\ \A k \in Conns : ConnInv(k)
  BY DEF Inv
<1>2. /\ state[c] # "new" /\ peer' = [peer EXCEPT ![c] = FALSE]
      /\ UNCHANGED <<made, slaveOpen, out, ptyOpen, client, state, wbuf, wantClose, interest,
                     shut, sock, got, eof, base, skipped, evicted, dropped, lagged>>
  BY DEF ClientCloses, ptyVars, connVars, histVars
<1>3. TypeParts'
  BY <1>1, <1>2 DEF TypeParts
<1>4. PtyInv'
  BY <1>1, <1>2 DEF PtyInv
<1>5. ASSUME NEW k \in Conns PROVE ConnInv(k)'
  <2>1. CASE k # c
    <3>1. UNCHANGED Own(k) /\ ConnInv(k)
      BY <1>1, <1>2, <2>1 DEF Own, TypeParts
    <3>2. client' = client /\ ptyOpen' = ptyOpen /\ out' = out /\ out <= out'
      BY <1>1, <1>2 DEF TypeParts
    <3> QED BY <1>1, <1>3, <3>1, <3>2, Untouched
  <2>2. CASE k = c
    <3>1. Stream(c)' = Stream(c)
      BY <1>2 DEF Stream
    <3>2. ConnInv(c) /\ Broken(c)' = TRUE /\ peer'[c] = FALSE
      BY <1>1, <1>2 DEF Broken, TypeParts
    <3>3. Unused(c)' /\ Attached(c)' /\ WhyShut(c)' /\ WhyClosing(c)' /\ EofIsLast(c)' /\ Watched(c)'
      BY <1>2, <3>2 DEF ConnInv, Unused, Attached, WhyShut, WhyClosing, EofIsLast, Watched
    <3>4. ClosedIsFull(c)' /\ Continuous(c)'
      BY <1>2, <3>1, <3>2 DEF ConnInv, ClosedIsFull, Continuous, Before
    <3>5. Bounded(c)'
      BY <1>2, <3>2 DEF ConnInv, Bounded, Before
    <3> QED BY <2>2, <3>3, <3>4, <3>5 DEF ConnInv
  <2> QED BY <2>1, <2>2
<1> QED BY <1>3, <1>4, <1>5 DEF Inv

\* Detach, and the incumbent of Attach: the socket is shut down and the
\* connection marked, so that nothing of it changes but its reading.
LEMMA EvictedConn ==
  ASSUME TypeParts, NEW c \in Conns, ConnInv(c), client = c, client' # c,
         evicted'[c] = TRUE, shut'[c] = TRUE, wantClose'[c] = TRUE,
         UNCHANGED <<state[c], wbuf[c], sock[c], peer[c], got[c], eof[c], base[c], skipped[c], dropped[c],
                    lagged[c], out>>
  PROVE  ConnInv(c)'
<1>1. Stream(c)' = Stream(c) /\ Broken(c)' = TRUE
  BY DEF Stream, Broken
<1>2. state[c] = "open"
  BY DEF ConnInv, Attached
<1>3. Unused(c)' /\ Attached(c)' /\ WhyShut(c)' /\ WhyClosing(c)' /\ EofIsLast(c)' /\ Watched(c)'
  BY <1>1, <1>2 DEF ConnInv, Unused, Attached, WhyShut, WhyClosing, EofIsLast, Watched
<1>4. ClosedIsFull(c)' /\ Continuous(c)'
  BY <1>1, <1>2 DEF ConnInv, ClosedIsFull, Continuous, Before
<1>5. Bounded(c)'
  BY DEF ConnInv, Bounded, Before
<1> QED BY <1>3, <1>4, <1>5 DEF ConnInv

LEMMA DetachStep == Inv /\ Detach => Inv'
<1> SUFFICES ASSUME Inv, Detach PROVE Inv'
  OBVIOUS
<1>1. TypeParts /\ PtyInv /\ \A k \in Conns : ConnInv(k)
  BY DEF Inv
<1>2. /\ client \in Conns /\ client' = NoConn /\ NoConn \notin Conns
      /\ evicted' = [k \in Conns |-> evicted[k] \/ k = client]
      /\ shut' = [k \in Conns |-> shut[k] \/ k = client]
      /\ wantClose' = [wantClose EXCEPT ![client] = TRUE]
      /\ interest' = [interest EXCEPT ![client] = Interest(wbuf[client])]
      /\ UNCHANGED <<made, slaveOpen, out, ptyOpen, state, wbuf, sock, peer, got, eof, base,
                     skipped, dropped, lagged>>
  BY <1>1, Sizes DEF Detach, Evict, ptyVars, peerVars, TypeParts
<1>3. TypeParts'
  BY <1>1, <1>2 DEF TypeParts, Interest
<1>4. PtyInv'
  BY <1>1, <1>2 DEF PtyInv
<1>5. ASSUME NEW k \in Conns PROVE ConnInv(k)'
  <2>1. CASE k # client
    <3>1. evicted'[k] = evicted[k] /\ shut'[k] = shut[k]
      BY <1>1, <1>2, <2>1 DEF TypeParts
    <3>2. UNCHANGED Own(k) /\ ConnInv(k)
      BY <1>1, <1>2, <2>1, <3>1 DEF Own, TypeParts
    <3>3. /\ ptyOpen' = ptyOpen /\ out' = out /\ out <= out'
          /\ client' = k <=> client = k
      BY <1>1, <1>2, <2>1 DEF TypeParts
    <3> QED BY <1>1, <1>3, <3>2, <3>3, Untouched
  <2>2. CASE k = client
    <3>1. /\ evicted'[k] = TRUE /\ shut'[k] = TRUE /\ wantClose'[k] = TRUE /\ client' # k
          /\ UNCHANGED <<state[k], wbuf[k], sock[k], peer[k], got[k], eof[k], base[k], skipped[k], dropped[k],
                         lagged[k], out>>
      BY <1>1, <1>2, <2>2 DEF TypeParts
    <3> QED BY <1>1, <2>2, <3>1, EvictedConn
  <2> QED BY <2>1, <2>2
<1> QED BY <1>3, <1>4, <1>5 DEF Inv

LEMMA RingStartFact == TypeParts => RingStart \in Byte /\ RingStart <= out /\ out \in Nat /\ out <= MaxOut
<1> SUFFICES ASSUME TypeParts PROVE RingStart \in Byte /\ RingStart <= out /\ out \in Nat /\ out <= MaxOut
  OBVIOUS
<1>1. out \in Nat /\ out <= MaxOut
  BY Sizes DEF TypeParts
<1>2. Least(out, RingCap) \in Nat /\ Least(out, RingCap) <= out
  BY <1>1, Sizes, LeastFact
<1> QED BY <1>1, <1>2, Sizes DEF RingStart, Byte

\* The stream of a fresh connection is what its buffer is given.
LEMMA FreshStream == \A s \in Seq(Byte) : (<<>> \o <<>>) \o s = s
  BY ConcatEmptySeq, EmptySeq

\* The step of Attach, for one way its allocations end.
Attaches(c, frame, replay, start, snap) ==
  LET w == (IF frame = "queued" THEN <<0>> ELSE <<>>)
             \o (IF replay = "queued" THEN snap ELSE <<>>)
      marked == "marked" \in {frame, replay}
      closed == marked /\ w = <<>>
  IN  /\ snap = <<>> => replay = "queued"
      /\ state' = [state EXCEPT ![c] = IF closed THEN "closed" ELSE "open"]
      /\ client' = IF closed THEN NoConn ELSE c
      /\ wbuf' = [wbuf EXCEPT ![c] = w]
      /\ base' = [base EXCEPT ![c] = start]
      /\ skipped' = [skipped EXCEPT ![c] = out - start - Len(snap)]
      /\ dropped' = [dropped EXCEPT ![c] = {frame, replay} # {"queued"}]
      /\ wantClose' = [k \in Conns |-> wantClose[k] \/ k = client \/ (k = c /\ marked)]
      /\ interest' = [k \in Conns |->
           IF k = c THEN ~marked /\ Interest(w)
           ELSE IF k = client THEN Interest(wbuf[k]) ELSE interest[k]]

LEMMA AttachStep ==
  ASSUME Inv, NEW c \in Conns, Attach(c)
  PROVE  Inv'
<1>1. TypeParts /\ PtyInv /\ \A k \in Conns : ConnInv(k)
  BY DEF Inv
<1>p. PICK frame \in FrameEnds(c), replay \in ReplayEnds(c), start \in RingStarts :
        \E snap \in Snapshots(c, start) : Attaches(c, frame, replay, start, snap)
  BY Zenon DEF Attach, Attaches
<1>q. PICK snap \in Snapshots(c, start) : Attaches(c, frame, replay, start, snap)
  BY <1>p
<1> DEFINE w == (IF frame = "queued" THEN <<0>> ELSE <<>>) \o (IF replay = "queued" THEN snap ELSE <<>>)
           marked == frame = "marked" \/ replay = "marked"
           closed == marked /\ w = <<>>
           skip == out - start - Len(snap)
           drop == ~(frame = "queued" /\ replay = "queued")
<1>2. /\ state[c] = "new" /\ client' = (IF closed THEN NoConn ELSE c) /\ NoConn \notin Conns
      /\ state' = [state EXCEPT ![c] = IF closed THEN "closed" ELSE "open"]
      /\ evicted' = [k \in Conns |-> evicted[k] \/ k = client]
      /\ shut' = [k \in Conns |-> shut[k] \/ k = client]
      /\ wbuf' = [wbuf EXCEPT ![c] = w]
      /\ base' = [base EXCEPT ![c] = start]
      /\ skipped' = [skipped EXCEPT ![c] = skip]
      /\ dropped' = [dropped EXCEPT ![c] = drop]
      /\ wantClose' = [k \in Conns |-> wantClose[k] \/ k = client \/ (k = c /\ marked)]
      /\ interest' = [k \in Conns |-> IF k = c THEN ~marked /\ Interest(w)
                                       ELSE IF k = client THEN Interest(wbuf[k]) ELSE interest[k]]
      /\ UNCHANGED <<made, slaveOpen, out, ptyOpen, sock, peer, got, eof, lagged>>
  <2>1. ("marked" \in {frame, replay}) = marked /\ ({frame, replay} # {"queued"}) = drop
    OBVIOUS
  <2>2. /\ state[c] = "new" /\ NoConn \notin Conns
        /\ evicted' = [k \in Conns |-> evicted[k] \/ k = client]
        /\ shut' = [k \in Conns |-> shut[k] \/ k = client]
        /\ UNCHANGED <<made, slaveOpen, out, ptyOpen, sock, peer, got, eof, lagged>>
    BY Sizes DEF Attach, Evict, ptyVars, peerVars
  <2> QED BY <1>q, <2>1, <2>2, Zenon DEF Attaches
<1>3. start \in Byte /\ start <= out /\ out \in Nat /\ out <= MaxOut /\ start \in Nat
  BY <1>1, RingStartFact, Sizes DEF Byte, RingStarts
<1>4. /\ snap = Bytes(start, out) \/ snap = <<>>
      /\ snap \in Seq(Byte) /\ Len(snap) \in 0 .. out - start
  <2>1. Bytes(start, out) \in Seq(Byte) /\ Len(Bytes(start, out)) = out - start
    BY <1>3, BytesFact
  <2>2. snap = Bytes(start, out) \/ snap = <<>>
    BY DEF Snapshots
  <2>3. CASE snap = Bytes(start, out)
    BY <1>3, <2>1, <2>3
  <2>4. CASE snap = <<>>
    <3>1. <<>> \in Seq(Byte) /\ Len(<<>>) = 0
      BY EmptySeq
    <3> QED BY <1>3, <2>2, <2>4, <3>1
  <2> QED BY <2>2, <2>3, <2>4
<1>5. w \in Seq(Byte) /\ skip \in Byte /\ start + skip <= out
  <2>1. <<0>> \in Seq(Byte) /\ <<>> \in Seq(Byte)
    BY Sizes DEF Byte
  <2>2. w \in Seq(Byte)
    BY <1>4, <2>1, ConcatProperties
  <2> QED BY <1>3, <1>4, <2>2, Sizes DEF Byte
<1>6. drop \/ (/\ ~marked /\ w = <<0>> \o Bytes(start + skip, out)
               /\ Len(w) = 1 + out - (start + skip))
  <2> SUFFICES ASSUME ~drop PROVE ~marked /\ w = <<0>> \o Bytes(start + skip, out)
                                  /\ Len(w) = 1 + out - (start + skip)
    OBVIOUS
  <2>1. frame = "queued" /\ replay = "queued" /\ ~marked /\ w = <<0>> \o snap
    OBVIOUS
  <2>2. snap = Bytes(start + skip, out)
    <3>1. CASE snap = Bytes(start, out)
      <4>1. Len(snap) = out - start
        BY <1>3, <3>1, BytesFact
      <4>2. start + skip = start
        BY <1>3, <4>1
      <4> QED BY <3>1, <4>2
    <3>2. CASE snap = <<>>
      <4>1. start + skip = out /\ out - out = 0
        BY <1>3, <3>2, EmptySeq
      <4>2. Bytes(out, out) \in Seq(Byte) /\ Len(Bytes(out, out)) = 0
        BY <1>3, BytesFact
      <4> QED BY <3>2, <4>1, <4>2, EmptySeq
    <3> QED BY <1>4, <3>1, <3>2
  <2>3. start + skip \in Nat
    BY <1>3, <1>5, Sizes DEF Byte
  <2>4. Len(<<0>> \o Bytes(start + skip, out)) = 1 + out - (start + skip)
    BY <1>3, <1>5, <2>3, ReplayFact
  <2> QED BY <2>1, <2>2, <2>4
<1>7. marked => drop
  OBVIOUS
<1>c. client # c /\ ConnInv(c)
  BY <1>1, <1>2 DEF ConnInv, Attached
<1>t. marked \in BOOLEAN /\ closed \in BOOLEAN /\ drop \in BOOLEAN /\ (closed => marked /\ w = <<>>)
  OBVIOUS
<1> HIDE DEF w, marked, closed, skip, drop
<1>8. TypeParts'
  <2>1. wbuf' \in [Conns -> Seq(Byte)] /\ base' \in [Conns -> Byte] /\ skipped' \in [Conns -> Byte]
    BY <1>1, <1>2, <1>3, <1>5 DEF TypeParts
  <2>2. /\ evicted' \in [Conns -> BOOLEAN] /\ shut' \in [Conns -> BOOLEAN]
        /\ wantClose' \in [Conns -> BOOLEAN] /\ interest' \in [Conns -> BOOLEAN]
        /\ dropped' \in [Conns -> BOOLEAN]
    BY <1>1, <1>2, <1>t DEF TypeParts, Interest
  <2>3. state' \in [Conns -> {"new", "open", "closed"}] /\ client' \in Conns \union {NoConn}
    BY <1>1, <1>2 DEF TypeParts
  <2> QED BY <1>1, <1>2, <2>1, <2>2, <2>3 DEF TypeParts
<1>10. PtyInv'
  BY <1>1, <1>2 DEF PtyInv
<1>11. ConnInv(c)'
  <2>1. /\ got[c] = <<>> /\ sock[c] = <<>> /\ ~evicted[c] /\ ~shut[c] /\ ~wantClose[c] /\ ~eof[c]
    BY <1>2, <1>c DEF ConnInv, Unused
  <2>2. /\ wbuf'[c] = w /\ base'[c] = start /\ skipped'[c] = skip /\ dropped'[c] = drop
        /\ state'[c] = (IF closed THEN "closed" ELSE "open")
        /\ interest'[c] = (~marked /\ Interest(w)) /\ wantClose'[c] = marked
        /\ ~evicted'[c] /\ ~shut'[c]
        /\ got'[c] = <<>> /\ sock'[c] = <<>> /\ ~eof'[c] /\ out' = out
    BY <1>1, <1>2, <1>c, <1>t, <2>1 DEF TypeParts
  <2>3. Stream(c)' = w /\ Before(c)' = start + skip
    BY <1>5, <2>2, FreshStream DEF Stream, Before
  <2>4. Unused(c)' /\ Attached(c)' /\ WhyShut(c)' /\ WhyClosing(c)' /\ EofIsLast(c)'
    BY <1>2, <1>7, <1>t, <2>2 DEF Unused, Attached, WhyShut, WhyClosing, EofIsLast
  <2>5. Watched(c)'
    BY <1>7, <2>2 DEF Watched, Interest
  <2>6. ClosedIsFull(c)'
    BY <1>7, <1>t, <2>2 DEF ClosedIsFull
  <2>7. Continuous(c)'
    <3>1. (start + skip) + (1 + out - (start + skip)) - 1 = out
      BY <1>3, <1>5 DEF Byte
    <3> QED BY <1>6, <2>2, <2>3, <3>1 DEF Continuous
  <2>8. Bounded(c)'
    BY <1>5, <2>2, <2>3, Sizes, EmptySeq DEF Bounded
  <2> QED BY <2>4, <2>5, <2>6, <2>7, <2>8 DEF ConnInv
<1>9. ASSUME NEW k \in Conns, k # c PROVE ConnInv(k)'
  <2>1. CASE k # client
    <3>1. evicted'[k] = evicted[k] /\ shut'[k] = shut[k] /\ wantClose'[k] = wantClose[k]
      BY <1>1, <1>2, <1>9, <2>1 DEF TypeParts
    <3>2. UNCHANGED Own(k) /\ ConnInv(k)
      BY <1>1, <1>2, <1>9, <2>1, <3>1 DEF Own, TypeParts
    <3>3. /\ ptyOpen' = ptyOpen /\ out' = out /\ out <= out'
          /\ client' = k <=> client = k
      BY <1>1, <1>2, <1>9, <2>1 DEF TypeParts
    <3> QED BY <1>1, <1>8, <3>2, <3>3, Untouched
  <2>2. CASE k = client
    <3>1. /\ evicted'[k] = TRUE /\ shut'[k] = TRUE /\ wantClose'[k] = TRUE /\ client' # k
          /\ UNCHANGED <<state[k], wbuf[k], sock[k], peer[k], got[k], eof[k], base[k], skipped[k], dropped[k],
                         lagged[k], out>>
      BY <1>1, <1>2, <1>9, <2>2 DEF TypeParts
    <3> QED BY <1>1, <2>2, <3>1, EvictedConn
  <2> QED BY <2>1, <2>2
<1> QED BY <1>8, <1>9, <1>10, <1>11 DEF Inv

\* While the PTY is open the socket of the attached client is not shut down.
LEMMA AttachedFact ==
  ASSUME PtyInv, NEW c \in Conns, ConnInv(c), client = c
  PROVE  /\ state[c] = "open" /\ ~evicted[c]
         /\ ptyOpen => ~shut[c] /\ ~eof[c]
  BY DEF ConnInv, Attached, WhyShut, EofIsLast

LEMMA PtyReadStep == Inv /\ PtyRead => Inv'
<1> SUFFICES ASSUME Inv, PtyRead PROVE Inv'
  OBVIOUS
<1>1. TypeParts /\ PtyInv /\ \A k \in Conns : ConnInv(k)
  BY DEF Inv
<1>2. /\ ptyOpen
      /\ UNCHANGED <<made, slaveOpen, ptyOpen, client, state, shut, peer, got, eof, base, skipped, evicted>>
  BY DEF PtyRead, peerVars
<1>3. PICK n \in 1 .. Least(Chunk, made - out) :
        /\ out' = out + n
        /\ \/ /\ client = NoConn
              /\ UNCHANGED <<wbuf, sock, wantClose, interest, dropped, lagged>>
           \/ /\ client # NoConn
              /\ \E oom \in BOOLEAN :
                   LET c == client
                       w == IF oom THEN wbuf[c] ELSE wbuf[c] \o Bytes(out, out + n)
                   IN  /\ oom => c \in Frail
                       /\ wbuf' = [wbuf EXCEPT ![c] = Unsent(c, w)]
                       /\ sock' = [sock EXCEPT ![c] = SocketAfter(c, w)]
                       /\ wantClose' = [wantClose EXCEPT
                            ![c] = @ \/ oom \/ Len(w) > MaxWbuf \/ FlushFails(c, w)]
                       /\ interest' = [interest EXCEPT ![c] = Interest(Unsent(c, w))]
                       /\ dropped' = [dropped EXCEPT ![c] = @ \/ oom]
                       /\ lagged' = [lagged EXCEPT ![c] = @ \/ Len(w) > MaxWbuf]
  BY DEF PtyRead
<1>4. n \in Nat /\ out \in Nat /\ made \in Nat /\ made <= MaxOut /\ out + n <= made /\ out' = out + n
  <2>1. made - out \in Nat /\ out \in Nat /\ made \in Nat /\ made <= MaxOut
    BY <1>1, Sizes DEF TypeParts
  <2>2. Least(Chunk, made - out) \in Nat /\ Least(Chunk, made - out) <= made - out
    BY <2>1, Sizes, LeastFact
  <2> QED BY <1>3, <2>1, <2>2
<1>5. PtyInv'
  BY <1>2 DEF PtyInv
<1>6. CASE client = NoConn
  <2>1. UNCHANGED <<wbuf, sock, wantClose, interest, dropped, lagged>>
    BY <1>3, <1>6
  <2>2. TypeParts'
    BY <1>1, <1>2, <1>4, <2>1, Sizes DEF TypeParts
  <2>3. ASSUME NEW k \in Conns PROVE ConnInv(k)'
    <3>1. UNCHANGED Own(k) /\ ConnInv(k)
      BY <1>1, <1>2, <2>1 DEF Own
    <3>2. client' = client /\ client # k /\ ptyOpen' = ptyOpen /\ out <= out'
      BY <1>2, <1>4, <1>6, Sizes
    <3> QED BY <1>1, <1>2, <2>2, <3>1, <3>2, Untouched
  <2> QED BY <1>5, <2>2, <2>3 DEF Inv
<1>7. CASE client # NoConn
  <2>0. PICK oom \in BOOLEAN :
          LET c == client
              w == IF oom THEN wbuf[c] ELSE wbuf[c] \o Bytes(out, out + n)
          IN  /\ wbuf' = [wbuf EXCEPT ![c] = Unsent(c, w)]
              /\ sock' = [sock EXCEPT ![c] = SocketAfter(c, w)]
              /\ wantClose' = [wantClose EXCEPT
                   ![c] = @ \/ oom \/ Len(w) > MaxWbuf \/ FlushFails(c, w)]
              /\ interest' = [interest EXCEPT ![c] = Interest(Unsent(c, w))]
              /\ dropped' = [dropped EXCEPT ![c] = @ \/ oom]
              /\ lagged' = [lagged EXCEPT ![c] = @ \/ Len(w) > MaxWbuf]
    BY <1>3, <1>7
  <2>1. PICK c \in Conns : c = client
    BY <1>1, <1>7 DEF TypeParts
  <2>2. PICK w : w = IF oom THEN wbuf[c] ELSE wbuf[c] \o Bytes(out, out + n)
    OBVIOUS
  <2>3. /\ wbuf' = [wbuf EXCEPT ![c] = Unsent(c, w)]
        /\ sock' = [sock EXCEPT ![c] = SocketAfter(c, w)]
        /\ wantClose' = [wantClose EXCEPT
             ![c] = wantClose[c] \/ oom \/ Len(w) > MaxWbuf \/ FlushFails(c, w)]
        /\ interest' = [interest EXCEPT ![c] = Interest(Unsent(c, w))]
        /\ dropped' = [dropped EXCEPT ![c] = dropped[c] \/ oom]
        /\ lagged' = [lagged EXCEPT ![c] = lagged[c] \/ Len(w) > MaxWbuf]
    BY <2>0, <2>1, <2>2
  <2>4. /\ got[c] \in Seq(Byte) /\ sock[c] \in Seq(Byte) /\ wbuf[c] \in Seq(Byte)
        /\ Bytes(out, out + n) \in Seq(Byte) /\ w \in Seq(Byte) /\ oom \in BOOLEAN
    <3>1. got[c] \in Seq(Byte) /\ sock[c] \in Seq(Byte) /\ wbuf[c] \in Seq(Byte)
      BY <1>1 DEF TypeParts
    <3>2. Bytes(out, out + n) \in Seq(Byte)
      <4>1. out + n \in Nat /\ out <= out + n /\ out + n <= MaxOut
        BY <1>4, Sizes
      <4> QED BY <1>4, <4>1, BytesFact
    <3>3. wbuf[c] \o Bytes(out, out + n) \in Seq(Byte)
      BY <3>1, <3>2, ConcatProperties
    <3> QED BY <2>2, <3>1, <3>2, <3>3
  <2>5. /\ Unsent(c, w) \in Seq(Byte) /\ SocketAfter(c, w) \in Seq(Byte)
        /\ Len(SocketAfter(c, w)) <= SockCap
        /\ (got[c] \o SocketAfter(c, w)) \o Unsent(c, w) = (got[c] \o sock[c]) \o w
    <3>1. Bounded(c)
      BY <1>1 DEF ConnInv
    <3> QED BY <1>1, <2>4, <3>1, FlushFact
  <2>6. TypeParts'
    <3>1. wbuf' \in [Conns -> Seq(Byte)] /\ sock' \in [Conns -> Seq(Byte)]
      BY <1>1, <2>3, <2>5 DEF TypeParts
    <3>2. /\ wantClose' \in [Conns -> BOOLEAN] /\ interest' \in [Conns -> BOOLEAN]
          /\ dropped' \in [Conns -> BOOLEAN] /\ lagged' \in [Conns -> BOOLEAN]
      BY <1>1, <2>3 DEF TypeParts, Interest
    <3>3. out' \in 0 .. made'
      BY <1>2, <1>4
    <3> QED BY <1>1, <1>2, <3>1, <3>2, <3>3 DEF TypeParts
  <2>7. ASSUME NEW k \in Conns, k # c PROVE ConnInv(k)'
    <3>1. UNCHANGED Own(k) /\ ConnInv(k)
      BY <1>1, <1>2, <2>3, <2>7 DEF Own, TypeParts
    <3>2. client' = client /\ client # k /\ ptyOpen' = ptyOpen /\ out <= out'
      BY <1>2, <1>4, <2>1, <2>7
    <3> QED BY <1>1, <1>2, <2>6, <3>1, <3>2, Untouched
  <2>8. ConnInv(c)'
    <3>1. /\ ConnInv(c) /\ client = c /\ state[c] = "open" /\ ~evicted[c] /\ ~shut[c] /\ ~eof[c]
      BY <1>1, <1>2, <2>1, AttachedFact
    <3>2. /\ state'[c] = "open" /\ ~evicted'[c] /\ ~shut'[c] /\ ~eof'[c] /\ client' = c
          /\ got'[c] = got[c] /\ peer'[c] = peer[c] /\ base'[c] = base[c] /\ skipped'[c] = skipped[c]
          /\ wbuf'[c] = Unsent(c, w) /\ sock'[c] = SocketAfter(c, w)
          /\ interest'[c] = Interest(Unsent(c, w))
      BY <1>1, <1>2, <2>3, <3>1 DEF TypeParts
    <3>3. /\ dropped'[c] <=> dropped[c] \/ oom
          /\ lagged'[c] <=> lagged[c] \/ Len(w) > MaxWbuf
          /\ wantClose'[c] <=> wantClose[c] \/ oom \/ Len(w) > MaxWbuf \/ FlushFails(c, w)
      BY <1>1, <2>3 DEF TypeParts
    <3>4. Unused(c)' /\ Attached(c)' /\ WhyShut(c)' /\ EofIsLast(c)' /\ ClosedIsFull(c)'
      BY <3>2 DEF Unused, Attached, WhyShut, EofIsLast, ClosedIsFull
    <3>5. WhyClosing(c)'
      <4>1. FlushFails(c, w) => ~peer[c]
        BY <3>1 DEF FlushFails, Broken
      <4>2. wantClose[c] => dropped[c] \/ lagged[c] \/ ~peer[c]
        BY <1>2, <3>1 DEF ConnInv, WhyClosing
      <4> QED BY <3>2, <3>3, <4>1, <4>2 DEF WhyClosing
    <3>6. Watched(c)'
      BY <3>2 DEF Watched, Interest
    <3>7. Bounded(c)'
      BY <1>1, <1>4, <2>5, <3>1, <3>2 DEF ConnInv, Bounded, Before, TypeParts, Byte
    <3>8. Continuous(c)'
      <4> SUFFICES ASSUME ~dropped'[c]
                   PROVE  /\ Stream(c)' = <<0>> \o Bytes(Before(c), Before(c) + Len(Stream(c)') - 1)
                          /\ Len(Stream(c)') = 1 + out' - Before(c)
        BY <3>2 DEF Continuous, Before
      <4>1. ~oom /\ ~dropped[c] /\ w = wbuf[c] \o Bytes(out, out + n)
        BY <2>2, <3>3
      <4>2. /\ Stream(c) = <<0>> \o Bytes(Before(c), Before(c) + Len(Stream(c)) - 1)
            /\ Len(Stream(c)) = 1 + out - Before(c) /\ Before(c) <= out /\ Before(c) \in Nat
        <5>1. Continuous(c) /\ Bounded(c) /\ state[c] # "new"
          BY <3>1 DEF ConnInv
        <5>2. base[c] \in Nat /\ skipped[c] \in Nat
          BY <1>1, Sizes DEF TypeParts, Byte
        <5>3. Before(c) \in Nat
          BY <5>2 DEF Before
        <5> QED BY <3>1, <4>1, <5>1, <5>3 DEF Continuous, Bounded
      <4>3. Before(c) + Len(Stream(c)) - 1 = out
        <5>1. \A b, o, l \in Nat : l = 1 + o - b => b + l - 1 = o
          OBVIOUS
        <5>2. Len(Stream(c)) \in Nat
          BY <1>4, <4>2
        <5> QED BY <1>4, <4>2, <5>1, <5>2
      <4>4. Stream(c) = <<0>> \o Bytes(Before(c), out)
        BY <4>2, <4>3, Zenon
      <4>5. Stream(c)' = Stream(c) \o Bytes(out, out + n)
        <5>1. Stream(c)' = (got[c] \o sock[c]) \o (wbuf[c] \o Bytes(out, out + n))
          BY <2>5, <3>2, <4>1 DEF Stream
        <5>2. Extended(got[c], sock[c], wbuf[c], Bytes(out, out + n))
          BY <2>4, Extend
        <5>3. (got[c] \o sock[c]) \o (wbuf[c] \o Bytes(out, out + n))
                = ((got[c] \o sock[c]) \o wbuf[c]) \o Bytes(out, out + n)
          BY <5>2 DEF Extended
        <5>4. Stream(c) = (got[c] \o sock[c]) \o wbuf[c]
          BY DEF Stream
        <5> QED BY <5>1, <5>3, <5>4
      <4>6. Stream(c)' = <<0>> \o Bytes(Before(c), out + n)
        <5>1. \A b, m, e \in Nat : b <= m /\ m <= e /\ e <= MaxOut =>
                (<<0>> \o Bytes(b, m)) \o Bytes(m, e) = <<0>> \o Bytes(b, e)
          BY ReplayGrows
        <5>2. out + n \in Nat /\ out <= out + n /\ out + n <= MaxOut
          BY <1>4, Sizes
        <5>3. (<<0>> \o Bytes(Before(c), out)) \o Bytes(out, out + n) = <<0>> \o Bytes(Before(c), out + n)
          BY <1>4, <4>2, <5>1, <5>2, Zenon
        <5> QED BY <4>4, <4>5, <5>3
      <4>7. Len(<<0>> \o Bytes(Before(c), out + n)) = 1 + (out + n) - Before(c)
        <5>1. \A b, e \in Nat : b <= e /\ e <= MaxOut =>
                Len(<<0>> \o Bytes(b, e)) = 1 + e - b
          BY ReplayFact
        <5>2. out + n \in Nat /\ Before(c) <= out + n /\ out + n <= MaxOut
          BY <1>4, <4>2, Sizes
        <5> QED BY <4>2, <5>1, <5>2, Zenon
      <4>8. Before(c) + (1 + (out + n) - Before(c)) - 1 = out + n
        BY <1>4, <4>2
      <4> QED BY <1>4, <4>6, <4>7, <4>8
    <3> QED BY <3>4, <3>5, <3>6, <3>7, <3>8 DEF ConnInv
  <2> QED BY <1>5, <2>6, <2>7, <2>8 DEF Inv
<1> QED BY <1>6, <1>7

LEMMA PtyEofStep == Inv /\ PtyEof => Inv'
<1> SUFFICES ASSUME Inv, PtyEof PROVE Inv'
  OBVIOUS
<1>1. TypeParts /\ PtyInv /\ \A k \in Conns : ConnInv(k)
  BY DEF Inv
<1>2. /\ ptyOpen /\ ~slaveOpen /\ out = made /\ ptyOpen' = FALSE
      /\ UNCHANGED <<made, slaveOpen, out, client, state, peer, got, eof, base, skipped, evicted, dropped, lagged>>
  BY DEF PtyEof, peerVars, histVars, connVars
<1>3. PtyInv'
  BY <1>2 DEF PtyInv
<1>4. CASE client = NoConn
  <2>1. UNCHANGED <<wbuf, sock, wantClose, interest, shut>>
    BY <1>4 DEF PtyEof, connVars
  <2>2. TypeParts'
    BY <1>1, <1>2, <2>1 DEF TypeParts
  <2>3. ASSUME NEW k \in Conns PROVE ConnInv(k)'
    <3>1. UNCHANGED Own(k) /\ ConnInv(k)
      BY <1>1, <1>2, <2>1 DEF Own
    <3>2. client' = client /\ out' = out /\ out <= out'
      BY <1>1, <1>2 DEF TypeParts
    <3> QED BY <1>1, <1>2, <2>2, <3>1, <3>2, Untouched
  <2> QED BY <1>3, <2>2, <2>3 DEF Inv
<1>5. CASE client # NoConn
  <2>1. PICK c \in Conns : c = client
    BY <1>1, <1>5 DEF TypeParts
  <2>2. PICK w : w = wbuf[c]
    OBVIOUS
  <2>3. /\ wbuf' = [wbuf EXCEPT ![c] = Unsent(c, w)]
        /\ sock' = [sock EXCEPT ![c] = SocketAfter(c, w)]
        /\ wantClose' = [wantClose EXCEPT ![c] = TRUE]
        /\ shut' = [shut EXCEPT ![c] = shut[c] \/ Unsent(c, w) = <<>>]
        /\ interest' = [interest EXCEPT ![c] = Interest(Unsent(c, w))]
    BY <1>5, <2>1, <2>2 DEF PtyEof
  <2>4. got[c] \in Seq(Byte) /\ sock[c] \in Seq(Byte) /\ w \in Seq(Byte)
    BY <1>1, <2>2 DEF TypeParts
  <2>5. /\ Unsent(c, w) \in Seq(Byte) /\ SocketAfter(c, w) \in Seq(Byte)
        /\ Len(SocketAfter(c, w)) <= SockCap
        /\ (got[c] \o SocketAfter(c, w)) \o Unsent(c, w) = (got[c] \o sock[c]) \o w
    <3>1. Bounded(c)
      BY <1>1 DEF ConnInv
    <3> QED BY <1>1, <2>4, <3>1, FlushFact
  <2>6. TypeParts'
    <3>1. wbuf' \in [Conns -> Seq(Byte)] /\ sock' \in [Conns -> Seq(Byte)]
      BY <1>1, <2>3, <2>5 DEF TypeParts
    <3>2. wantClose' \in [Conns -> BOOLEAN] /\ interest' \in [Conns -> BOOLEAN] /\ shut' \in [Conns -> BOOLEAN]
      BY <1>1, <2>3 DEF TypeParts, Interest
    <3> QED BY <1>1, <1>2, <3>1, <3>2 DEF TypeParts
  <2>7. ASSUME NEW k \in Conns, k # c PROVE ConnInv(k)'
    <3>1. UNCHANGED Own(k) /\ ConnInv(k)
      BY <1>1, <1>2, <2>3, <2>7 DEF Own, TypeParts
    <3>2. client' = client /\ out' = out /\ out <= out'
      BY <1>1, <1>2 DEF TypeParts
    <3> QED BY <1>1, <1>2, <2>6, <3>1, <3>2, Untouched
  <2>8. ConnInv(c)'
    <3>1. /\ ConnInv(c) /\ client = c /\ state[c] = "open" /\ ~evicted[c] /\ ~shut[c] /\ ~eof[c]
      BY <1>1, <1>2, <2>1, AttachedFact
    <3>2. /\ state'[c] = "open" /\ ~evicted'[c] /\ ~eof'[c] /\ client' = c
          /\ got'[c] = got[c] /\ peer'[c] = peer[c] /\ base'[c] = base[c] /\ skipped'[c] = skipped[c] /\ out' = out
          /\ wbuf'[c] = Unsent(c, w) /\ sock'[c] = SocketAfter(c, w)
          /\ interest'[c] = Interest(Unsent(c, w)) /\ dropped'[c] = dropped[c]
          /\ shut'[c] <=> Unsent(c, w) = <<>>
      BY <1>1, <1>2, <2>3, <3>1 DEF TypeParts
    <3>3. Stream(c)' = Stream(c)
      BY <2>2, <2>5, <3>2 DEF Stream
    <3>4. Unused(c)' /\ Attached(c)' /\ WhyShut(c)' /\ WhyClosing(c)' /\ EofIsLast(c)' /\ ClosedIsFull(c)'
      BY <1>2, <3>2 DEF Unused, Attached, WhyShut, WhyClosing, EofIsLast, ClosedIsFull
    <3>5. Watched(c)' /\ Bounded(c)'
      BY <2>5, <3>1, <3>2 DEF ConnInv, Watched, Interest, Bounded, Before
    <3>6. Continuous(c)'
      BY <3>1, <3>2, <3>3 DEF ConnInv, Continuous, Before
    <3> QED BY <3>4, <3>5, <3>6 DEF ConnInv
  <2> QED BY <1>3, <2>6, <2>7, <2>8 DEF Inv
<1> QED BY <1>4, <1>5

LEMMA ConnEventStep ==
  ASSUME Inv, NEW c \in Conns, ConnEvent(c)
  PROVE  Inv'
<1> DEFINE w == IF Writable(c) THEN Unsent(c, wbuf[c]) ELSE wbuf[c]
           s == IF Writable(c) THEN SocketAfter(c, wbuf[c]) ELSE sock[c]
           closing == \/ wantClose[c] \/ HungUp(c)
                      \/ Writable(c) /\ FlushFails(c, wbuf[c])
<1>1. TypeParts /\ PtyInv /\ \A k \in Conns : ConnInv(k)
  BY DEF Inv
<1>2. /\ state[c] = "open"
      /\ wbuf' = [wbuf EXCEPT ![c] = w]
      /\ wantClose' = [wantClose EXCEPT ![c] = closing]
      /\ interest' = [interest EXCEPT ![c] = IF closing THEN interest[c] ELSE Interest(w)]
      /\ state' = [state EXCEPT ![c] = IF closing /\ w = <<>> THEN "closed" ELSE state[c]]
      /\ client' = IF state'[c] = "closed" /\ client = c THEN NoConn ELSE client
      /\ UNCHANGED <<made, slaveOpen, out, ptyOpen, shut, peer, got, eof, base, skipped, evicted, dropped, lagged>>
  BY DEF ConnEvent, ptyVars, peerVars, histVars
<1>3. sock' = [sock EXCEPT ![c] = s]
  <2>1. sock' = IF Writable(c) THEN [sock EXCEPT ![c] = SocketAfter(c, wbuf[c])] ELSE sock
    BY DEF ConnEvent
  <2>2. sock = [sock EXCEPT ![c] = sock[c]]
    BY <1>1 DEF TypeParts
  <2> QED BY <2>1, <2>2
<1>4. /\ w \in Seq(Byte) /\ s \in Seq(Byte) /\ Len(s) <= SockCap
      /\ (got[c] \o s) \o w = (got[c] \o sock[c]) \o wbuf[c]
      /\ Broken(c) /\ sock[c] = <<>> => s = <<>>
      /\ wbuf[c] = <<>> => w = <<>>
  <2>1. Bounded(c) /\ wbuf[c] \in Seq(Byte) /\ sock[c] \in Seq(Byte)
    BY <1>1 DEF ConnInv, TypeParts
  <2>2. CASE Writable(c)
    <3>1. /\ Unsent(c, wbuf[c]) \in Seq(Byte) /\ SocketAfter(c, wbuf[c]) \in Seq(Byte)
          /\ Len(SocketAfter(c, wbuf[c])) <= SockCap
          /\ (got[c] \o SocketAfter(c, wbuf[c])) \o Unsent(c, wbuf[c]) = (got[c] \o sock[c]) \o wbuf[c]
          /\ Broken(c) /\ sock[c] = <<>> => SocketAfter(c, wbuf[c]) = <<>>
          /\ wbuf[c] = <<>> => Unsent(c, wbuf[c]) = <<>>
      BY <1>1, <2>1, FlushFact
    <3> QED BY <2>2, <3>1
  <2>3. CASE ~Writable(c)
    BY <2>1, <2>3 DEF Bounded
  <2> QED BY <2>2, <2>3
<1> HIDE DEF w, s
<1>5. closing \in BOOLEAN
  BY <1>1 DEF TypeParts, HungUp, FlushFails, Broken
<1>6. closing <=> \/ wantClose[c] \/ ~peer[c] \/ shut[c]
  BY DEF HungUp, FlushFails, Broken
<1> HIDE DEF closing
<1>7. TypeParts'
  <2>1. wbuf' \in [Conns -> Seq(Byte)] /\ sock' \in [Conns -> Seq(Byte)]
    BY <1>1, <1>2, <1>3, <1>4 DEF TypeParts
  <2>2. wantClose' \in [Conns -> BOOLEAN] /\ interest' \in [Conns -> BOOLEAN]
    BY <1>1, <1>2, <1>5 DEF TypeParts, Interest
  <2>3. state' \in [Conns -> {"new", "open", "closed"}] /\ client' \in Conns \union {NoConn}
    BY <1>1, <1>2 DEF TypeParts
  <2> QED BY <1>1, <1>2, <2>1, <2>2, <2>3 DEF TypeParts
<1>8. PtyInv'
  BY <1>1, <1>2 DEF PtyInv
<1>9. ASSUME NEW k \in Conns, k # c PROVE ConnInv(k)'
  <2>1. UNCHANGED Own(k) /\ ConnInv(k)
    BY <1>1, <1>2, <1>3, <1>9 DEF Own, TypeParts
  <2>2. /\ client' = k <=> client = k
        /\ ptyOpen' = ptyOpen /\ out' = out /\ out <= out'
    BY <1>1, <1>2, <1>9, Sizes DEF TypeParts
  <2> QED BY <1>1, <1>7, <2>1, <2>2, Untouched
<1>10. ConnInv(c)'
  <2>1. /\ wbuf'[c] = w /\ sock'[c] = s /\ got'[c] = got[c] /\ peer'[c] = peer[c] /\ eof'[c] = eof[c]
        /\ shut'[c] = shut[c] /\ base'[c] = base[c] /\ skipped'[c] = skipped[c] /\ evicted'[c] = evicted[c]
        /\ dropped'[c] = dropped[c] /\ lagged'[c] = lagged[c] /\ out' = out /\ ptyOpen' = ptyOpen
        /\ wantClose'[c] = closing
        /\ interest'[c] = IF closing THEN interest[c] ELSE Interest(w)
        /\ state'[c] = IF closing /\ w = <<>> THEN "closed" ELSE "open"
    BY <1>1, <1>2, <1>3 DEF TypeParts
  <2>2. ConnInv(c) /\ state[c] = "open"
    BY <1>1, <1>2
  <2>3. Stream(c)' = Stream(c)
    BY <1>4, <2>1 DEF Stream
  <2>4. Unused(c)'
    BY <2>1 DEF Unused
  <2>5. Attached(c)'
    BY <1>2, <2>1, <2>2, Sizes DEF ConnInv, Attached
  <2>6. WhyShut(c)'
    BY <1>4, <2>1, <2>2 DEF ConnInv, WhyShut
  <2>7. WhyClosing(c)'
    BY <1>6, <2>1, <2>2 DEF ConnInv, WhyClosing, WhyShut
  <2>8. EofIsLast(c)'
    BY <1>4, <2>1, <2>2 DEF ConnInv, EofIsLast, Broken
  <2>9. Continuous(c)'
    BY <1>2, <2>1, <2>2, <2>3, Sizes DEF ConnInv, Continuous, Before
  <2>10. Watched(c)'
    BY <1>4, <2>1, <2>2 DEF ConnInv, Watched, Interest, Broken
  <2>11. Bounded(c)'
    BY <1>4, <2>1, <2>2 DEF ConnInv, Bounded, Before
  <2>12. ClosedIsFull(c)'
    <3> SUFFICES ASSUME state'[c] = "closed", ~evicted[c], ~dropped[c], ~lagged[c], peer[c] \/ eof[c]
                 PROVE  ~ptyOpen /\ Len(Stream(c)) = 1 + out - Before(c)
      BY <2>1, <2>3 DEF ClosedIsFull, Before
    <3>1. client = c /\ closing
      BY <2>1, <2>2 DEF ConnInv, Attached
    <3>2. ~ptyOpen
      BY <1>6, <2>2, <3>1 DEF ConnInv, WhyClosing, WhyShut, EofIsLast
    <3> QED BY <2>2, <3>1, <3>2 DEF ConnInv, Continuous, Before
  <2> QED BY <2>4, <2>5, <2>6, <2>7, <2>8, <2>9, <2>10, <2>11, <2>12 DEF ConnInv
<1> QED BY <1>7, <1>8, <1>9, <1>10 DEF Inv

LEMMA StutterStep == Inv /\ UNCHANGED vars => Inv'
<1> SUFFICES ASSUME Inv, UNCHANGED vars PROVE Inv'
  OBVIOUS
<1>1. UNCHANGED <<made, slaveOpen, out, ptyOpen, client, state, wbuf, wantClose, interest, shut,
                 sock, peer, got, eof, base, skipped, evicted, dropped, lagged>>
  BY DEF vars, ptyVars, connVars, peerVars, histVars
<1>2. TypeParts' /\ PtyInv'
  BY <1>1 DEF Inv, TypeParts, PtyInv
<1>3. ASSUME NEW k \in Conns PROVE ConnInv(k)'
  <2>1. UNCHANGED Own(k) /\ ConnInv(k) /\ TypeParts
    BY <1>1 DEF Own, Inv
  <2>2. client' = client /\ ptyOpen' = ptyOpen /\ out' = out /\ out <= out'
    BY <1>1, <2>1 DEF TypeParts
  <2> QED BY <1>2, <2>1, <2>2, Untouched
<1> QED BY <1>2, <1>3 DEF Inv

LEMMA NextStep == Inv /\ [Next]_vars => Inv'
<1> SUFFICES ASSUME Inv, [Next]_vars PROVE Inv'
  OBVIOUS
<1>1. CASE ChildWrites \/ ChildCloses
  BY <1>1, ChildStep
<1>2. CASE Detach
  BY <1>2, DetachStep
<1>3. CASE PtyRead
  BY <1>3, PtyReadStep
<1>4. CASE PtyEof
  BY <1>4, PtyEofStep
<1>5. ASSUME NEW c \in Conns, ConnEvent(c) PROVE Inv'
  BY <1>5, ConnEventStep
<1>6. ASSUME NEW c \in Conns, Attach(c) PROVE Inv'
  BY <1>6, AttachStep
<1>7. ASSUME NEW c \in Conns, ClientReads(c) PROVE Inv'
  BY <1>7, ClientReadsStep
<1>8. ASSUME NEW c \in Conns, ClientReadsEof(c) PROVE Inv'
  BY <1>8, ClientReadsEofStep
<1>9. ASSUME NEW c \in Conns, ClientCloses(c) PROVE Inv'
  BY <1>9, ClientClosesStep
<1>10. CASE UNCHANGED vars
  BY <1>10, StutterStep
<1> QED BY <1>1, <1>2, <1>3, <1>4, <1>5, <1>6, <1>7, <1>8, <1>9, <1>10 DEF Next, DaemonStep

LEMMA Invariance == Spec => []Inv
  BY InitInv, NextStep, PTL DEF Spec

-----------------------------------------------------------------------------
(* What the invariant means for a client *)

\* What a client has read, what its socket holds and what the daemon buffers
\* for it are one stream from the start of the replay, however the writes of
\* conn_flush are cut, and an attached client is behind by nothing else.
THEOREM StreamCorrect == Spec => []StreamIsContinuous
<1>1. Inv => StreamIsContinuous
  BY DEF Inv, ConnInv, Continuous, StreamIsContinuous
<1> QED BY <1>1, Invariance, PTL

\* A client that was not evicted or marked reads EOF only after all of the
\* session's output (client_eof and the close of a drained connection).
THEOREM EofCorrect == Spec => []EofIsComplete
<1>1. Inv => EofIsComplete
  <2> SUFFICES ASSUME Inv, NEW c \in Conns, eof[c], ~evicted[c], ~dropped[c], ~lagged[c]
               PROVE  ~ptyOpen /\ got[c] = <<0>> \o Bytes(Before(c), made)
    BY DEF EofIsComplete
  <2>1. TypeParts /\ PtyInv /\ ConnInv(c)
    BY DEF Inv
  <2>2. state[c] # "new" /\ sock[c] = <<>> /\ wbuf[c] = <<>> /\ ~ptyOpen
    BY <2>1 DEF ConnInv, Unused, EofIsLast, WhyShut, WhyClosing, ClosedIsFull
  <2>3. Len(Stream(c)) = 1 + out - Before(c)
    <3>1. CASE state[c] = "closed"
      BY <2>1, <3>1 DEF ConnInv, ClosedIsFull
    <3>2. CASE state[c] # "closed"
      <4>1. client = c
        BY <2>1, <2>2, <3>2 DEF ConnInv, Attached, TypeParts
      <4> QED BY <2>1, <2>2, <4>1 DEF ConnInv, Continuous, Before
    <3> QED BY <3>1, <3>2
  <2>4. Before(c) + (1 + out - Before(c)) - 1 = made
    BY <2>1, <2>2, Sizes DEF TypeParts, PtyInv, Byte, Before
  <2>5. Stream(c) = <<0>> \o Bytes(Before(c), made)
    BY <2>1, <2>2, <2>3, <2>4 DEF ConnInv, Continuous, Before
  <2>6. Stream(c) = got[c]
    <3>1. \A g \in Seq(Byte) : (g \o <<>>) \o <<>> = g
      BY ConcatEmptySeq
    <3>2. got[c] \in Seq(Byte)
      BY <2>1 DEF TypeParts
    <3> QED BY <2>2, <3>1, <3>2 DEF Stream
  <2> QED BY <2>2, <2>5, <2>6
<1> QED BY <1>1, Invariance, PTL

\* Every state is well typed, and bytes that can still be sent wait for an
\* EPOLLOUT that conn_update asked for.
THEOREM WaitingCorrect == Spec => []WaitingIsWatched
<1>1. Inv => WaitingIsWatched
  BY TypesSplit DEF Inv, ConnInv, Watched, WaitingIsWatched
<1> QED BY <1>1, Invariance, PTL
=============================================================================
