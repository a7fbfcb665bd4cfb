-------------------------- MODULE ControlConnProofs --------------------------
(***************************************************************************)
(* For any lengths of headers, frames, reads and buffers and any number of *)
(* messages: however the stream is cut up, frames are dispatched in order, *)
(* each reply answers its request, and input is conserved.                 *)
(***************************************************************************)
EXTENDS ControlConn, SequenceTheorems, TLAPS

-----------------------------------------------------------------------------
(* The invariant *)

\* A sequence that holds the members of f from the one after a on.
Piece(q, f, a) == \A k \in DOMAIN q : q[k] = f[a + k]

Same == [k \in Nat |-> k]

\* The messages follow one another, and every byte sent is one of theirs.
ScriptInv ==
  /\ \A i \in DOMAIN script :
       /\ script[i].first = (IF i = 1 THEN 1 ELSE script[i - 1].last + 1)
       /\ script[i].last = script[i].first + Size(script[i].kind) - 1
       /\ script[i].last <= Sent
  /\ \A i, j \in DOMAIN script : i < j => script[i].last < script[j].first
  /\ \A b \in 1 .. Sent : \E i \in DOMAIN script : b \in script[i].first .. script[i].last

\* The last byte of the frames dispatched.
Used == IF dispatched = <<>> THEN 0 ELSE script[Len(dispatched)].last

\* What is unread was sent last; what is in rbuf was sent before that, and
\* after the frames dispatched.
StreamInv ==
  /\ Len(unread) <= Sent
  /\ Piece(unread, Same, Sent - Len(unread))
  /\ isData => rbuf = <<>>
  /\ ~isData /\ ~unanswered =>
       /\ Used + Len(rbuf) + Len(unread) = Sent
       /\ Piece(rbuf, Same, Used)

OrderInv ==
  ~unanswered =>
    /\ Len(dispatched) <= Len(script)
    /\ \A k \in DOMAIN dispatched : dispatched[k] = k /\ WellFormed(k)

Refused(n) ==
  ~isData /\ Len(rbuf) >= HeaderLen /\ n \in DOMAIN script /\ ~WellFormed(n)

\* The k-th reply after n dispatched frames.
Answer(n) == [k \in Nat |-> IF k <= n THEN k ELSE n + 1]

ReplyInv ==
  ~unanswered =>
    LET n == Len(dispatched) IN
    /\ Piece(got, Answer(n), 0)
    /\ Piece(sock, Answer(n), Len(got))
    /\ Piece(wbuf, Answer(n), Len(got) + Len(sock))
    /\ Len(got) + Len(sock) + Len(wbuf) >= n
    /\ Len(got) + Len(sock) + Len(wbuf) > n => Refused(n + 1)

InputInv ==
  /\ ~isData => ~bound /\ pin = <<>> /\ tty = <<>> /\ typed = <<>>
  /\ bound /\ ~lost /\ ~unanswered =>
       /\ dispatched # <<>>
       /\ Piece(typed, Same, Used)
       /\ Piece(tty, Same, Used + Len(typed))
       /\ Piece(pin, Same, Used + Len(typed) + Len(tty))
       /\ Used + Len(typed) + Len(tty) + Len(pin) + Len(unread) = Sent

ParseInv == pc = "parse" => ~isData

IInv ==
  /\ TypeOK /\ ScriptInv /\ StreamInv /\ OrderInv /\ ReplyInv /\ InputInv
  /\ ParseInv

Msg == [kind : Kinds, first : Nat, last : Nat]

-----------------------------------------------------------------------------
(* Pieces of a sequence *)

LEMMA LeastFact ==
  ASSUME NEW a \in Nat, NEW b \in Nat
  PROVE  Least(a, b) \in Nat /\ Least(a, b) <= a /\ Least(a, b) <= b
  BY DEF Least

LEMMA PieceEmpty ==
  ASSUME NEW f, NEW a PROVE Piece(<<>>, f, a)
  BY DEF Piece

LEMMA PieceConcat ==
  ASSUME NEW S, NEW q \in Seq(S), NEW r \in Seq(S), NEW f, NEW a \in Nat,
         Piece(q, f, a), Piece(r, f, a + Len(q))
  PROVE  /\ Piece(q \o r, f, a)
         /\ q \o r \in Seq(S) /\ Len(q \o r) = Len(q) + Len(r)
<1>1. /\ q \o r \in Seq(S) /\ Len(q \o r) = Len(q) + Len(r)
      /\ \A i \in 1 .. Len(q) + Len(r) :
           (q \o r)[i] = IF i <= Len(q) THEN q[i] ELSE r[i - Len(q)]
  BY ConcatProperties
<1>2. /\ Len(q) \in Nat /\ DOMAIN q = 1 .. Len(q)
      /\ Len(r) \in Nat /\ DOMAIN r = 1 .. Len(r)
      /\ DOMAIN (q \o r) = 1 .. Len(q) + Len(r)
  BY <1>1, LenProperties
<1>3. ASSUME NEW k \in 1 .. Len(q) + Len(r) PROVE (q \o r)[k] = f[a + k]
  <2>1. CASE k <= Len(q)
    BY <1>1, <1>2, <2>1 DEF Piece
  <2>2. CASE k > Len(q)
    <3>1. k - Len(q) \in 1 .. Len(r) /\ (a + Len(q)) + (k - Len(q)) = a + k
      BY <1>2, <2>2
    <3>2. r[k - Len(q)] = f[(a + Len(q)) + (k - Len(q))]
      BY <1>2, <3>1 DEF Piece
    <3> QED BY <1>1, <1>2, <2>2, <3>1, <3>2
  <2> QED BY <1>2, <2>1, <2>2
<1>4. Piece(q \o r, f, a)
  BY <1>2, <1>3, Zenon DEF Piece
<1> QED BY <1>1, <1>4

LEMMA SplitTypes ==
  ASSUME NEW S, NEW q \in Seq(S), NEW n \in 0 .. Len(q)
  PROVE  /\ SubSeq(q, 1, n) \in Seq(S) /\ Len(SubSeq(q, 1, n)) = n
         /\ SubSeq(q, n + 1, Len(q)) \in Seq(S)
         /\ Len(SubSeq(q, n + 1, Len(q))) = Len(q) - n
<1>1. Len(q) \in Nat /\ \A i \in 1 .. Len(q) : q[i] \in S
  BY LenProperties, ElementOfSeq
<1> QED BY <1>1, SubSeqProperties

\* What is before and after the n-th member.
LEMMA PieceSplit ==
  ASSUME NEW S, NEW q \in Seq(S), NEW n \in 0 .. Len(q), NEW f, NEW a \in Nat,
         Piece(q, f, a)
  PROVE  /\ Piece(SubSeq(q, 1, n), f, a)
         /\ Piece(SubSeq(q, n + 1, Len(q)), f, a + n)
<1>1. Len(q) \in Nat /\ DOMAIN q = 1 .. Len(q) /\ \A i \in 1 .. Len(q) : q[i] \in S
  BY LenProperties, ElementOfSeq
<1>2. /\ Len(SubSeq(q, 1, n)) = n /\ SubSeq(q, 1, n) \in Seq(S)
      /\ \A i \in 1 .. n : SubSeq(q, 1, n)[i] = q[i]
  BY <1>1, SubSeqProperties
<1>3. /\ Len(SubSeq(q, n + 1, Len(q))) = Len(q) - n /\ SubSeq(q, n + 1, Len(q)) \in Seq(S)
      /\ \A i \in 1 .. Len(q) - n : SubSeq(q, n + 1, Len(q))[i] = q[n + i]
  <2>1. \A m \in Int, k \in Int :
          (\A i \in m .. k : q[i] \in S) =>
             /\ SubSeq(q, m, k) \in Seq(S)
             /\ Len(SubSeq(q, m, k)) = IF m <= k THEN k - m + 1 ELSE 0
             /\ \A i \in 1 .. k - m + 1 : SubSeq(q, m, k)[i] = q[m + i - 1]
    BY SubSeqProperties
  <2>2. n + 1 \in Int /\ Len(q) \in Int /\ \A i \in n + 1 .. Len(q) : q[i] \in S
    BY <1>1
  <2>3. /\ SubSeq(q, n + 1, Len(q)) \in Seq(S)
        /\ Len(SubSeq(q, n + 1, Len(q))) = IF n + 1 <= Len(q) THEN Len(q) - (n + 1) + 1 ELSE 0
        /\ \A i \in 1 .. Len(q) - (n + 1) + 1 : SubSeq(q, n + 1, Len(q))[i] = q[(n + 1) + i - 1]
    BY <2>1, <2>2
  <2>4. ASSUME NEW i \in 1 .. Len(q) - n PROVE SubSeq(q, n + 1, Len(q))[i] = q[n + i]
    <3>1. i \in 1 .. Len(q) - (n + 1) + 1 /\ (n + 1) + i - 1 = n + i
      BY <1>1
    <3> QED BY <2>3, <3>1
  <2>5. Len(SubSeq(q, n + 1, Len(q))) = Len(q) - n
    BY SplitTypes
  <2> QED BY <2>3, <2>4, <2>5
<1>4. Piece(SubSeq(q, 1, n), f, a)
  <2>1. DOMAIN SubSeq(q, 1, n) = 1 .. n
    BY <1>2, LenProperties
  <2> QED BY <1>1, <1>2, <2>1 DEF Piece
<1>5. Piece(SubSeq(q, n + 1, Len(q)), f, a + n)
  <2>1. DOMAIN SubSeq(q, n + 1, Len(q)) = 1 .. Len(q) - n
    BY <1>3, LenProperties
  <2>2. ASSUME NEW k \in 1 .. Len(q) - n PROVE SubSeq(q, n + 1, Len(q))[k] = f[(a + n) + k]
    <3>1. n + k \in 1 .. Len(q) /\ a + (n + k) = (a + n) + k
      BY <1>1
    <3> QED BY <1>1, <1>3, <3>1 DEF Piece
  <2> QED BY <2>1, <2>2, Zenon DEF Piece
<1> QED BY <1>4, <1>5

LEMMA ConcatTypes ==
  ASSUME NEW S, NEW q \in Seq(S), NEW r \in Seq(S)
  PROVE  q \o r \in Seq(S) /\ Len(q \o r) = Len(q) + Len(r)
  BY ConcatProperties

\* The head of q moves to the end of p.
LEMMA PieceShift ==
  ASSUME NEW S, NEW p \in Seq(S), NEW q \in Seq(S), q # <<>>, NEW f, NEW a \in Nat,
         Piece(p, f, a), Piece(q, f, a + Len(p))
  PROVE  /\ Piece(Append(p, Head(q)), f, a)
         /\ Piece(Tail(q), f, a + Len(p) + 1)
<1>1. /\ Head(q) \in S /\ Head(q) = q[1] /\ Tail(q) \in Seq(S) /\ Len(Tail(q)) = Len(q) - 1
      /\ \A i \in 1 .. Len(q) - 1 : Tail(q)[i] = q[i + 1]
  BY HeadTailProperties
<1>2. Len(q) \in Nat \ {0} /\ DOMAIN q = 1 .. Len(q) /\ Len(p) \in Nat /\ DOMAIN p = 1 .. Len(p)
  BY LenProperties, EmptySeq
<1>3. /\ DOMAIN Append(p, Head(q)) = 1 .. Len(p) + 1
      /\ \A i \in 1 .. Len(p) : Append(p, Head(q))[i] = p[i]
      /\ Append(p, Head(q))[Len(p) + 1] = Head(q)
  BY <1>1, AppendProperties, LenProperties
<1>4. Head(q) = f[a + Len(p) + 1]
  BY <1>1, <1>2 DEF Piece
<1>5. Piece(Append(p, Head(q)), f, a)
  <2>1. ASSUME NEW k \in 1 .. Len(p) + 1 PROVE Append(p, Head(q))[k] = f[a + k]
    <3>1. CASE k <= Len(p)
      <4>1. k \in 1 .. Len(p)
        BY <1>2, <3>1
      <4>2. p[k] = f[a + k]
        BY <1>2, <4>1 DEF Piece
      <4> QED BY <1>3, <4>1, <4>2
    <3>2. CASE k = Len(p) + 1
      BY <1>2, <1>3, <1>4, <3>2
    <3> QED BY <1>2, <3>1, <3>2
  <2> QED BY <1>3, <2>1, Zenon DEF Piece
<1>6. DOMAIN Tail(q) = 1 .. Len(q) - 1
  BY <1>1, LenProperties
<1>7. ASSUME NEW k \in 1 .. Len(q) - 1 PROVE Tail(q)[k] = f[(a + Len(p) + 1) + k]
  <2>1. k + 1 \in 1 .. Len(q) /\ (a + Len(p)) + (k + 1) = (a + Len(p) + 1) + k
    BY <1>2
  <2> QED BY <1>1, <1>2, <2>1 DEF Piece
<1>8. Piece(Tail(q), f, a + Len(p) + 1)
  BY <1>6, <1>7, Zenon DEF Piece
<1> QED BY <1>5, <1>8

LEMMA ShiftTypes ==
  ASSUME NEW S, NEW p \in Seq(S), NEW q \in Seq(S), q # <<>>
  PROVE  /\ Append(p, Head(q)) \in Seq(S) /\ Len(Append(p, Head(q))) = Len(p) + 1
         /\ Tail(q) \in Seq(S) /\ Len(Tail(q)) = Len(q) - 1
  BY HeadTailProperties, AppendProperties

LEMMA PieceAppend ==
  ASSUME NEW S, NEW p \in Seq(S), NEW f, NEW a \in Nat, NEW e \in S,
         Piece(p, f, a), e = f[a + Len(p) + 1]
  PROVE  Piece(Append(p, e), f, a)
<1>1. Len(p) \in Nat /\ DOMAIN p = 1 .. Len(p)
  BY LenProperties
<1>2. /\ DOMAIN Append(p, e) = 1 .. Len(p) + 1
      /\ \A i \in 1 .. Len(p) : Append(p, e)[i] = p[i]
      /\ Append(p, e)[Len(p) + 1] = e
  BY AppendProperties, LenProperties
<1>3. ASSUME NEW k \in 1 .. Len(p) + 1 PROVE Append(p, e)[k] = f[a + k]
  <2>1. CASE k <= Len(p)
    BY <1>1, <1>2, <2>1 DEF Piece
  <2>2. CASE k = Len(p) + 1
    BY <1>1, <1>2, <2>2
  <2> QED BY <1>1, <2>1, <2>2
<1> QED BY <1>2, <1>3, Zenon DEF Piece

LEMMA BytesFact ==
  ASSUME NEW a \in Nat \ {0}, NEW b \in Nat, a <= b + 1
  PROVE  /\ Bytes(a, b) \in Seq(1 .. b) /\ Len(Bytes(a, b)) = b + 1 - a
         /\ Piece(Bytes(a, b), Same, a - 1)
<1>1. b + 1 - a \in Nat /\ \A k \in 1 .. b + 1 - a : a + k - 1 \in 1 .. b /\ a + k - 1 = (a - 1) + k
  OBVIOUS
<1>2. Bytes(a, b) \in [1 .. b + 1 - a -> 1 .. b]
  BY <1>1 DEF Bytes
<1>3. Bytes(a, b) \in Seq(1 .. b)
  BY <1>1, <1>2, SeqDef
<1>4. Len(Bytes(a, b)) = b + 1 - a
  BY <1>1, <1>2, <1>3, LenProperties
<1>5. Piece(Bytes(a, b), Same, a - 1)
  BY <1>1 DEF Piece, Bytes, Same
<1> QED BY <1>3, <1>4, <1>5

LEMMA PieceIsBytes ==
  ASSUME NEW a \in Nat, NEW b \in Nat, NEW q \in Seq(1 .. b),
         Piece(q, Same, a), a + Len(q) = b
  PROVE  q = Bytes(a + 1, b)
<1>1. Len(q) \in Nat
  BY LenProperties
<1>2. /\ Bytes(a + 1, b) \in Seq(1 .. b) /\ Len(Bytes(a + 1, b)) = Len(q)
  <2>1. a + 1 \in Nat \ {0} /\ a + 1 <= b + 1 /\ b + 1 - (a + 1) = Len(q)
    BY <1>1
  <2>2. \A x \in Nat \ {0} : x <= b + 1 =>
          Bytes(x, b) \in Seq(1 .. b) /\ Len(Bytes(x, b)) = b + 1 - x
    BY BytesFact
  <2> QED BY <2>1, <2>2
<1>3. ASSUME NEW k \in 1 .. Len(q) PROVE q[k] = Bytes(a + 1, b)[k]
  <2>1. q[k] = a + k
    <3>1. DOMAIN q = 1 .. Len(q)
      BY LenProperties
    <3>2. q[k] = Same[a + k]
      BY <3>1 DEF Piece
    <3> QED BY <1>1, <3>2 DEF Same
  <2>2. k \in 1 .. b + 1 - (a + 1) /\ (a + 1) + k - 1 = a + k
    BY <1>1
  <2> QED BY <2>1, <2>2 DEF Bytes
<1> QED BY <1>2, <1>3, SeqEqual

\* The first n members of q move to the end of p.
LEMMA PieceMove ==
  ASSUME NEW S, NEW p \in Seq(S), NEW q \in Seq(S), NEW n \in 0 .. Len(q),
         NEW f, NEW a \in Nat, Piece(p, f, a), Piece(q, f, a + Len(p))
  PROVE  /\ Piece(p \o SubSeq(q, 1, n), f, a)
         /\ Piece(SubSeq(q, n + 1, Len(q)), f, a + Len(p) + n)
<1>1. Len(p) \in Nat /\ a + Len(p) \in Nat
  BY LenProperties
<1>2. /\ Piece(SubSeq(q, 1, n), f, a + Len(p))
      /\ Piece(SubSeq(q, n + 1, Len(q)), f, a + Len(p) + n)
  BY <1>1, PieceSplit
<1>3. SubSeq(q, 1, n) \in Seq(S)
  BY SplitTypes
<1> QED BY <1>1, <1>2, <1>3, PieceConcat

LEMMA MoveTypes ==
  ASSUME NEW S, NEW p \in Seq(S), NEW q \in Seq(S), NEW n \in 0 .. Len(q)
  PROVE  /\ p \o SubSeq(q, 1, n) \in Seq(S) /\ Len(p \o SubSeq(q, 1, n)) = Len(p) + n
         /\ SubSeq(q, n + 1, Len(q)) \in Seq(S)
         /\ Len(SubSeq(q, n + 1, Len(q))) = Len(q) - n
<1>1. /\ SubSeq(q, 1, n) \in Seq(S) /\ Len(SubSeq(q, 1, n)) = n
      /\ SubSeq(q, n + 1, Len(q)) \in Seq(S)
      /\ Len(SubSeq(q, n + 1, Len(q))) = Len(q) - n
  BY SplitTypes
<1> QED BY <1>1, ConcatTypes

\* Replies to dispatched frames stay so when more frames are dispatched.
LEMMA AnswerGrows ==
  ASSUME NEW S, NEW q \in Seq(S), NEW a \in Nat, NEW n \in Nat, a + Len(q) <= n,
         Piece(q, Answer(n), a)
  PROVE  Piece(q, Answer(n + 1), a)
<1>1. Len(q) \in Nat /\ DOMAIN q = 1 .. Len(q)
  BY LenProperties
<1>2. ASSUME NEW k \in 1 .. Len(q) PROVE q[k] = Answer(n + 1)[a + k]
  <2>1. a + k \in Nat /\ a + k <= n
    BY <1>1
  <2>2. Answer(n)[a + k] = a + k /\ Answer(n + 1)[a + k] = a + k
    BY <2>1 DEF Answer
  <2> QED BY <1>1, <2>2 DEF Piece
<1> QED BY <1>1, <1>2, Zenon DEF Piece

-----------------------------------------------------------------------------
(* Messages *)

LEMMA SizeFact ==
  ASSUME NEW kind \in Kinds
  PROVE  Size(kind) \in Nat \ {0} /\ Flen(kind) \in Nat
  BY ControlAssumption DEF Size, Flen, Kinds

LEMMA SentFact ==
  ASSUME TypeOK
  PROVE  /\ script \in Seq(Msg) /\ Len(script) \in Nat /\ DOMAIN script = 1 .. Len(script)
         /\ \A i \in 1 .. Len(script) :
              script[i].kind \in Kinds /\ script[i].first \in Nat /\ script[i].last \in Nat
         /\ Sent \in Nat
<1>1. script \in Seq(Msg)
  BY DEF TypeOK, Msg
<1>2. Len(script) \in Nat /\ DOMAIN script = 1 .. Len(script)
  BY <1>1, LenProperties
<1>3. \A i \in 1 .. Len(script) : script[i] \in Msg
  BY <1>1, ElementOfSeq
<1>4. \A i \in 1 .. Len(script) :
        script[i].kind \in Kinds /\ script[i].first \in Nat /\ script[i].last \in Nat
  BY <1>3 DEF Msg
<1>5. script # <<>> => Len(script) \in 1 .. Len(script)
  BY <1>1, <1>2, EmptySeq
<1>6. Sent \in Nat
  BY <1>4, <1>5 DEF Sent
<1> QED BY <1>1, <1>2, <1>4, <1>6

\* What sending a message does to the sequence of messages.
LEMMA SendFact ==
  ASSUME TypeOK, NEW kind \in Kinds, ClientSends(kind)
  PROVE  /\ script' \in Seq(Msg) /\ Len(script') = Len(script) + 1
         /\ DOMAIN script' = 1 .. Len(script) + 1
         /\ \A i \in 1 .. Len(script) : script'[i] = script[i]
         /\ script'[Len(script) + 1] = Message(kind)
         /\ Sent' = Sent + Size(kind)
<1>1. /\ script \in Seq(Msg) /\ Len(script) \in Nat /\ Sent \in Nat
  BY SentFact
<1>2. Size(kind) \in Nat \ {0}
  BY SizeFact
<1>3. Message(kind) \in Msg
  BY <1>1, <1>2 DEF Message, Msg
<1>4. script' = Append(script, Message(kind))
  BY DEF ClientSends
<1>5. /\ script' \in Seq(Msg) /\ script' # <<>> /\ Len(script') = Len(script) + 1
      /\ \A i \in 1 .. Len(script) : script'[i] = script[i]
      /\ script'[Len(script) + 1] = Message(kind)
  BY <1>1, <1>3, <1>4, AppendProperties
<1>6. DOMAIN script' = 1 .. Len(script) + 1
  BY <1>5, LenProperties
<1>7. Sent' = Sent + Size(kind)
  BY <1>5 DEF Sent, Message
<1> QED BY <1>5, <1>6, <1>7

LEMMA SendScript ==
  ASSUME TypeOK, ScriptInv, NEW kind \in Kinds, ClientSends(kind)
  PROVE  ScriptInv'
<1>1. /\ Len(script) \in Nat /\ DOMAIN script = 1 .. Len(script) /\ Sent \in Nat
      /\ \A i \in 1 .. Len(script) : script[i].first \in Nat /\ script[i].last \in Nat
  BY SentFact
<1>2. Size(kind) \in Nat \ {0}
  BY SizeFact
<1>3. PICK n \in Nat : n = Len(script)
  BY <1>1
<1>4. PICK m : m = Message(kind)
  OBVIOUS
<1>5. m.kind = kind /\ m.first = Sent + 1 /\ m.last = Sent + Size(kind)
  BY <1>4 DEF Message
<1>6. /\ DOMAIN script' = 1 .. n + 1
      /\ \A i \in 1 .. n : script'[i] = script[i]
      /\ script'[n + 1] = m
      /\ Sent' = Sent + Size(kind)
  BY <1>3, <1>4, SendFact
<1>7. n = 0 => Sent = 0
  BY <1>1, <1>3, SentFact, EmptySeq DEF Sent
<1>8. n > 0 => Sent = script[n].last
  BY <1>1, <1>3, EmptySeq DEF Sent
<1>9. ASSUME NEW i \in 1 .. n + 1
      PROVE  /\ script'[i].first = (IF i = 1 THEN 1 ELSE script'[i - 1].last + 1)
             /\ script'[i].last = script'[i].first + Size(script'[i].kind) - 1
             /\ script'[i].last <= Sent'
  <2>1. CASE i <= n
    <3>1. i \in 1 .. n /\ (i # 1 => i - 1 \in 1 .. n)
      BY <2>1
    <3>2. /\ script[i].first = (IF i = 1 THEN 1 ELSE script[i - 1].last + 1)
          /\ script[i].last = script[i].first + Size(script[i].kind) - 1
          /\ script[i].last <= Sent
      BY <1>1, <1>3, <3>1 DEF ScriptInv
    <3>3. script[i].last <= Sent'
      BY <1>1, <1>2, <1>3, <1>6, <3>1, <3>2
    <3> QED BY <1>6, <3>1, <3>2, <3>3
  <2>2. CASE i = n + 1
    <3>1. m.first = (IF i = 1 THEN 1 ELSE script'[i - 1].last + 1)
      <4>1. CASE i = 1
        BY <1>5, <1>7, <2>2, <4>1
      <4>2. CASE i # 1
        <5>1. n \in 1 .. n /\ i - 1 = n
          BY <2>2, <4>2
        <5> QED BY <1>5, <1>6, <1>8, <4>2, <5>1
      <4> QED BY <4>1, <4>2
    <3>2. m.last = m.first + Size(m.kind) - 1 /\ m.last <= Sent'
      BY <1>1, <1>2, <1>5, <1>6
    <3> QED BY <1>6, <2>2, <3>1, <3>2
  <2> QED BY <2>1, <2>2
<1>10. ASSUME NEW i \in 1 .. n + 1, NEW j \in 1 .. n + 1, i < j
       PROVE  script'[i].last < script'[j].first
  <2>1. i \in 1 .. n
    BY <1>3, <1>10
  <2>2. CASE j <= n
    <3>1. j \in 1 .. n
      BY <1>3, <2>2
    <3>2. script[i].last < script[j].first
      BY <1>1, <1>3, <1>10, <2>1, <3>1 DEF ScriptInv
    <3> QED BY <1>6, <2>1, <3>1, <3>2
  <2>3. CASE j = n + 1
    <3>1. script[i].last <= Sent
      BY <1>1, <1>3, <2>1 DEF ScriptInv
    <3>2. script'[i] = script[i] /\ script'[j] = m
      BY <1>6, <2>1, <2>3
    <3>3. script[i].last \in Nat /\ Sent \in Nat
      BY <1>1, <1>3, <2>1
    <3> QED BY <1>5, <3>1, <3>2, <3>3
  <2> QED BY <2>2, <2>3
<1>11. ASSUME NEW b \in 1 .. Sent'
       PROVE  \E i \in 1 .. n + 1 : b \in script'[i].first .. script'[i].last
  <2>1. CASE b <= Sent
    <3>1. PICK i \in 1 .. n : b \in script[i].first .. script[i].last
      BY <1>1, <1>3, <2>1 DEF ScriptInv
    <3>2. i \in 1 .. n + 1 /\ script'[i] = script[i]
      BY <1>6
    <3> QED BY <3>1, <3>2
  <2>2. CASE b > Sent
    <3>1. b \in m.first .. m.last
      BY <1>1, <1>2, <1>5, <1>6, <2>2
    <3>2. n + 1 \in 1 .. n + 1
      OBVIOUS
    <3> QED BY <1>6, <3>1, <3>2
  <2> QED BY <1>1, <2>1, <2>2
<1> QED BY <1>6, <1>9, <1>10, <1>11 DEF ScriptInv

LEMMA SeqFacts ==
  ASSUME TypeOK
  PROVE  /\ unread \in Seq(1 .. Sent) /\ rbuf \in Seq(1 .. Sent) /\ pin \in Seq(1 .. Sent)
         /\ tty \in Seq(1 .. Sent) /\ typed \in Seq(1 .. Sent)
         /\ wbuf \in Seq(DOMAIN script) /\ sock \in Seq(DOMAIN script)
         /\ got \in Seq(DOMAIN script) /\ dispatched \in Seq(DOMAIN script)
         /\ Len(sock) <= SockCap /\ Len(tty) <= PtyCap
         /\ SockCap \in Nat \ {0} /\ PtyCap \in Nat \ {0} /\ HeaderLen \in Nat \ {0}
  BY ControlAssumption DEF TypeOK

LEMMA LenFacts ==
  ASSUME TypeOK
  PROVE  /\ Len(unread) \in Nat /\ Len(rbuf) \in Nat /\ Len(pin) \in Nat
         /\ Len(tty) \in Nat /\ Len(typed) \in Nat
         /\ Len(wbuf) \in Nat /\ Len(sock) \in Nat /\ Len(got) \in Nat
         /\ Len(dispatched) \in Nat
<1>1. \A S : \A q \in Seq(S) : Len(q) \in Nat
  BY LenProperties
<1> QED BY <1>1, SeqFacts, Zenon

LEMMA UsedFact ==
  ASSUME TypeOK, OrderInv, ~unanswered
  PROVE  Used \in Nat
<1>1. dispatched # <<>> => Len(dispatched) \in 1 .. Len(script)
  BY SeqFacts, EmptySeq, SentFact DEF OrderInv
<1> QED BY <1>1, SentFact DEF Used

LEMMA HeadFact ==
  ASSUME TypeOK, ScriptInv, rbuf # <<>>
  PROVE  /\ HeadMsg \in 1 .. Len(script)
         /\ rbuf[1] \in script[HeadMsg].first .. script[HeadMsg].last
<1>1. rbuf[1] \in 1 .. Sent
  <2>1. rbuf \in Seq(1 .. Sent) /\ 1 \in 1 .. Len(rbuf)
    BY SeqFacts, EmptySeq
  <2> QED BY <2>1, ElementOfSeq
<1>2. \E i \in DOMAIN script : rbuf[1] \in script[i].first .. script[i].last
  BY <1>1 DEF ScriptInv
<1> QED BY <1>2, SentFact DEF HeadMsg

\* The byte at the head of rbuf is the first of the message to dispatch next.
LEMMA HeadIsNext ==
  ASSUME TypeOK, ScriptInv, StreamInv, OrderInv, ~isData, ~unanswered, rbuf # <<>>
  PROVE  /\ HeadMsg = Len(dispatched) + 1 /\ HeadMsg \in 1 .. Len(script)
         /\ HeadFlen = Flen(script[HeadMsg].kind)
         /\ script[HeadMsg].first = Used + 1
<1>1. PICK h \in 1 .. Len(script) : h = HeadMsg
  BY HeadFact
<1>2. PICK n \in Nat : n = Len(dispatched)
  BY LenFacts
<1>3. /\ Len(script) \in Nat /\ DOMAIN script = 1 .. Len(script)
      /\ \A i \in 1 .. Len(script) :
           script[i].kind \in Kinds /\ script[i].first \in Nat /\ script[i].last \in Nat
  BY SentFact
<1>4. rbuf[1] = Used + 1 /\ Used \in Nat
  <2>1. 1 \in DOMAIN rbuf
    BY SeqFacts, LenProperties, EmptySeq
  <2>2. rbuf[1] = Same[Used + 1]
    BY <2>1 DEF StreamInv, Piece
  <2> QED BY <2>2, UsedFact DEF Same
<1>5. script[h].first <= Used + 1 /\ Used + 1 <= script[h].last
  BY <1>1, <1>3, <1>4, HeadFact
<1>6. n <= Len(script)
  BY <1>2 DEF OrderInv
<1>7. n > 0 => Used = script[n].last
  BY <1>2, EmptySeq DEF Used
<1>8. n = 0 => Used = 0
  BY <1>2, SeqFacts, EmptySeq DEF Used
<1>9. \A i, j \in 1 .. Len(script) : i < j => script[i].last < script[j].first
  BY <1>3 DEF ScriptInv
<1>10. \A i \in 1 .. Len(script) :
         /\ script[i].first = (IF i = 1 THEN 1 ELSE script[i - 1].last + 1)
         /\ script[i].first <= script[i].last
  <2> SUFFICES ASSUME NEW i \in 1 .. Len(script)
               PROVE  /\ script[i].first = (IF i = 1 THEN 1 ELSE script[i - 1].last + 1)
                      /\ script[i].first <= script[i].last
    OBVIOUS
  <2>1. Size(script[i].kind) \in Nat \ {0}
    BY <1>3, SizeFact
  <2>2. /\ script[i].first = (IF i = 1 THEN 1 ELSE script[i - 1].last + 1)
        /\ script[i].last = script[i].first + Size(script[i].kind) - 1
    BY <1>3 DEF ScriptInv
  <2> QED BY <1>3, <2>1, <2>2
<1>11. h = n + 1
  <2>1. ~(h <= n)
    <3> SUFFICES ASSUME h <= n PROVE FALSE
      OBVIOUS
    <3>1. n \in 1 .. Len(script) /\ n > 0
      BY <1>1, <1>2, <1>6
    <3>2. CASE h = n
      BY <1>3, <1>4, <1>5, <1>7, <3>1, <3>2
    <3>3. CASE h < n
      BY <1>1, <1>3, <1>4, <1>5, <1>7, <1>9, <1>10, <3>1, <3>3
    <3> QED BY <1>1, <1>2, <3>2, <3>3
  <2>2. ~(h > n + 1)
    <3> SUFFICES ASSUME h > n + 1 PROVE FALSE
      OBVIOUS
    <3>1. n + 1 \in 1 .. Len(script)
      BY <1>1, <1>2, <1>3
    <3>2. script[n + 1].last < script[h].first
      BY <1>1, <1>9, <3>1
    <3>3. script[n + 1].first = Used + 1
      <4>1. CASE n = 0
        BY <1>8, <1>10, <3>1, <4>1
      <4>2. CASE n > 0
        <5>1. n + 1 # 1 /\ (n + 1) - 1 = n
          BY <1>2, <4>2
        <5> QED BY <1>7, <1>10, <3>1, <4>2, <5>1
      <4> QED BY <1>2, <4>1, <4>2
    <3> QED BY <1>1, <1>3, <1>4, <1>5, <1>10, <3>1, <3>2, <3>3
  <2> QED BY <1>1, <1>2, <2>1, <2>2
<1>12. script[h].first = Used + 1
  <2>1. CASE n = 0
    BY <1>8, <1>10, <1>11, <2>1
  <2>2. CASE n > 0
    <3>1. h # 1 /\ h - 1 = n
      BY <1>2, <1>11, <2>2
    <3> QED BY <1>7, <1>10, <2>2, <3>1
  <2> QED BY <1>2, <2>1, <2>2
<1> QED BY <1>1, <1>2, <1>4, <1>11, <1>12 DEF HeadFlen

LEMMA FrameFact ==
  ASSUME TypeOK, HasFrame, HeadMsg \in 1 .. Len(script), HeadFlen = Flen(script[HeadMsg].kind)
  PROVE  /\ WellFormed(HeadMsg) /\ HeaderLen + HeadFlen = Size(script[HeadMsg].kind)
         /\ HeaderLen + HeadFlen \in 0 .. Len(rbuf)
<1>1. PICK k \in Kinds : k = script[HeadMsg].kind
  BY SentFact
<1>2. k \in {"request", "attach"}
  BY <1>1, ControlAssumption DEF HasFrame, HeadOk, Flen, Kinds
<1>3. HeaderLen + HeadFlen = Size(k) /\ Size(k) \in Nat
  BY <1>1, <1>2, SizeFact DEF Size
<1> QED BY <1>1, <1>2, <1>3, LenFacts DEF HasFrame, WellFormed

-----------------------------------------------------------------------------
(* What a step does not touch *)

LEMMA SameScript ==
  ASSUME ScriptInv, UNCHANGED script PROVE ScriptInv' /\ Sent' = Sent
  BY DEF ScriptInv, Sent

LEMMA SameStream ==
  ASSUME StreamInv, UNCHANGED <<script, unread, rbuf, isData, dispatched>>,
         unanswered => unanswered'
  PROVE  StreamInv'
  BY DEF StreamInv, Sent, Used

LEMMA SameOrder ==
  ASSUME OrderInv, UNCHANGED <<script, dispatched>>, unanswered => unanswered'
  PROVE  OrderInv'
  BY DEF OrderInv, WellFormed

LEMMA SameReply ==
  ASSUME ReplyInv, UNCHANGED <<script, rbuf, isData, dispatched, got, sock, wbuf>>,
         unanswered => unanswered'
  PROVE  ReplyInv'
  BY DEF ReplyInv, Refused, WellFormed

LEMMA SameInput ==
  ASSUME InputInv, UNCHANGED <<script, dispatched, isData, typed, tty, pin, unread>>,
         bound' => bound, lost => lost', unanswered => unanswered'
  PROVE  InputInv'
  BY DEF InputInv, Sent, Used

-----------------------------------------------------------------------------
(* The steps of the client, the child and other clients *)

LEMMA SendStep ==
  ASSUME IInv, NEW kind \in Kinds, ClientSends(kind)
  PROVE  IInv'
<1>0. /\ TypeOK /\ ScriptInv /\ StreamInv /\ OrderInv /\ ReplyInv /\ InputInv /\ ParseInv
      /\ UNCHANGED <<peer, rbuf, connVars, outVars, ptyVars, pc, histVars>>
  BY DEF IInv, ClientSends
<1>1. /\ script' \in Seq(Msg) /\ Len(script') = Len(script) + 1
      /\ DOMAIN script' = 1 .. Len(script) + 1
      /\ \A i \in 1 .. Len(script) : script'[i] = script[i]
      /\ Sent' = Sent + Size(kind)
  BY <1>0, SendFact
<1>2. /\ Len(script) \in Nat /\ DOMAIN script = 1 .. Len(script) /\ Sent \in Nat
      /\ Size(kind) \in Nat \ {0}
  BY <1>0, SentFact, SizeFact
<1>3. /\ unread' \in Seq(1 .. Sent') /\ Len(unread') = Len(unread) + Size(kind)
      /\ Piece(unread', Same, Sent' - Len(unread'))
  <2>1. PICK a \in Nat \ {0} : a = Sent + 1
    BY <1>2
  <2>2. PICK b \in Nat : b = Sent + Size(kind)
    BY <1>2
  <2>3. unread' = unread \o Bytes(a, b) /\ Sent' = b /\ a <= b + 1 /\ a - 1 = Sent /\ b + 1 - a = Size(kind)
    BY <1>1, <1>2, <2>1, <2>2 DEF ClientSends
  <2>4. /\ Bytes(a, b) \in Seq(1 .. b) /\ Len(Bytes(a, b)) = b + 1 - a
        /\ Piece(Bytes(a, b), Same, a - 1)
    BY <2>3, BytesFact
  <2>5. unread \in Seq(1 .. b)
    <3>1. 1 .. Sent \subseteq 1 .. b
      BY <1>2, <2>2
    <3> QED BY <1>0, <3>1, SeqFacts, SeqMonotonic
  <2>6. PICK c \in Nat : c = Sent - Len(unread)
    <3>1. Len(unread) <= Sent /\ Len(unread) \in Nat
      BY <1>0, LenFacts DEF StreamInv
    <3> QED BY <1>2, <3>1
  <2>7. c + Len(unread) = a - 1 /\ Len(unread) \in Nat
    BY <1>0, <1>2, <2>3, <2>6, LenFacts
  <2>8. Piece(unread, Same, c) /\ Piece(Bytes(a, b), Same, c + Len(unread))
    BY <1>0, <2>4, <2>6, <2>7 DEF StreamInv
  <2>9. PICK y \in Seq(1 .. b) : y = Bytes(a, b)
    BY <2>4
  <2>10. /\ unread \o y \in Seq(1 .. b) /\ Len(unread \o y) = Len(unread) + Len(y)
         /\ Piece(unread \o y, Same, c)
    BY <2>5, <2>8, <2>9, PieceConcat
  <2>11. Sent' - Len(unread') = c
    BY <1>2, <2>3, <2>4, <2>6, <2>7, <2>9, <2>10
  <2> QED BY <2>3, <2>4, <2>9, <2>10, <2>11
<1>4. TypeOK'
  <2>1. 1 .. Sent \subseteq 1 .. Sent' /\ DOMAIN script \subseteq DOMAIN script'
    BY <1>1, <1>2
  <2>2. {rbuf, pin, tty, typed}' \subseteq Seq(1 .. Sent')
    BY <1>0, <2>1, SeqFacts, SeqMonotonic DEF ptyVars
  <2>3. {wbuf, sock, got, dispatched}' \subseteq Seq(DOMAIN script')
    BY <1>0, <2>1, SeqFacts, SeqMonotonic DEF outVars, histVars
  <2>4. Len(script') <= MaxMsgs
    <3>1. MaxMsgs \in Nat /\ Len(script) < MaxMsgs
      BY ControlAssumption DEF ClientSends
    <3> QED BY <1>1, <1>2, <3>1
  <2> QED BY <1>0, <1>1, <1>3, <2>2, <2>3, <2>4 DEF TypeOK, Msg, connVars, outVars, ptyVars, histVars
<1>5. ScriptInv'
  BY <1>0, SendScript
<1>6. ASSUME ~unanswered'
      PROVE  /\ Used' = Used /\ Used \in Nat /\ Len(dispatched) <= Len(script)
             /\ \A i \in 1 .. Len(script) : WellFormed(i)' <=> WellFormed(i)
  <2>1. ~unanswered /\ dispatched' = dispatched /\ Len(dispatched) <= Len(script)
    BY <1>0, <1>6 DEF OrderInv, histVars
  <2>2. dispatched # <<>> => Len(dispatched) \in 1 .. Len(script)
    BY <1>0, <1>2, <2>1, SeqFacts, EmptySeq
  <2> QED BY <1>0, <1>1, <2>1, <2>2, UsedFact DEF Used, WellFormed
<1>7. StreamInv'
  <2>1. UNCHANGED <<rbuf, isData, unanswered>> /\ Len(unread) \in Nat /\ Len(rbuf) \in Nat
    BY <1>0, LenFacts DEF connVars, histVars
  <2>2. Len(unread) <= Sent
    BY <1>0 DEF StreamInv
  <2>3. Len(unread') <= Sent'
    BY <1>1, <1>2, <1>3, <2>1, <2>2
  <2>4. ASSUME ~isData, ~unanswered'
        PROVE  Used' + Len(rbuf') + Len(unread') = Sent' /\ Piece(rbuf', Same, Used')
    <3>1. Used + Len(rbuf) + Len(unread) = Sent /\ Piece(rbuf, Same, Used)
      BY <1>0, <2>1, <2>4 DEF StreamInv
    <3>2. Used' = Used /\ Used \in Nat
      BY <1>6, <2>4
    <3>3. Len(unread') = Len(unread) + Size(kind) /\ Sent' = Sent + Size(kind)
      BY <1>1, <1>3
    <3>4. Size(kind) \in Nat /\ Sent \in Nat
      BY <1>2
    <3> QED BY <2>1, <3>1, <3>2, <3>3, <3>4
  <2>5. isData' => rbuf' = <<>>
    BY <1>0, <2>1 DEF StreamInv
  <2> QED BY <1>3, <2>1, <2>3, <2>4, <2>5 DEF StreamInv
<1>8. OrderInv'
  <2> SUFFICES ASSUME ~unanswered' PROVE OrderInv'
    BY DEF OrderInv
  <2>1. dispatched' = dispatched /\ ~unanswered /\ Len(dispatched) \in Nat /\ DOMAIN dispatched = 1 .. Len(dispatched)
    BY <1>0, SeqFacts, LenProperties DEF histVars
  <2> QED BY <1>0, <1>1, <1>2, <1>6, <2>1 DEF OrderInv
<1>9. ReplyInv'
  <2> SUFFICES ASSUME ~unanswered' PROVE ReplyInv'
    BY DEF ReplyInv
  <2>1. UNCHANGED <<dispatched, unanswered, got, sock, wbuf, isData, rbuf>>
    BY <1>0 DEF histVars, outVars, connVars
  <2>2. Refused(Len(dispatched) + 1) => Refused(Len(dispatched) + 1)'
    BY <1>1, <1>2, <1>6, <2>1 DEF Refused
  <2> QED BY <1>0, <2>1, <2>2 DEF ReplyInv
<1>10. InputInv'
  <2>1. /\ UNCHANGED <<isData, bound, pin, tty, typed, dispatched, lost, unanswered>>
        /\ Len(unread) \in Nat /\ Len(typed) \in Nat /\ Len(tty) \in Nat /\ Len(pin) \in Nat
    BY <1>0, LenFacts DEF connVars, ptyVars, histVars
  <2>2. ASSUME bound', ~lost', ~unanswered'
        PROVE  /\ Used' = Used /\ Used \in Nat
               /\ Used' + Len(typed) + Len(tty) + Len(pin) + Len(unread') = Sent'
    <3>1. Used + Len(typed) + Len(tty) + Len(pin) + Len(unread) = Sent
      BY <1>0, <2>1, <2>2 DEF InputInv
    <3>2. Used' = Used /\ Used \in Nat
      BY <1>6, <2>2
    <3>3. Len(unread') = Len(unread) + Size(kind) /\ Sent' = Sent + Size(kind)
      BY <1>1, <1>3
    <3>4. Size(kind) \in Nat /\ Sent \in Nat
      BY <1>2
    <3> QED BY <2>1, <3>1, <3>2, <3>3, <3>4
  <2> QED BY <1>0, <2>1, <2>2 DEF InputInv
<1>11. ParseInv'
  BY <1>0 DEF ParseInv, connVars
<1> QED BY <1>4, <1>5, <1>7, <1>8, <1>9, <1>10, <1>11 DEF IInv

LEMMA ClientReadsStep == ASSUME IInv, ClientReads PROVE IInv'
<1>0. /\ TypeOK /\ ScriptInv /\ StreamInv /\ OrderInv /\ ReplyInv /\ InputInv /\ ParseInv
      /\ sock # <<>> /\ got' = Append(got, Head(sock)) /\ sock' = Tail(sock)
      /\ UNCHANGED <<inVars, connVars, wbuf, interest, ptyVars, pc, histVars>>
  BY DEF IInv, ClientReads
<1> DEFINE S == DOMAIN script
<1>1. /\ got \in Seq(S) /\ sock \in Seq(S) /\ Len(got) \in Nat /\ Len(sock) \in Nat /\ Len(wbuf) \in Nat
      /\ SockCap \in Nat /\ Len(sock) <= SockCap /\ Len(dispatched) \in Nat
  BY <1>0, SeqFacts, LenFacts
<1>2. /\ got' \in Seq(S) /\ Len(got') = Len(got) + 1
      /\ sock' \in Seq(S) /\ Len(sock') = Len(sock) - 1
  BY <1>0, <1>1, ShiftTypes
<1>3. TypeOK'
  BY <1>0, <1>1, <1>2, SameScript DEF TypeOK, inVars, connVars, ptyVars, histVars
<1>4. ReplyInv'
  <2> SUFFICES ASSUME ~unanswered' PROVE ReplyInv'
    BY DEF ReplyInv
  <2>1. UNCHANGED <<dispatched, unanswered, wbuf, isData, rbuf, script>>
    BY <1>0 DEF histVars, inVars, connVars
  <2>2. PICK f : f = Answer(Len(dispatched))
    OBVIOUS
  <2>3. Piece(got, f, 0) /\ Piece(sock, f, 0 + Len(got))
    BY <1>0, <1>1, <2>1, <2>2 DEF ReplyInv
  <2>4. Piece(got', f, 0) /\ Piece(sock', f, 0 + Len(got) + 1)
    BY <1>0, <1>1, <2>3, PieceShift
  <2>5. Len(got') + Len(sock') = Len(got) + Len(sock) /\ 0 + Len(got) + 1 = Len(got')
    BY <1>1, <1>2
  <2>6. Refused(Len(dispatched) + 1)' <=> Refused(Len(dispatched) + 1)
    BY <2>1 DEF Refused, WellFormed
  <2> QED BY <1>0, <2>1, <2>2, <2>4, <2>5, <2>6 DEF ReplyInv
<1> QED BY <1>0, <1>3, <1>4, SameScript, SameStream, SameOrder, SameInput
        DEF IInv, ParseInv, inVars, connVars, ptyVars, histVars

LEMMA QuietSteps ==
  ASSUME IInv,
         ClientCloses \/ PtyBreaks \/ Evict \/ ReadEof \/ ConnDone \/ ParseIncomplete
  PROVE  IInv'
<1>0. TypeOK /\ ScriptInv /\ StreamInv /\ OrderInv /\ ReplyInv /\ InputInv /\ ParseInv
  BY DEF IInv
<1>1. /\ UNCHANGED <<script, unread, rbuf, isData, wbuf, sock, got, pin, tty, typed,
                     dispatched, overrun, unanswered, lost>>
      /\ bound' => bound
      /\ pc' = "parse" => pc = "parse"
  <2>1. CASE ClientCloses
    BY <2>1 DEF ClientCloses, connVars, outVars, ptyVars, histVars
  <2>2. CASE PtyBreaks
    BY <2>2 DEF PtyBreaks, inVars, connVars, outVars, histVars
  <2>3. CASE Evict
    BY <2>3 DEF Evict, inVars, ptyVars, histVars
  <2>4. CASE ReadEof
    BY <2>4 DEF ReadEof, inVars, outVars, ptyVars, histVars
  <2>5. CASE ConnDone
    BY <2>5 DEF ConnDone, inVars, ptyVars, histVars
  <2>6. CASE ParseIncomplete
    BY <2>6 DEF ParseIncomplete, inVars, connVars, outVars, ptyVars, histVars
  <2> QED BY <2>1, <2>2, <2>3, <2>4, <2>5, <2>6
<1>2. Sent' = Sent
  BY <1>1 DEF Sent
<1>3. /\ {peer, bound, wantClose, interest, open, pinInterest, broken, shut}' \subseteq BOOLEAN
      /\ pc' \in {"wait", "read", "parse", "end"}
  <2>1. /\ {peer, bound, wantClose, interest, open, pinInterest, broken, shut} \subseteq BOOLEAN
        /\ pc \in {"wait", "read", "parse", "end"}
    BY <1>0 DEF TypeOK
  <2>2. CASE ClientCloses
    BY <2>1, <2>2 DEF ClientCloses, connVars, outVars, ptyVars
  <2>3. CASE PtyBreaks
    BY <2>1, <2>3 DEF PtyBreaks, inVars, connVars, outVars
  <2>4. CASE Evict
    BY <2>1, <2>4 DEF Evict, inVars, ptyVars
  <2>5. CASE ReadEof
    BY <2>1, <2>5 DEF ReadEof, inVars, outVars, ptyVars
  <2>6. CASE ConnDone
    BY <2>1, <2>6 DEF ConnDone, inVars, ptyVars
  <2>7. CASE ParseIncomplete
    BY <2>1, <2>7 DEF ParseIncomplete, inVars, connVars, outVars, ptyVars
  <2> QED BY <2>2, <2>3, <2>4, <2>5, <2>6, <2>7
<1>4. TypeOK'
  BY <1>0, <1>1, <1>2, <1>3 DEF TypeOK
<1> QED BY <1>0, <1>1, <1>4, SameScript, SameStream, SameOrder, SameReply, SameInput
        DEF IInv, ParseInv

LEMMA ChildReadsStep == ASSUME IInv, ChildReads PROVE IInv'
<1>0. /\ TypeOK /\ ScriptInv /\ StreamInv /\ OrderInv /\ ReplyInv /\ InputInv /\ ParseInv
      /\ tty # <<>> /\ typed' = Append(typed, Head(tty)) /\ tty' = Tail(tty)
      /\ UNCHANGED <<inVars, connVars, outVars, pin, pinInterest, broken, pc, histVars>>
  BY DEF IInv, ChildReads
<1>1. UNCHANGED <<script, unread, isData, bound, pin, dispatched, unanswered, lost>>
  BY <1>0 DEF inVars, connVars, histVars
<1>2. /\ typed \in Seq(1 .. Sent) /\ tty \in Seq(1 .. Sent)
      /\ Len(typed) \in Nat /\ Len(tty) \in Nat /\ Len(pin) \in Nat /\ Len(unread) \in Nat
      /\ PtyCap \in Nat /\ Len(tty) <= PtyCap
  BY <1>0, SeqFacts, LenFacts
<1>3. /\ typed' \in Seq(1 .. Sent) /\ Len(typed') = Len(typed) + 1
      /\ tty' \in Seq(1 .. Sent) /\ Len(tty') = Len(tty) - 1
  BY <1>0, <1>2, ShiftTypes
<1>4. TypeOK'
  BY <1>0, <1>1, <1>2, <1>3, SameScript DEF TypeOK, inVars, connVars, outVars, histVars
<1>5. ASSUME bound', ~lost', ~unanswered'
      PROVE  /\ Used' = Used /\ Sent' = Sent
             /\ Piece(typed', Same, Used)
             /\ Piece(tty', Same, Used + Len(typed'))
             /\ Piece(pin', Same, Used + Len(typed') + Len(tty'))
             /\ Used + Len(typed') + Len(tty') + Len(pin') + Len(unread') = Sent
  <2>1. /\ Piece(typed, Same, Used) /\ Piece(tty, Same, Used + Len(typed))
        /\ Piece(pin, Same, Used + Len(typed) + Len(tty))
        /\ Used + Len(typed) + Len(tty) + Len(pin) + Len(unread) = Sent
    BY <1>0, <1>1, <1>5 DEF InputInv
  <2>2. Used \in Nat
    BY <1>0, <1>1, <1>5, UsedFact
  <2>3. Piece(typed', Same, Used) /\ Piece(tty', Same, Used + Len(typed) + 1)
    BY <1>0, <1>2, <2>1, <2>2, PieceShift
  <2>4. /\ Used + Len(typed) + 1 = Used + Len(typed')
        /\ Used + Len(typed) + Len(tty) = Used + Len(typed') + Len(tty')
    BY <1>2, <1>3, <2>2
  <2> QED BY <1>1, <2>1, <2>3, <2>4 DEF Used, Sent
<1>6. InputInv'
  BY <1>0, <1>1, <1>5 DEF InputInv
<1> QED BY <1>0, <1>4, <1>6, SameScript, SameStream, SameOrder, SameReply
        DEF IInv, ParseInv, inVars, connVars, outVars, histVars

-----------------------------------------------------------------------------
(* Input on its way to the terminal *)

\* What the PTY has no room for is what it did not take.
LEMMA RoomFact ==
  ASSUME TypeOK, NEW p \in Seq(1 .. Sent)
  PROVE  /\ Least(Len(p), Room) \in 0 .. Len(p) /\ Len(tty) + Least(Len(p), Room) <= PtyCap
         /\ SubSeq(p, Room + 1, Len(p)) = SubSeq(p, Least(Len(p), Room) + 1, Len(p))
<1>1. Len(p) \in Nat /\ Len(tty) \in Nat /\ PtyCap \in Nat /\ Len(tty) <= PtyCap
  BY SeqFacts, LenFacts, LenProperties
<1>2. PICK r \in Nat : r = Room
  BY <1>1 DEF Room
<1>3. Len(tty) + r = PtyCap
  BY <1>1, <1>2 DEF Room
<1>4. Least(Len(p), r) \in 0 .. Len(p) /\ Len(tty) + Least(Len(p), r) <= PtyCap
  BY <1>1, <1>3 DEF Least
<1>5. SubSeq(p, r + 1, Len(p)) = SubSeq(p, Least(Len(p), r) + 1, Len(p))
  <2>1. CASE r <= Len(p)
    <3>1. Least(Len(p), r) = r
      BY <1>1, <2>1 DEF Least
    <3> QED BY <3>1
  <2>2. CASE r > Len(p)
    <3>1. Least(Len(p), r) = Len(p)
      BY <1>1, <2>2 DEF Least
    <3>2. \A m \in Int : Len(p) < m => SubSeq(p, m, Len(p)) = <<>>
      BY <1>1, SubSeqEmpty
    <3>3. SubSeq(p, r + 1, Len(p)) = <<>> /\ SubSeq(p, Len(p) + 1, Len(p)) = <<>>
      BY <1>1, <2>2, <3>2
    <3> QED BY <3>1, <3>3
  <2>3. r <= Len(p) \/ r > Len(p)
    BY <1>1, <1>2
  <2> QED BY <2>1, <2>2, <2>3, Zenon
<1> QED BY <1>2, <1>4, <1>5, Zenon

LEMMA FlushTypes ==
  ASSUME TypeOK, NEW p \in Seq(1 .. Sent), FlushInput(p)
  PROVE  /\ pin' \in Seq(1 .. Sent) /\ tty' \in Seq(1 .. Sent) /\ Len(tty') <= PtyCap
         /\ {pinInterest', broken', lost'} \subseteq BOOLEAN
         /\ typed' = typed /\ (lost => lost')
<1>1. PICK n \in 0 .. Len(p) : n = Least(Len(p), Room)
  BY RoomFact
<1>2. /\ Len(tty) + n <= PtyCap
      /\ SubSeq(p, Room + 1, Len(p)) = SubSeq(p, n + 1, Len(p))
  BY <1>1, RoomFact
<1>3. tty \in Seq(1 .. Sent) /\ Len(tty) <= PtyCap /\ {broken, lost} \subseteq BOOLEAN
  BY SeqFacts DEF TypeOK
<1>4. /\ tty \o SubSeq(p, 1, n) \in Seq(1 .. Sent) /\ Len(tty \o SubSeq(p, 1, n)) = Len(tty) + n
      /\ SubSeq(p, n + 1, Len(p)) \in Seq(1 .. Sent)
  BY <1>3, MoveTypes
<1>5. pin' \in Seq(1 .. Sent)
  BY <1>2, <1>4, EmptySeq DEF FlushInput
<1>6. tty' \in Seq(1 .. Sent) /\ Len(tty') <= PtyCap
  BY <1>1, <1>2, <1>3, <1>4 DEF FlushInput
<1>7. {pinInterest', broken', lost'} \subseteq BOOLEAN /\ typed' = typed /\ (lost => lost')
  BY <1>3 DEF FlushInput
<1> QED BY <1>5, <1>6, <1>7

\* Terminal and queue hold the same input, in order, as before.
LEMMA FlushKeeps ==
  ASSUME TypeOK, NEW p \in Seq(1 .. Sent), FlushInput(p), ~lost', NEW a \in Nat,
         Piece(tty, Same, a), Piece(p, Same, a + Len(tty))
  PROVE  /\ Piece(tty', Same, a) /\ Piece(pin', Same, a + Len(tty'))
         /\ Len(tty') + Len(pin') = Len(tty) + Len(p)
<1>1. PICK n \in 0 .. Len(p) : n = Least(Len(p), Room)
  BY RoomFact
<1>2. SubSeq(p, Room + 1, Len(p)) = SubSeq(p, n + 1, Len(p))
  BY <1>1, RoomFact
<1>3. tty \in Seq(1 .. Sent) /\ Len(tty) \in Nat /\ Len(p) \in Nat
  BY SeqFacts, LenFacts, LenProperties
<1>4. CASE broken
  <2>1. p = <<>> /\ pin' = <<>> /\ tty' = tty
    BY <1>4 DEF FlushInput
  <2> QED BY <2>1, PieceEmpty
<1>5. CASE ~broken
  <2>1. tty' = tty \o SubSeq(p, 1, n) /\ pin' = SubSeq(p, n + 1, Len(p))
    BY <1>1, <1>2, <1>5 DEF FlushInput
  <2>2. Len(tty') = Len(tty) + n /\ Len(pin') = Len(p) - n
    BY <1>3, <2>1, MoveTypes
  <2>3. Piece(tty', Same, a) /\ Piece(pin', Same, a + Len(tty) + n)
    BY <1>3, <2>1, PieceMove
  <2>4. a + Len(tty) + n = a + Len(tty') /\ Len(tty') + Len(pin') = Len(tty) + Len(p)
    BY <1>3, <2>2
  <2> QED BY <2>3, <2>4
<1> QED BY <1>4, <1>5

LEMMA DataTypes ==
  ASSUME TypeOK, NEW on \in BOOLEAN, NEW bytes \in Seq(1 .. Sent), DataToPty(on, bytes)
  PROVE  /\ pin' \in Seq(1 .. Sent) /\ tty' \in Seq(1 .. Sent) /\ Len(tty') <= PtyCap
         /\ {pinInterest', broken', lost'} \subseteq BOOLEAN
         /\ typed' = typed /\ (lost => lost')
         /\ ~on => UNCHANGED <<pin, tty, lost>>
<1>1. /\ pin \in Seq(1 .. Sent) /\ tty \in Seq(1 .. Sent) /\ Len(tty) <= PtyCap
      /\ {pinInterest, broken, lost} \subseteq BOOLEAN
  BY SeqFacts DEF TypeOK
<1>2. PICK p \in Seq(1 .. Sent) : p = pin \o bytes
  BY <1>1, ConcatTypes
<1>3. CASE on /\ FlushInput(pin \o bytes)
  BY <1>2, <1>3, FlushTypes
<1>4. CASE ~on /\ UNCHANGED <<ptyVars, lost>>
  BY <1>1, <1>4 DEF ptyVars
<1>5. CASE on /\ lost' = TRUE /\ pinInterest' = (pin # <<>>) /\ UNCHANGED <<pin, tty, typed, broken>>
  BY <1>1, <1>5
<1> QED BY <1>3, <1>4, <1>5 DEF DataToPty

LEMMA DataKeeps ==
  ASSUME TypeOK, NEW bytes \in Seq(1 .. Sent), DataToPty(TRUE, bytes), ~lost', NEW a \in Nat,
         Piece(tty, Same, a), Piece(pin, Same, a + Len(tty)),
         Piece(bytes, Same, a + Len(tty) + Len(pin))
  PROVE  /\ Piece(tty', Same, a) /\ Piece(pin', Same, a + Len(tty'))
         /\ Len(tty') + Len(pin') = Len(tty) + Len(pin) + Len(bytes)
<1>1. /\ pin \in Seq(1 .. Sent) /\ tty \in Seq(1 .. Sent)
      /\ Len(pin) \in Nat /\ Len(tty) \in Nat /\ Len(bytes) \in Nat
  BY SeqFacts, LenFacts, LenProperties
<1>2. PICK b \in Nat : b = a + Len(tty)
  BY <1>1
<1>3. Piece(pin \o bytes, Same, b) /\ pin \o bytes \in Seq(1 .. Sent)
      /\ Len(pin \o bytes) = Len(pin) + Len(bytes)
  BY <1>1, <1>2, PieceConcat
<1>4. PICK p \in Seq(1 .. Sent) : p = pin \o bytes
  BY <1>3
<1>5. FlushInput(p)
  BY <1>4 DEF DataToPty
<1>6. Piece(p, Same, a + Len(tty)) /\ Len(p) = Len(pin) + Len(bytes)
  BY <1>2, <1>3, <1>4
<1>7. /\ Piece(tty', Same, a) /\ Piece(pin', Same, a + Len(tty'))
      /\ Len(tty') + Len(pin') = Len(tty) + Len(p)
  BY <1>5, <1>6, FlushKeeps
<1> QED BY <1>1, <1>6, <1>7

LEMMA PtyWritableStep == ASSUME IInv, PtyWritable PROVE IInv'
<1>0. /\ TypeOK /\ ScriptInv /\ StreamInv /\ OrderInv /\ ReplyInv /\ InputInv /\ ParseInv
      /\ FlushInput(pin)
      /\ UNCHANGED <<inVars, connVars, outVars, pc, dispatched, overrun, unanswered>>
  BY DEF IInv, PtyWritable
<1>1. UNCHANGED <<script, unread, rbuf, isData, bound>>
  BY <1>0 DEF inVars, connVars
<1>2. pin \in Seq(1 .. Sent)
  BY <1>0, SeqFacts
<1>3. /\ pin' \in Seq(1 .. Sent) /\ tty' \in Seq(1 .. Sent) /\ Len(tty') <= PtyCap
      /\ {pinInterest', broken', lost'} \subseteq BOOLEAN
      /\ typed' = typed /\ (lost => lost')
  BY <1>0, <1>2, FlushTypes
<1>4. TypeOK'
  BY <1>0, <1>1, <1>3, SameScript DEF TypeOK, inVars, connVars, outVars
<1>5. ASSUME bound', ~lost', ~unanswered'
      PROVE  /\ Piece(tty', Same, Used + Len(typed))
             /\ Piece(pin', Same, Used + Len(typed) + Len(tty'))
             /\ Used + Len(typed) + Len(tty') + Len(pin') + Len(unread) = Sent
  <2>1. /\ Piece(tty, Same, Used + Len(typed))
        /\ Piece(pin, Same, Used + Len(typed) + Len(tty))
        /\ Used + Len(typed) + Len(tty) + Len(pin) + Len(unread) = Sent
    BY <1>0, <1>1, <1>3, <1>5 DEF InputInv
  <2>2. Used \in Nat /\ Len(typed) \in Nat /\ Len(tty) \in Nat /\ Len(pin) \in Nat /\ Len(unread) \in Nat
    BY <1>0, <1>5, UsedFact, LenFacts
  <2>3. PICK a \in Nat : a = Used + Len(typed)
    BY <2>2
  <2>4. /\ Piece(tty', Same, a) /\ Piece(pin', Same, a + Len(tty'))
        /\ Len(tty') + Len(pin') = Len(tty) + Len(pin)
    BY <1>0, <1>2, <1>5, <2>1, <2>3, FlushKeeps
  <2>5. Len(tty') \in Nat /\ Len(pin') \in Nat
    BY <1>3, LenProperties
  <2> QED BY <2>1, <2>2, <2>3, <2>4, <2>5
<1>6. InputInv'
  <2>1. ASSUME ~isData PROVE pin' = <<>> /\ tty' = <<>>
    <3>1. pin = <<>> /\ tty = <<>>
      BY <1>0, <2>1 DEF InputInv
    <3>2. PICK r \in Nat : r = Room
      BY <1>0, SeqFacts, LenFacts DEF Room
    <3>3. Len(pin) = 0 /\ Least(0, r) = 0
      BY <1>2, <3>1, <3>2, EmptySeq DEF Least
    <3>4. \A m \in Int : 0 < m => SubSeq(pin, m, 0) = <<>>
      BY SubSeqEmpty
    <3>5. SubSeq(pin, 1, 0) = <<>> /\ SubSeq(pin, r + 1, 0) = <<>>
      BY <3>2, <3>4
    <3>6. tty \o <<>> = <<>>
      BY <1>0, <3>1, SeqFacts, ConcatEmptySeq
    <3> QED BY <1>0, <3>1, <3>2, <3>3, <3>5, <3>6 DEF FlushInput
  <2>2. Used' = Used /\ Sent' = Sent
    BY <1>0, <1>1 DEF Used, Sent
  <2> QED BY <1>0, <1>1, <1>3, <1>5, <2>1, <2>2 DEF InputInv
<1> QED BY <1>0, <1>1, <1>3, <1>4, <1>6, SameScript, SameStream, SameOrder, SameReply
        DEF IInv, ParseInv, inVars, connVars, outVars

-----------------------------------------------------------------------------
(* The connection's event *)

LEMMA ConnEventStep == ASSUME IInv, ConnEvent PROVE IInv'
<1>0. /\ TypeOK /\ ScriptInv /\ StreamInv /\ OrderInv /\ ReplyInv /\ InputInv /\ ParseInv
      /\ UNCHANGED <<inVars, isData, bound, open, shut, interest, got, ptyVars, histVars>>
      /\ pc' \in {"read", "end"}
  BY DEF IInv, ConnEvent
<1>1. /\ sock \in Seq(DOMAIN script) /\ wbuf \in Seq(DOMAIN script) /\ got \in Seq(DOMAIN script)
      /\ Len(sock) \in Nat /\ Len(wbuf) \in Nat /\ Len(got) \in Nat
      /\ SockCap \in Nat /\ Len(sock) <= SockCap
  BY <1>0, SeqFacts, LenFacts
<1>2. PICK n \in 0 .. Len(wbuf) :
        /\ sock' = sock \o SubSeq(wbuf, 1, n) /\ wbuf' = SubSeq(wbuf, n + 1, Len(wbuf))
        /\ Len(sock) + n <= SockCap
  <2>1. CASE Writable /\ Gone
    <3>1. Flushed = <<>> /\ Len(<<>>) = 0
      BY <2>1, EmptySeq DEF Flushed
    <3>2. sock' = sock \o <<>> /\ wbuf' = SubSeq(wbuf, 0 + 1, Len(wbuf))
      BY <2>1, <3>1 DEF ConnEvent
    <3>3. SubSeq(wbuf, 1, 0) = <<>>
      BY SubSeqEmpty
    <3>4. 0 \in 0 .. Len(wbuf) /\ Len(sock) + 0 <= SockCap
      BY <1>1
    <3> QED BY <3>2, <3>3, <3>4
  <2>2. CASE Writable /\ ~Gone
    <3>0. SockCap - Len(sock) \in Nat
      BY <1>1
    <3>1. Least(Len(wbuf), SockCap - Len(sock)) \in 0 .. Len(wbuf)
      <4>1. \A x, y \in Nat : Least(x, y) \in 0 .. x
        BY DEF Least
      <4> QED BY <1>1, <3>0, <4>1
    <3>a. PICK n \in 0 .. Len(wbuf) : n = Least(Len(wbuf), SockCap - Len(sock))
      BY <3>1
    <3>2. Len(sock) + n <= SockCap
      <4>1. n <= SockCap - Len(sock)
        BY <1>1, <3>0, <3>a, LeastFact
      <4> QED BY <1>1, <4>1
    <3>3. Flushed = SubSeq(wbuf, 1, n) /\ Len(Flushed) = n
      BY <1>1, <2>2, <3>a, SplitTypes DEF Flushed
    <3>4. sock' = sock \o SubSeq(wbuf, 1, n) /\ wbuf' = SubSeq(wbuf, n + 1, Len(wbuf))
      BY <2>2, <3>3 DEF ConnEvent
    <3> QED BY <3>2, <3>4
  <2>3. CASE ~Writable
    <3>1. sock' = sock /\ wbuf' = wbuf
      BY <2>3 DEF ConnEvent
    <3>2. SubSeq(wbuf, 1, 0) = <<>> /\ SubSeq(wbuf, 1, Len(wbuf)) = wbuf /\ sock \o <<>> = sock
      BY <1>1, SubSeqEmpty, SubSeqFull, ConcatEmptySeq
    <3>3. 0 \in 0 .. Len(wbuf) /\ Len(sock) + 0 <= SockCap /\ 0 + 1 = 1
      BY <1>1
    <3> QED BY <3>1, <3>2, <3>3
  <2> QED BY <2>1, <2>2, <2>3
<1>3. /\ sock' \in Seq(DOMAIN script) /\ Len(sock') = Len(sock) + n
      /\ wbuf' \in Seq(DOMAIN script) /\ Len(wbuf') = Len(wbuf) - n
  <2>1. /\ sock \o SubSeq(wbuf, 1, n) \in Seq(DOMAIN script)
        /\ Len(sock \o SubSeq(wbuf, 1, n)) = Len(sock) + n
        /\ SubSeq(wbuf, n + 1, Len(wbuf)) \in Seq(DOMAIN script)
        /\ Len(SubSeq(wbuf, n + 1, Len(wbuf))) = Len(wbuf) - n
    BY <1>1, MoveTypes
  <2> QED BY <1>2, <2>1
<1>4. wantClose' \in BOOLEAN
  BY <1>0 DEF ConnEvent, TypeOK
<1>5. TypeOK'
  BY <1>0, <1>2, <1>3, <1>4, SameScript DEF TypeOK, inVars, ptyVars, histVars
<1>6. ReplyInv'
  <2> SUFFICES ASSUME ~unanswered' PROVE ReplyInv'
    BY DEF ReplyInv
  <2>1. UNCHANGED <<dispatched, unanswered, got, isData, rbuf, script>>
    BY <1>0 DEF histVars, inVars
  <2>2. PICK f : f = Answer(Len(dispatched))
    OBVIOUS
  <2>3. Piece(sock, f, Len(got)) /\ Piece(wbuf, f, Len(got) + Len(sock))
    BY <1>0, <2>1, <2>2 DEF ReplyInv
  <2>4. Piece(sock', f, Len(got)) /\ Piece(wbuf', f, Len(got) + Len(sock) + n)
    BY <1>1, <1>2, <2>3, PieceMove
  <2>5. /\ Len(got) + Len(sock) + n = Len(got) + Len(sock')
        /\ Len(got) + Len(sock') + Len(wbuf') = Len(got) + Len(sock) + Len(wbuf)
    BY <1>1, <1>3
  <2>6. Refused(Len(dispatched) + 1)' <=> Refused(Len(dispatched) + 1)
    BY <2>1 DEF Refused, WellFormed
  <2> QED BY <1>0, <2>1, <2>2, <2>4, <2>5, <2>6 DEF ReplyInv
<1> QED BY <1>0, <1>5, <1>6, SameScript, SameStream, SameOrder, SameInput
        DEF IInv, ParseInv, inVars, ptyVars, histVars

LEMMA ReadInputStep ==
  ASSUME IInv, NEW n \in 1 .. Chunk, ReadInput(n)
  PROVE  IInv'
<1>0. /\ TypeOK /\ ScriptInv /\ StreamInv /\ OrderInv /\ ReplyInv /\ InputInv /\ ParseInv
      /\ isData /\ n \in 0 .. Len(unread)
      /\ unread' = SubSeq(unread, n + 1, Len(unread))
      /\ DataToPty(bound, SubSeq(unread, 1, n))
      /\ pc' = "end"
      /\ UNCHANGED <<script, peer, rbuf, connVars, outVars, dispatched, overrun, unanswered>>
  BY LenFacts, ControlAssumption DEF IInv, ReadInput
<1>n. n \in Nat /\ n <= Len(unread) /\ Len(unread) \in Nat /\ Sent \in Nat
  BY <1>0, LenFacts, SentFact
<1>1. UNCHANGED <<isData, bound>>
  BY <1>0 DEF connVars
<1>2. /\ unread \in Seq(1 .. Sent) /\ Len(unread) \in Nat /\ Sent \in Nat /\ bound \in BOOLEAN
      /\ isData \in BOOLEAN
  BY <1>0, SeqFacts, LenFacts, SentFact DEF TypeOK
<1>3. PICK bytes \in Seq(1 .. Sent) : bytes = SubSeq(unread, 1, n) /\ Len(bytes) = n
  <2>1. SubSeq(unread, 1, n) \in Seq(1 .. Sent) /\ Len(SubSeq(unread, 1, n)) = n
    BY <1>0, <1>2, SplitTypes
  <2> QED BY <2>1
<1>4. unread' \in Seq(1 .. Sent) /\ Len(unread') = Len(unread) - n
  BY <1>0, <1>2, SplitTypes
<1>5. /\ pin' \in Seq(1 .. Sent) /\ tty' \in Seq(1 .. Sent) /\ Len(tty') <= PtyCap
      /\ {pinInterest', broken', lost'} \subseteq BOOLEAN
      /\ typed' = typed /\ (lost => lost')
  BY <1>0, <1>2, <1>3, DataTypes
<1>6. TypeOK'
  BY <1>0, <1>4, <1>5, SameScript DEF TypeOK, connVars, outVars
<1>7. Len(unread) <= Sent /\ Piece(unread, Same, Sent - Len(unread)) /\ rbuf = <<>>
  BY <1>0 DEF StreamInv
<1>8. PICK u \in Nat : u = Sent - Len(unread)
  BY <1>2, <1>7
<1>9. Piece(bytes, Same, u) /\ Piece(unread', Same, u + n)
  BY <1>0, <1>2, <1>3, <1>7, <1>8, PieceSplit
<1>10. Sent' = Sent /\ Used' = Used
  BY <1>0 DEF Sent, Used
<1>11. StreamInv'
  <2>1. u + n = Sent' - Len(unread') /\ Len(unread') <= Sent'
    <3>1. Sent' = Sent /\ Len(unread') = Len(unread) - n /\ Len(unread) <= Sent
      BY <1>4, <1>7, <1>10
    <3> QED BY <1>n, <1>8, <3>1
  <2> QED BY <1>0, <1>1, <1>7, <1>9, <2>1 DEF StreamInv
<1>12. ASSUME bound', ~lost', ~unanswered'
       PROVE  /\ Piece(typed', Same, Used)
              /\ Piece(tty', Same, Used + Len(typed'))
              /\ Piece(pin', Same, Used + Len(typed') + Len(tty'))
              /\ Used + Len(typed') + Len(tty') + Len(pin') + Len(unread') = Sent
  <2>1. /\ Piece(typed, Same, Used) /\ Piece(tty, Same, Used + Len(typed))
        /\ Piece(pin, Same, Used + Len(typed) + Len(tty))
        /\ Used + Len(typed) + Len(tty) + Len(pin) + Len(unread) = Sent
    BY <1>0, <1>1, <1>5, <1>12 DEF InputInv
  <2>2. Used \in Nat /\ Len(typed) \in Nat /\ Len(tty) \in Nat /\ Len(pin) \in Nat
    BY <1>0, <1>12, UsedFact, LenFacts
  <2>3. PICK a \in Nat : a = Used + Len(typed)
    BY <2>2
  <2>4. a + Len(tty) + Len(pin) = u
    BY <1>2, <1>8, <2>1, <2>2, <2>3
  <2>5. DataToPty(TRUE, bytes)
    BY <1>0, <1>1, <1>2, <1>3, <1>12
  <2>6. /\ Piece(tty', Same, a) /\ Piece(pin', Same, a + Len(tty'))
        /\ Len(tty') + Len(pin') = Len(tty) + Len(pin) + Len(bytes)
    BY <1>0, <1>9, <1>12, <2>1, <2>3, <2>4, <2>5, DataKeeps
  <2>7. Len(tty') \in Nat /\ Len(pin') \in Nat
    BY <1>5, LenProperties
  <2>8. Used + Len(typed) + Len(tty') + Len(pin') + Len(unread') = Sent
    <3>1. /\ Used + Len(typed) + Len(tty) + Len(pin) + Len(unread) = Sent
          /\ Len(tty') + Len(pin') = Len(tty) + Len(pin) + n
          /\ Len(unread') = Len(unread) - n /\ Len(typed') = Len(typed)
      BY <1>3, <1>4, <1>5, <2>1, <2>6
    <3>2. PICK k \in Nat : k = Used + Len(typed)
      BY <2>2
    <3>3. PICK d \in Nat : d = Len(tty) + Len(pin)
      BY <2>2
    <3>4. PICK v \in Nat : v = Len(unread) /\ n <= v
      BY <1>n
    <3>5. PICK x \in Nat : x = Len(tty')
      BY <2>7
    <3>6. PICK y \in Nat : y = Len(pin')
      BY <2>7
    <3>7. k + d + v = Sent
      BY <2>2, <3>1, <3>2, <3>3, <3>4
    <3>8. x + y = d + n
      BY <3>1, <3>3, <3>5, <3>6
    <3>9. Len(unread') = v - n
      BY <3>1, <3>4
    <3>10. k + x + y + (v - n) = Sent
      <4>1. k \in Nat /\ d \in Nat /\ x \in Nat /\ y \in Nat /\ v \in Nat /\ n <= v
        BY <3>2, <3>3, <3>4, <3>5, <3>6
      <4> QED BY <1>n, <3>7, <3>8, <4>1
    <3> QED BY <3>2, <3>5, <3>6, <3>9, <3>10, Zenon
  <2> QED BY <1>5, <2>1, <2>3, <2>6, <2>8
<1>13. InputInv'
  BY <1>0, <1>1, <1>10, <1>12, <1>5 DEF InputInv
<1> QED BY <1>0, <1>6, <1>11, <1>13, SameScript, SameOrder, SameReply
        DEF IInv, ParseInv, connVars, outVars

LEMMA ReadControlStep ==
  ASSUME IInv, NEW n \in 1 .. Chunk, ReadControl(n)
  PROVE  IInv'
<1>0. /\ TypeOK /\ ScriptInv /\ StreamInv /\ OrderInv /\ ReplyInv /\ InputInv /\ ParseInv
      /\ ~isData /\ n \in 0 .. Len(unread)
      /\ unread' = SubSeq(unread, n + 1, Len(unread))
      /\ UNCHANGED <<script, peer, isData, bound, open, shut, outVars, ptyVars, dispatched, overrun, lost>>
  BY LenFacts, ControlAssumption DEF IInv, ReadControl
<1>n. n \in Nat /\ n <= Len(unread) /\ Len(unread) \in Nat /\ Sent \in Nat /\ Len(rbuf) \in Nat
  BY <1>0, LenFacts, SentFact
<1>1. /\ unread \in Seq(1 .. Sent) /\ Len(unread) \in Nat /\ Sent \in Nat
      /\ rbuf \in Seq(1 .. Sent) /\ Len(rbuf) \in Nat
  BY <1>0, SeqFacts, LenFacts, SentFact
<1>2. unread' \in Seq(1 .. Sent) /\ Len(unread') = Len(unread) - n
  BY <1>0, <1>1, SplitTypes
<1>3. Len(unread) <= Sent /\ Piece(unread, Same, Sent - Len(unread))
  BY <1>0 DEF StreamInv
<1>4. Sent' = Sent /\ Used' = Used
  BY <1>0 DEF Sent, Used
<1>5. Len(unread') <= Sent' /\ Piece(unread', Same, Sent' - Len(unread'))
  <2>0. Len(unread) <= Sent
    BY <1>3
  <2>1. PICK u \in Nat : u = Sent - Len(unread)
    BY <1>n, <2>0
  <2>2. Piece(unread', Same, u + n)
    BY <1>0, <1>1, <1>3, <2>1, PieceSplit
  <2>3. u + n = Sent' - Len(unread') /\ Len(unread') <= Sent'
    <3>1. Sent' = Sent /\ Len(unread') = Len(unread) - n
      BY <1>2, <1>4
    <3> QED BY <1>n, <2>0, <2>1, <3>1
  <2> QED BY <2>2, <2>3
<1>6. ~bound
  BY <1>0 DEF InputInv
<1>7. CASE /\ rbuf' = rbuf \o SubSeq(unread, 1, n)
           /\ pc' = "parse" /\ UNCHANGED <<wantClose, unanswered>>
  <2>1. /\ rbuf \o SubSeq(unread, 1, n) \in Seq(1 .. Sent)
        /\ Len(rbuf \o SubSeq(unread, 1, n)) = Len(rbuf) + n
    BY <1>0, <1>1, MoveTypes
  <2>2. rbuf' \in Seq(1 .. Sent) /\ Len(rbuf') = Len(rbuf) + n
    BY <1>7, <2>1
  <2>3. TypeOK'
    BY <1>0, <1>2, <1>4, <1>7, <2>2 DEF TypeOK, outVars, ptyVars
  <2>4. ASSUME ~unanswered
        PROVE  Used + Len(rbuf') + Len(unread') = Sent /\ Piece(rbuf', Same, Used)
    <3>1. Used + Len(rbuf) + Len(unread) = Sent /\ Piece(rbuf, Same, Used) /\ Used \in Nat
      BY <1>0, <2>4, UsedFact DEF StreamInv
    <3>2. Sent - Len(unread) = Used + Len(rbuf)
      BY <1>1, <3>1
    <3>3. Piece(rbuf \o SubSeq(unread, 1, n), Same, Used)
      BY <1>0, <1>1, <1>3, <3>1, <3>2, PieceMove
    <3>4. Used + Len(rbuf') + Len(unread') = Sent
      <4>1. /\ Used + Len(rbuf) + Len(unread) = Sent /\ Used \in Nat
            /\ Len(unread') = Len(unread) - n /\ Len(rbuf') = Len(rbuf) + n
        BY <1>2, <2>2, <3>1
      <4> QED BY <1>n, <4>1
    <3> QED BY <1>7, <3>3, <3>4
  <2>5. StreamInv'
    BY <1>0, <1>4, <1>5, <1>7, <2>4 DEF StreamInv
  <2>6. ReplyInv'
    <3> SUFFICES ASSUME ~unanswered' PROVE ReplyInv'
      BY DEF ReplyInv
    <3>1. UNCHANGED <<dispatched, unanswered, got, sock, wbuf, isData, script>>
      BY <1>0, <1>7 DEF outVars
    <3>2. n \in Nat /\ HeaderLen \in Nat
      BY <1>0, SeqFacts
    <3>3. Refused(Len(dispatched) + 1) => Refused(Len(dispatched) + 1)'
      BY <1>1, <2>2, <3>1, <3>2 DEF Refused, WellFormed
    <3> QED BY <1>0, <3>1, <3>3 DEF ReplyInv
  <2>7. InputInv'
    BY <1>0, <1>6 DEF InputInv, ptyVars
  <2> QED BY <1>0, <1>7, <2>3, <2>5, <2>6, <2>7, SameScript, SameOrder DEF IInv, ParseInv
<1>8. CASE /\ wantClose' = TRUE /\ unanswered' = TRUE
           /\ pc' = "end" /\ UNCHANGED rbuf
  <2>1. TypeOK'
    BY <1>0, <1>2, <1>4, <1>8 DEF TypeOK, outVars, ptyVars
  <2>2. StreamInv' /\ OrderInv' /\ ReplyInv' /\ ParseInv'
    BY <1>0, <1>5, <1>8 DEF StreamInv, OrderInv, ReplyInv, ParseInv
  <2>3. InputInv'
    BY <1>0, <1>6 DEF InputInv, ptyVars
  <2> QED BY <1>0, <2>1, <2>2, <2>3, SameScript DEF IInv
<1> QED BY <1>7, <1>8 DEF ReadControl

-----------------------------------------------------------------------------
(* Frames and replies *)

LEMMA ReplyTypes ==
  ASSUME TypeOK, NEW i \in DOMAIN script, NEW closing \in BOOLEAN, Reply(i, closing)
  PROVE  /\ wbuf' \in Seq(DOMAIN script) /\ {wantClose', overrun', unanswered'} \subseteq BOOLEAN
         /\ unanswered => unanswered'
         /\ ~unanswered' => wbuf' = Append(wbuf, i) /\ ~unanswered
<1>1. wbuf \in Seq(DOMAIN script) /\ {wantClose, overrun, unanswered} \subseteq BOOLEAN
  BY SeqFacts DEF TypeOK
<1>2. Append(wbuf, i) \in Seq(DOMAIN script)
  BY <1>1, AppendProperties
<1>3. CASE /\ wbuf' = Append(wbuf, i)
           /\ wantClose' = (wantClose \/ closing \/ Len(wbuf') > MaxWbuf)
           /\ overrun' = (overrun \/ Len(wbuf') > MaxWbuf)
           /\ UNCHANGED unanswered
  BY <1>1, <1>2, <1>3
<1>4. CASE /\ unanswered' = TRUE /\ UNCHANGED <<wbuf, overrun>>
           /\ wantClose' \in {TRUE, wantClose \/ closing}
  BY <1>1, <1>4
<1> QED BY <1>3, <1>4 DEF Reply

LEMMA ParseBadStep == ASSUME IInv, ParseBad PROVE IInv'
<1>0. /\ TypeOK /\ ScriptInv /\ StreamInv /\ OrderInv /\ ReplyInv /\ InputInv /\ ParseInv
      /\ HasHead /\ ~HeadOk /\ Reply(HeadMsg, TRUE) /\ pc = "parse" /\ pc' = "end"
      /\ UNCHANGED <<inVars, isData, bound, open, shut, interest, sock, got, ptyVars, dispatched, lost>>
  BY DEF IInv, ParseBad
<1>1. ~isData /\ rbuf # <<>> /\ Len(rbuf) >= HeaderLen
  BY <1>0, SeqFacts, EmptySeq DEF ParseInv, HasHead
<1>2. HeadMsg \in DOMAIN script
  BY <1>0, <1>1, HeadFact, SentFact
<1>3. /\ wbuf' \in Seq(DOMAIN script) /\ {wantClose', overrun', unanswered'} \subseteq BOOLEAN
      /\ unanswered => unanswered'
      /\ ~unanswered' => wbuf' = Append(wbuf, HeadMsg) /\ ~unanswered
  BY <1>0, <1>2, ReplyTypes
<1>4. UNCHANGED <<script, unread, rbuf>>
  BY <1>0 DEF inVars
<1>5. TypeOK'
  BY <1>0, <1>3, SameScript DEF TypeOK, inVars, ptyVars
<1>6. ReplyInv'
  <2> SUFFICES ASSUME ~unanswered' PROVE ReplyInv'
    BY DEF ReplyInv
  <2>1. ~unanswered /\ wbuf' = Append(wbuf, HeadMsg)
    BY <1>3
  <2>2. PICK n \in Nat : n = Len(dispatched)
    BY <1>0, LenFacts
  <2>3. HeadMsg = n + 1 /\ HeadFlen = Flen(script[HeadMsg].kind)
    BY <1>0, <1>1, <2>1, <2>2, HeadIsNext
  <2>4. ~WellFormed(n + 1)
    BY <1>0, <2>3, ControlAssumption DEF WellFormed, HeadOk, Flen
  <2>5. Refused(n + 1)'
    BY <1>0, <1>1, <1>2, <1>4, <2>3, <2>4 DEF Refused, WellFormed
  <2>6. /\ Piece(got, Answer(n), 0) /\ Piece(sock, Answer(n), Len(got))
        /\ Piece(wbuf, Answer(n), Len(got) + Len(sock))
        /\ Len(got) + Len(sock) + Len(wbuf) >= n
    BY <1>0, <2>1, <2>2 DEF ReplyInv
  <2>7. Len(got) \in Nat /\ Len(sock) \in Nat /\ Len(wbuf) \in Nat /\ wbuf \in Seq(DOMAIN script)
    BY <1>0, LenFacts, SeqFacts
  <2>8. PICK a \in Nat : a = Len(got) + Len(sock)
    BY <2>7
  <2>9. a + Len(wbuf) + 1 \in Nat /\ ~(a + Len(wbuf) + 1 <= n)
    BY <2>2, <2>6, <2>7, <2>8
  <2>10. Answer(n)[a + Len(wbuf) + 1] = n + 1
    BY <2>9 DEF Answer
  <2>11. Piece(wbuf', Answer(n), a)
    BY <1>2, <2>1, <2>3, <2>6, <2>7, <2>8, <2>10, PieceAppend
  <2>12. Len(wbuf') = Len(wbuf) + 1
    BY <1>2, <2>1, <2>7, AppendProperties
  <2>13. Len(got) + Len(sock) + Len(wbuf') >= n
    BY <2>2, <2>6, <2>7, <2>12
  <2> QED BY <1>0, <2>2, <2>5, <2>6, <2>8, <2>11, <2>13 DEF ReplyInv
<1> QED BY <1>0, <1>3, <1>4, <1>5, <1>6, SameScript, SameStream, SameOrder, SameInput
        DEF IInv, ParseInv, ptyVars

\* Dispatching the frame at the head of rbuf, and queueing its reply.
LEMMA DispatchFact ==
  ASSUME IInv, pc = "parse", HasFrame, dispatched' = Append(dispatched, HeadMsg),
         Reply(HeadMsg, FALSE), UNCHANGED <<script, got, sock>>
  PROVE  /\ HeadMsg \in DOMAIN script /\ rbuf # <<>> /\ ~isData
         /\ dispatched' \in Seq(DOMAIN script) /\ dispatched' # <<>>
         /\ wbuf' \in Seq(DOMAIN script) /\ {wantClose', overrun', unanswered'} \subseteq BOOLEAN
         /\ OrderInv' /\ ReplyInv'
         /\ unanswered => unanswered'
         /\ HeaderLen + HeadFlen \in 0 .. Len(rbuf)
         /\ ~unanswered' =>
              /\ Used \in Nat /\ Used' = Used + (HeaderLen + HeadFlen)
<1>0. TypeOK /\ ScriptInv /\ StreamInv /\ OrderInv /\ ReplyInv /\ InputInv /\ ParseInv
  BY DEF IInv
<1>1. ~isData /\ rbuf # <<>>
  BY <1>0, SeqFacts, EmptySeq DEF ParseInv, HasFrame, HasHead
<1>2. HeadMsg \in DOMAIN script /\ HeadMsg \in 1 .. Len(script)
  BY <1>0, <1>1, HeadFact, SentFact
<1>3. /\ wbuf' \in Seq(DOMAIN script) /\ {wantClose', overrun', unanswered'} \subseteq BOOLEAN
      /\ unanswered => unanswered'
      /\ ~unanswered' => wbuf' = Append(wbuf, HeadMsg) /\ ~unanswered
  BY <1>0, <1>2, ReplyTypes
<1>4. dispatched \in Seq(DOMAIN script) /\ Len(dispatched) \in Nat
  BY <1>0, SeqFacts, LenFacts
<1>5. /\ dispatched' \in Seq(DOMAIN script) /\ dispatched' # <<>>
      /\ Len(dispatched') = Len(dispatched) + 1
      /\ \A i \in 1 .. Len(dispatched) : dispatched'[i] = dispatched[i]
      /\ dispatched'[Len(dispatched) + 1] = HeadMsg
  BY <1>2, <1>4, AppendProperties
<1>6. DOMAIN dispatched = 1 .. Len(dispatched) /\ DOMAIN dispatched' = 1 .. Len(dispatched) + 1
  BY <1>4, <1>5, LenProperties
<1>7. PICK n \in Nat : n = Len(dispatched)
  BY <1>4
<1>8. ASSUME ~unanswered'
      PROVE  /\ HeadMsg = n + 1 /\ HeadFlen = Flen(script[HeadMsg].kind)
             /\ script[HeadMsg].first = Used + 1 /\ WellFormed(n + 1)
             /\ HeaderLen + HeadFlen = Size(script[HeadMsg].kind)
  <2>1. /\ HeadMsg = n + 1 /\ HeadFlen = Flen(script[HeadMsg].kind)
        /\ script[HeadMsg].first = Used + 1
    BY <1>0, <1>1, <1>3, <1>7, <1>8, HeadIsNext
  <2> QED BY <1>0, <1>2, <2>1, FrameFact
<1>9. HeaderLen + HeadFlen \in 0 .. Len(rbuf)
  <2>1. PICK k \in Kinds : k = script[HeadMsg].kind
    BY <1>0, <1>2, SentFact
  <2>2. HeadFlen \in Nat
    BY <2>1, SizeFact DEF HeadFlen
  <2>3. Len(rbuf) \in Nat /\ HeaderLen \in Nat
    BY <1>0, LenFacts, SeqFacts
  <2> QED BY <2>2, <2>3 DEF HasFrame
<1>10. ASSUME ~unanswered'
      PROVE  Used \in Nat /\ Used' = Used + (HeaderLen + HeadFlen)
  <2>1. Used \in Nat
    BY <1>0, <1>3, <1>10, UsedFact
  <2>2. Used' = script[HeadMsg].last
    BY <1>5, <1>7, <1>8, <1>10 DEF Used
  <2>3. script[HeadMsg].last = script[HeadMsg].first + Size(script[HeadMsg].kind) - 1
    BY <1>0, <1>2 DEF ScriptInv
  <2>4. PICK z \in Nat : z = Size(script[HeadMsg].kind)
    BY <1>0, <1>2, SentFact, SizeFact
  <2>5. Used' = (Used + 1) + z - 1 /\ z = HeaderLen + HeadFlen
    BY <1>8, <1>10, <2>2, <2>3, <2>4
  <2>6. (Used + 1) + z - 1 = Used + z
    BY <2>1
  <2> QED BY <2>1, <2>5, <2>6
<1>11. OrderInv'
  <2> SUFFICES ASSUME ~unanswered' PROVE OrderInv'
    BY DEF OrderInv
  <2>1. Len(dispatched') <= Len(script')
    BY <1>0, <1>2, <1>5, <1>7, <1>8
  <2>2. ASSUME NEW k \in 1 .. n + 1 PROVE dispatched'[k] = k /\ WellFormed(k)'
    <3>1. CASE k <= n
      <4>1. k \in 1 .. n
        BY <1>7, <3>1
      <4>2. dispatched[k] = k /\ WellFormed(k)
        BY <1>0, <1>3, <1>6, <1>7, <4>1 DEF OrderInv
      <4> QED BY <1>5, <1>7, <4>1, <4>2 DEF WellFormed
    <3>2. CASE k = n + 1
      BY <1>5, <1>7, <1>8, <3>2 DEF WellFormed
    <3> QED BY <1>7, <3>1, <3>2
  <2> QED BY <1>6, <1>7, <2>1, <2>2 DEF OrderInv
<1>12. ReplyInv'
  <2> SUFFICES ASSUME ~unanswered' PROVE ReplyInv'
    BY DEF ReplyInv
  <2>1. ~unanswered /\ wbuf' = Append(wbuf, n + 1) /\ WellFormed(n + 1) /\ n + 1 \in DOMAIN script
    BY <1>2, <1>3, <1>8
  <2>2. /\ Piece(got, Answer(n), 0) /\ Piece(sock, Answer(n), Len(got))
        /\ Piece(wbuf, Answer(n), Len(got) + Len(sock))
        /\ Len(got) + Len(sock) + Len(wbuf) >= n
        /\ ~(Len(got) + Len(sock) + Len(wbuf) > n)
    BY <1>0, <1>7, <2>1 DEF ReplyInv, Refused
  <2>3. /\ Len(got) \in Nat /\ Len(sock) \in Nat /\ Len(wbuf) \in Nat
    BY <1>0, LenFacts
  <2>4. /\ got \in Seq(DOMAIN script) /\ sock \in Seq(DOMAIN script) /\ wbuf \in Seq(DOMAIN script)
    BY <1>0, SeqFacts
  <2>5. PICK a \in Nat : a = Len(got) + Len(sock)
    BY <2>3
  <2>6. a + Len(wbuf) = n /\ 0 + Len(got) <= n /\ Len(got) + Len(sock) <= n
    BY <1>7, <2>2, <2>3, <2>5
  <2>7. /\ Piece(got, Answer(n + 1), 0) /\ Piece(sock, Answer(n + 1), Len(got))
        /\ Piece(wbuf, Answer(n + 1), a)
    BY <1>7, <2>2, <2>3, <2>4, <2>5, <2>6, AnswerGrows
  <2>8. Answer(n + 1)[a + Len(wbuf) + 1] = n + 1
    BY <1>7, <2>6 DEF Answer
  <2>9. Piece(wbuf', Answer(n + 1), a)
    BY <2>1, <2>4, <2>7, <2>8, PieceAppend
  <2>10. Len(wbuf') = Len(wbuf) + 1
    BY <2>1, <2>4, AppendProperties
  <2>11. Len(got) + Len(sock) + Len(wbuf') = n + 1
    BY <1>7, <2>3, <2>5, <2>6, <2>10
  <2>12. got' = got /\ sock' = sock /\ Len(dispatched') = n + 1
    BY <1>5, <1>7
  <2>13. ~(n + 1 > n + 1) /\ n + 1 >= n + 1
    BY <1>7
  <2> QED BY <2>5, <2>7, <2>9, <2>11, <2>12, <2>13 DEF ReplyInv
<1> QED BY <1>1, <1>2, <1>3, <1>5, <1>10, <1>11, <1>12, <1>9

LEMMA ParseRequestStep == ASSUME IInv, ParseRequest PROVE IInv'
<1>0. /\ TypeOK /\ ScriptInv /\ StreamInv /\ OrderInv /\ ReplyInv /\ InputInv /\ ParseInv
      /\ pc = "parse" /\ HasFrame /\ rbuf' = AfterFrame
      /\ dispatched' = Append(dispatched, HeadMsg) /\ Reply(HeadMsg, FALSE)
      /\ pc' \in {"end", "parse"}
      /\ UNCHANGED <<script, unread, peer, isData, bound, open, shut, interest, sock, got, ptyVars, lost>>
  BY DEF IInv, ParseRequest
<1>1. /\ HeadMsg \in DOMAIN script /\ rbuf # <<>> /\ ~isData
      /\ dispatched' \in Seq(DOMAIN script) /\ dispatched' # <<>>
      /\ wbuf' \in Seq(DOMAIN script) /\ {wantClose', overrun', unanswered'} \subseteq BOOLEAN
      /\ OrderInv' /\ ReplyInv'
      /\ unanswered => unanswered'
      /\ HeaderLen + HeadFlen \in 0 .. Len(rbuf)
      /\ ~unanswered' =>
           /\ Used \in Nat /\ Used' = Used + (HeaderLen + HeadFlen)
  BY <1>0, DispatchFact
<1>2. PICK m \in 0 .. Len(rbuf) : m = HeaderLen + HeadFlen
  BY <1>1
<1>3. rbuf' = SubSeq(rbuf, m + 1, Len(rbuf))
  BY <1>0, <1>2 DEF AfterFrame
<1>4. rbuf \in Seq(1 .. Sent)
  BY <1>0, SeqFacts
<1>5. rbuf' \in Seq(1 .. Sent) /\ Len(rbuf') = Len(rbuf) - m
  BY <1>3, <1>4, SplitTypes
<1>6. TypeOK'
  BY <1>0, <1>1, <1>5, SameScript DEF TypeOK, ptyVars
<1>7. StreamInv'
  <2>1. UNCHANGED <<script, unread, isData>> /\ Sent' = Sent
    BY <1>0 DEF Sent
  <2>2. ASSUME ~unanswered'
        PROVE  Used' + Len(rbuf') + Len(unread) = Sent /\ Piece(rbuf', Same, Used')
    <3>1. Used + Len(rbuf) + Len(unread) = Sent /\ Piece(rbuf, Same, Used)
      BY <1>0, <1>1, <2>2 DEF StreamInv
    <3>2. Used \in Nat /\ Used' = Used + m
      BY <1>1, <1>2, <2>2
    <3>3. Piece(rbuf', Same, Used')
      BY <1>3, <1>4, <3>1, <3>2, PieceSplit
    <3>4. Len(rbuf) \in Nat /\ Len(unread) \in Nat /\ m \in Nat
      BY <1>0, LenFacts
    <3>5. Used' + Len(rbuf') + Len(unread) = Used + Len(rbuf) + Len(unread)
      BY <1>5, <3>2, <3>4
    <3> QED BY <3>1, <3>3, <3>5
  <2> QED BY <1>0, <1>1, <2>1, <2>2 DEF StreamInv
<1>8. InputInv'
  BY <1>0, <1>1 DEF InputInv, ptyVars
<1> QED BY <1>0, <1>1, <1>6, <1>7, <1>8, SameScript DEF IInv, ParseInv

LEMMA ParseAttachStep == ASSUME IInv, ParseAttach PROVE IInv'
<1>0. /\ TypeOK /\ ScriptInv /\ StreamInv /\ OrderInv /\ ReplyInv /\ InputInv /\ ParseInv
      /\ pc = "parse" /\ HasFrame /\ rbuf' = <<>> /\ pc' = "end"
      /\ dispatched' = Append(dispatched, HeadMsg) /\ Reply(HeadMsg, FALSE)
      /\ isData' = TRUE /\ bound' = TRUE /\ DataToPty(TRUE, AfterFrame)
      /\ UNCHANGED <<script, unread, peer, open, shut, interest, sock, got>>
  BY DEF IInv, ParseAttach
<1>1. /\ rbuf # <<>> /\ ~isData
      /\ dispatched' \in Seq(DOMAIN script) /\ dispatched' # <<>>
      /\ wbuf' \in Seq(DOMAIN script) /\ {wantClose', overrun', unanswered'} \subseteq BOOLEAN
      /\ OrderInv' /\ ReplyInv'
      /\ unanswered => unanswered'
      /\ HeaderLen + HeadFlen \in 0 .. Len(rbuf)
      /\ ~unanswered' =>
           /\ Used \in Nat /\ Used' = Used + (HeaderLen + HeadFlen)
  BY <1>0, DispatchFact
<1>2. PICK m \in 0 .. Len(rbuf) : m = HeaderLen + HeadFlen
  BY <1>1
<1>3. rbuf \in Seq(1 .. Sent)
  BY <1>0, SeqFacts
<1>4. PICK bytes \in Seq(1 .. Sent) : bytes = SubSeq(rbuf, m + 1, Len(rbuf)) /\ Len(bytes) = Len(rbuf) - m
  BY <1>3, SplitTypes
<1>5. DataToPty(TRUE, bytes)
  BY <1>0, <1>2, <1>4 DEF AfterFrame
<1>6. /\ pin' \in Seq(1 .. Sent) /\ tty' \in Seq(1 .. Sent) /\ Len(tty') <= PtyCap
      /\ {pinInterest', broken', lost'} \subseteq BOOLEAN
      /\ typed' = typed /\ (lost => lost')
  BY <1>0, <1>5, DataTypes
<1>7. Sent' = Sent /\ <<>> \in Seq(1 .. Sent)
  BY <1>0, EmptySeq DEF Sent
<1>8. TypeOK'
  BY <1>0, <1>1, <1>6, <1>7 DEF TypeOK
<1>9. StreamInv'
  BY <1>0, <1>7 DEF StreamInv
<1>10. typed = <<>> /\ tty = <<>> /\ pin = <<>>
  BY <1>0, <1>1 DEF InputInv
<1>11. ASSUME ~lost', ~unanswered'
       PROVE  /\ Piece(typed', Same, Used')
              /\ Piece(tty', Same, Used' + Len(typed'))
              /\ Piece(pin', Same, Used' + Len(typed') + Len(tty'))
              /\ Used' + Len(typed') + Len(tty') + Len(pin') + Len(unread) = Sent
  <2>1. Used + Len(rbuf) + Len(unread) = Sent /\ Piece(rbuf, Same, Used)
    BY <1>0, <1>1, <1>11 DEF StreamInv
  <2>2. Used \in Nat /\ Used' = Used + m
    BY <1>1, <1>2, <1>11
  <2>3. Piece(bytes, Same, Used + m)
    BY <1>3, <1>4, <2>1, <2>2, PieceSplit
  <2>4. Len(typed) = 0 /\ Len(tty) = 0 /\ Len(pin) = 0
    BY <1>10, EmptySeq
  <2>5. PICK a \in Nat : a = Used'
    BY <2>2
  <2>6. a + Len(tty) + Len(pin) = Used + m
    BY <2>2, <2>4, <2>5
  <2>7. Piece(tty, Same, a) /\ Piece(pin, Same, a + Len(tty))
    BY <1>10, PieceEmpty
  <2>8. /\ Piece(tty', Same, a) /\ Piece(pin', Same, a + Len(tty'))
        /\ Len(tty') + Len(pin') = Len(tty) + Len(pin) + Len(bytes)
    BY <1>0, <1>5, <1>11, <2>3, <2>6, <2>7, DataKeeps
  <2>9. Len(tty') \in Nat /\ Len(pin') \in Nat
    BY <1>6, LenProperties
  <2>10. Len(rbuf) \in Nat /\ Len(unread) \in Nat /\ m \in Nat
    BY <1>0, LenFacts
  <2>11. Len(typed') = 0 /\ a + Len(typed') = a
    BY <1>6, <2>4
  <2>12. a + Len(typed') + Len(tty') + Len(pin') + Len(unread) = Sent
    <3>1. Len(tty') + Len(pin') = Len(rbuf) - m /\ a = Used + m /\ Used + Len(rbuf) + Len(unread) = Sent
      BY <1>4, <2>1, <2>2, <2>4, <2>5, <2>8, <2>9
    <3> QED BY <2>2, <2>9, <2>10, <2>11, <3>1
  <2>13. Piece(typed', Same, a)
    BY <1>6, <1>10, PieceEmpty
  <2> QED BY <2>5, <2>8, <2>11, <2>12, <2>13
<1>12. InputInv'
  BY <1>0, <1>1, <1>7, <1>11 DEF InputInv
<1> QED BY <1>0, <1>1, <1>8, <1>9, <1>12, SameScript DEF IInv, ParseInv

-----------------------------------------------------------------------------
(* The invariant holds, and what follows from it *)

LEMMA InitIInv == Init => IInv
<1> SUFFICES ASSUME Init PROVE IInv
  OBVIOUS
<1>1. /\ script = <<>> /\ unread = <<>> /\ rbuf = <<>> /\ wbuf = <<>> /\ sock = <<>> /\ got = <<>>
      /\ pin = <<>> /\ tty = <<>> /\ typed = <<>> /\ dispatched = <<>>
      /\ isData = FALSE /\ bound = FALSE /\ unanswered = FALSE /\ pc = "wait"
  BY DEF Init
<1>2. Len(<<>>) = 0 /\ DOMAIN <<>> = {} /\ \A S : <<>> \in Seq(S)
  BY EmptySeq
<1>3. Sent = 0 /\ Used = 0
  BY <1>1 DEF Sent, Used
<1>4. \A f, a : Piece(<<>>, f, a)
  BY PieceEmpty
<1>5. TypeOK
  <2>1. script \in Seq([kind : Kinds, first : Nat, last : Nat])
    BY <1>1, <1>2
  <2>2. /\ {unread, rbuf, pin, tty, typed} \subseteq Seq(1 .. Sent)
        /\ {wbuf, sock, got, dispatched} \subseteq Seq(DOMAIN script)
    BY <1>1, <1>2
  <2>3. Len(script) <= MaxMsgs /\ Len(sock) <= SockCap /\ Len(tty) <= PtyCap
    BY <1>1, <1>2, ControlAssumption
  <2>4. /\ {peer, isData, bound, wantClose, interest, open, pinInterest, broken, shut,
            overrun, unanswered, lost} \subseteq BOOLEAN
        /\ pc \in {"wait", "read", "parse", "end"}
    BY DEF Init
  <2> QED BY <2>1, <2>2, <2>3, <2>4 DEF TypeOK
<1>6. ScriptInv
  BY <1>1, <1>2, <1>3 DEF ScriptInv
<1>7. StreamInv
  BY <1>1, <1>2, <1>3, <1>4 DEF StreamInv
<1>8. OrderInv /\ ReplyInv /\ InputInv /\ ParseInv
  BY <1>1, <1>2, <1>3, <1>4 DEF OrderInv, ReplyInv, InputInv, ParseInv
<1> QED BY <1>5, <1>6, <1>7, <1>8 DEF IInv

LEMMA IInvStep == ASSUME IInv, [Next]_vars PROVE IInv'
<1>1. CASE UNCHANGED vars
  <2>1. IInv /\ UNCHANGED vars
    BY <1>1
  <2>2. /\ TypeOK /\ ScriptInv /\ StreamInv /\ OrderInv /\ ReplyInv /\ InputInv /\ ParseInv
        /\ UNCHANGED <<inVars, connVars, outVars, ptyVars, pc, histVars>>
    BY <2>1 DEF IInv, vars
  <2>3. TypeOK'
    BY <2>2, SameScript DEF TypeOK, inVars, connVars, outVars, ptyVars, histVars
  <2> QED BY <2>2, <2>3, SameScript, SameStream, SameOrder, SameReply, SameInput
          DEF IInv, ParseInv, inVars, connVars, outVars, ptyVars, histVars
<1>2. CASE Next
  BY <1>2, SendStep, ClientReadsStep, ChildReadsStep, QuietSteps, PtyWritableStep,
     ConnEventStep, ReadInputStep, ReadControlStep, ParseBadStep, ParseRequestStep,
     ParseAttachStep DEF Next, EventStep
<1> QED BY <1>1, <1>2

LEMMA Inductive == Spec => []IInv
<1>1. IInv /\ [Next]_vars => IInv'
  BY IInvStep
<1> QED BY InitIInv, <1>1, PTL DEF Spec

\* However the stream is cut up, conn_read dispatches exactly the frames that
\* were sent, up to the first bad one.
THEOREM FramesCorrect == Spec => []FramesInOrder
<1>1. IInv => FramesInOrder
  BY DEF IInv, OrderInv, FramesInOrder
<1> QED BY <1>1, Inductive, PTL

\* The replies to a client answer its requests one by one, in order.
THEOREM RepliesCorrect == Spec => []RepliesMatchRequests
<1>1. IInv => RepliesMatchRequests
  <2> SUFFICES ASSUME IInv, ~unanswered PROVE RepliesMatchRequests
    BY DEF RepliesMatchRequests
  <2>1. PICK n \in Nat : n = Len(dispatched)
    BY LenFacts DEF IInv
  <2>2. /\ Piece(got, Answer(n), 0) /\ Piece(sock, Answer(n), Len(got))
        /\ Piece(wbuf, Answer(n), Len(got) + Len(sock))
        /\ Len(got) + Len(sock) + Len(wbuf) >= n
        /\ Len(got) + Len(sock) + Len(wbuf) > n => Refused(n + 1)
    BY <2>1 DEF IInv, ReplyInv
  <2>3. /\ got \in Seq(DOMAIN script) /\ sock \in Seq(DOMAIN script) /\ wbuf \in Seq(DOMAIN script)
    BY SeqFacts DEF IInv
  <2>4. Len(got) \in Nat /\ Len(sock) \in Nat /\ Len(wbuf) \in Nat
    BY LenFacts DEF IInv
  <2>5. Piece(sock, Answer(n), 0 + Len(got))
    BY <2>2, <2>4
  <2>6. PICK x \in Seq(DOMAIN script) : x = got \o sock
    BY <2>3, ConcatTypes
  <2>7. Piece(x, Answer(n), 0) /\ Len(x) = Len(got) + Len(sock)
    BY <2>2, <2>3, <2>5, <2>6, PieceConcat
  <2>8. Piece(wbuf, Answer(n), 0 + Len(x))
    BY <2>2, <2>4, <2>7
  <2>9. PICK replies \in Seq(DOMAIN script) : replies = x \o wbuf
    BY <2>3, ConcatTypes
  <2>10. Piece(replies, Answer(n), 0) /\ Len(replies) = Len(x) + Len(wbuf)
    BY <2>3, <2>7, <2>8, <2>9, PieceConcat
  <2>11. DOMAIN replies = 1 .. Len(replies) /\ Len(replies) \in Nat
    BY LenProperties
  <2>12. Len(replies) >= n /\ (Len(replies) > n => ~WellFormed(n + 1))
    BY <2>2, <2>7, <2>10 DEF Refused
  <2>13. ASSUME NEW k \in DOMAIN replies
         PROVE  IF k <= n THEN replies[k] = k ELSE replies[k] = n + 1 /\ ~WellFormed(n + 1)
    <3>1. k \in Nat /\ k <= Len(replies) /\ 0 + k = k
      BY <2>11
    <3>2. replies[k] = Answer(n)[0 + k]
      BY <2>10 DEF Piece
    <3>3. replies[k] = IF k <= n THEN k ELSE n + 1
      BY <3>1, <3>2 DEF Answer
    <3>4. ~(k <= n) => Len(replies) > n
      BY <2>1, <2>11, <3>1
    <3> QED BY <2>12, <3>3, <3>4
  <2>14. replies = got \o sock \o wbuf
    BY <2>6, <2>9
  <2> QED BY <2>1, <2>12, <2>13, <2>14, Zenon DEF RepliesMatchRequests
<1> QED BY <1>1, Inductive, PTL

\* Every state is well typed, and while the channel is up all input that was
\* sent is typed, in the terminal, queued for it or unread, each byte once and
\* in order.
THEOREM InputCorrect == Spec => []InputIsConserved
<1>1. IInv => InputIsConserved
  <2> SUFFICES ASSUME IInv, bound, ~lost, ~unanswered
               PROVE  typed \o tty \o pin \o unread = Bytes(LastByte + 1, Sent)
    BY DEF IInv, InputIsConserved
  <2>1. /\ dispatched # <<>> /\ Piece(typed, Same, Used) /\ Piece(tty, Same, Used + Len(typed))
        /\ Piece(pin, Same, Used + Len(typed) + Len(tty))
        /\ Used + Len(typed) + Len(tty) + Len(pin) + Len(unread) = Sent
        /\ Piece(unread, Same, Sent - Len(unread))
    BY DEF IInv, InputInv, StreamInv
  <2>2. /\ typed \in Seq(1 .. Sent) /\ tty \in Seq(1 .. Sent) /\ pin \in Seq(1 .. Sent)
        /\ unread \in Seq(1 .. Sent)
    BY SeqFacts DEF IInv
  <2>3. /\ Len(typed) \in Nat /\ Len(tty) \in Nat /\ Len(pin) \in Nat /\ Len(unread) \in Nat
    BY LenFacts DEF IInv
  <2>4. Used \in Nat /\ Sent \in Nat
    BY UsedFact, SentFact DEF IInv
  <2>5. LastByte = Used
    <3>1. dispatched \in Seq(DOMAIN script)
      BY SeqFacts DEF IInv
    <3>2. Len(dispatched) \in DOMAIN dispatched
      BY <2>1, <3>1, LenProperties, EmptySeq
    <3>3. dispatched[Len(dispatched)] = Len(dispatched)
      BY <3>2 DEF IInv, OrderInv
    <3> QED BY <2>1, <3>3 DEF LastByte, Used
  <2>6. PICK x \in Seq(1 .. Sent) : x = typed \o tty
    BY <2>2, ConcatTypes
  <2>7. Piece(x, Same, Used) /\ Len(x) = Len(typed) + Len(tty)
    BY <2>1, <2>2, <2>4, <2>6, PieceConcat
  <2>8. Piece(pin, Same, Used + Len(x))
    <3>1. Used + Len(x) = Used + Len(typed) + Len(tty)
      BY <2>3, <2>4, <2>7
    <3> QED BY <2>1, <3>1
  <2>9. PICK y \in Seq(1 .. Sent) : y = x \o pin
    BY <2>2, ConcatTypes
  <2>10. Piece(y, Same, Used) /\ Len(y) = Len(x) + Len(pin)
    BY <2>2, <2>4, <2>7, <2>8, <2>9, PieceConcat
  <2>11. Piece(unread, Same, Used + Len(y))
    <3>1. Used + Len(y) = Sent - Len(unread)
      BY <2>1, <2>3, <2>4, <2>7, <2>10
    <3> QED BY <2>1, <3>1
  <2>12. PICK z \in Seq(1 .. Sent) : z = y \o unread
    BY <2>2, ConcatTypes
  <2>13. Piece(z, Same, Used) /\ Len(z) = Len(y) + Len(unread)
    BY <2>2, <2>4, <2>10, <2>11, <2>12, PieceConcat
  <2>14. Used + Len(z) = Sent
    BY <2>1, <2>3, <2>4, <2>7, <2>10, <2>13
  <2>15. z = Bytes(Used + 1, Sent)
    BY <2>4, <2>13, <2>14, PieceIsBytes
  <2> QED BY <2>5, <2>6, <2>9, <2>12, <2>15
<1> QED BY <1>1, Inductive, PTL
=============================================================================
