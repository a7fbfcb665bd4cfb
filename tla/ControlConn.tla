----------------------------- MODULE ControlConn -----------------------------
(***************************************************************************)
(* What a client sends over one connection, on its way through the daemon: *)
(* conn_read takes whatever bytes have arrived, puts frames together,      *)
(* dispatches each complete one and queues its reply; the frame that       *)
(* attaches turns the connection into a data channel, and every byte after *)
(* it is input for the PTY, in one queue with what the PTY did not take.   *)
(*                                                                         *)
(* A byte is the number of its place in all that the client sends.  What a *)
(* request does is modelled in Daemon, the output of the session in        *)
(* DataChannel; here a reply is the number of the message it answers.      *)
(***************************************************************************)
EXTENDS Naturals, Sequences

CONSTANTS
  HeaderLen,  \* bytes of a frame's length word
  BodyLen,    \* bytes of a well-formed frame after it
  MaxFrame,   \* MAX_FRAME
  HugeLen,    \* bytes announced by, and sent with, an oversize frame
  InputLen,   \* bytes of one piece of input
  Chunk,      \* PTY_READ_CHUNK
  SockCap,    \* replies the kernel buffers for a client that does not read
  MaxWbuf,    \* MAX_WBUF, in replies
  PtyCap,     \* input the terminal takes while nobody reads it
  MaxMsgs,    \* bound: messages a client sends
  MayFail     \* whether an allocation may fail

ASSUME ControlAssumption ==
  /\ {HeaderLen, BodyLen, InputLen, Chunk, SockCap, MaxWbuf, PtyCap, MaxMsgs} \subseteq Nat \ {0}
  /\ {MaxFrame, HugeLen} \subseteq Nat
  /\ BodyLen <= MaxFrame /\ MaxFrame < HugeLen
  /\ MayFail \in BOOLEAN

VARIABLES
  script,     \* the messages the client has sent, and the bytes of each
  unread,     \* bytes the daemon has not read
  peer,       \* the client holds its end open
  rbuf,       \* rbuf[0 .. rlen)
  isData, bound, wantClose,   \* is_data, session != NULL, want_close
  wbuf, interest, sock, got,  \* replies: queued, EPOLLOUT, sent, received
  open,       \* the daemon has not closed the connection
  pin,        \* s->pin
  pinInterest,  \* EPOLLOUT is registered for the PTY
  tty,        \* input in the terminal, not read by the child
  typed,      \* input the child has read
  broken,     \* writing to the PTY fails
  shut,       \* shutdown(SHUT_RDWR) was called on the connection
  pc,         \* where the connection's event is
  dispatched, \* history: frames handed to dispatch_frame, in order
  overrun,    \* history: more than MAX_WBUF of replies were queued
  unanswered, \* history: memory failed, a request or a reply was dropped
  lost        \* history: memory or the PTY failed, input was dropped

inVars == <<script, unread, peer, rbuf>>
connVars == <<isData, bound, wantClose, open, shut>>
histVars == <<dispatched, overrun, unanswered, lost>>
outVars == <<wbuf, interest, sock, got>>
ptyVars == <<pin, pinInterest, tty, typed, broken>>
vars == <<inVars, connVars, outVars, ptyVars, pc, histVars>>

-----------------------------------------------------------------------------
Least(a, b) == IF a <= b THEN a ELSE b

(* Messages *)

Kinds == {"request", "attach", "short", "huge", "input"}

\* What the first bytes of a message say when they are read as a length word,
\* and how many bytes the message has.
Flen(kind) ==
  CASE kind = "huge" -> HugeLen [] kind \in {"request", "attach"} -> BodyLen [] OTHER -> 0
Size(kind) == IF kind = "input" THEN InputLen ELSE HeaderLen + Flen(kind)

Sent == IF script = <<>> THEN 0 ELSE script[Len(script)].last
Message(kind) == [kind |-> kind, first |-> Sent + 1, last |-> Sent + Size(kind)]

\* The bytes a .. b, in order.
Bytes(a, b) == [k \in 1 .. b + 1 - a |-> a + k - 1]

-----------------------------------------------------------------------------
Init ==
  /\ script = <<>> /\ unread = <<>> /\ peer = TRUE /\ rbuf = <<>>
  /\ isData = FALSE /\ bound = FALSE /\ wantClose = FALSE /\ open = TRUE
  /\ wbuf = <<>> /\ interest = FALSE /\ sock = <<>> /\ got = <<>>
  /\ pin = <<>> /\ pinInterest = FALSE /\ tty = <<>> /\ typed = <<>> /\ broken = FALSE
  /\ pc = "wait" /\ shut = FALSE
  /\ dispatched = <<>> /\ overrun = FALSE /\ unanswered = FALSE /\ lost = FALSE

-----------------------------------------------------------------------------
(* The client, the child, and other clients *)

\* After ATTACH the client sends input, and nothing else.
ClientSends(kind) ==
  /\ peer /\ open /\ ~shut /\ Len(script) < MaxMsgs
  /\ kind = "input" <=> \E i \in DOMAIN script : script[i].kind = "attach"
  /\ script' = Append(script, Message(kind))
  /\ unread' = unread \o Bytes(Sent + 1, Sent + Size(kind))
  /\ UNCHANGED <<peer, rbuf, connVars, outVars, ptyVars, pc, histVars>>

ClientReads ==
  /\ peer /\ sock # <<>>
  /\ got' = Append(got, Head(sock)) /\ sock' = Tail(sock)
  /\ UNCHANGED <<inVars, connVars, wbuf, interest, ptyVars, pc, histVars>>

\* What it has sent stays readable.
ClientCloses ==
  /\ peer /\ peer' = FALSE
  /\ UNCHANGED <<script, unread, rbuf, connVars, outVars, ptyVars, pc, histVars>>

ChildReads ==
  /\ tty # <<>>
  /\ typed' = Append(typed, Head(tty)) /\ tty' = Tail(tty)
  /\ UNCHANGED <<inVars, connVars, outVars, pin, pinInterest, broken, pc, histVars>>

PtyBreaks ==
  /\ MayFail /\ ~broken /\ broken' = TRUE
  /\ UNCHANGED <<inVars, connVars, outVars, pin, pinInterest, tty, typed, pc, histVars>>

\* detach_client, on behalf of another connection.
Evict ==
  /\ pc = "wait" /\ bound
  /\ bound' = FALSE /\ wantClose' = TRUE /\ shut' = TRUE /\ interest' = (wbuf # <<>>)
  /\ UNCHANGED <<inVars, isData, open, wbuf, sock, got, ptyVars, pc, histVars>>

-----------------------------------------------------------------------------
(* Replies *)

\* The other end is closed, or shutdown was called: write() fails, and read()
\* returns 0 after the last byte.
Gone == ~peer \/ shut

Writable == interest /\ (Gone \/ Len(sock) < SockCap)

\* conn_flush: what the socket takes.
Flushed == IF Gone THEN <<>> ELSE SubSeq(wbuf, 1, Least(Len(wbuf), SockCap - Len(sock)))

\* conn_queue_frame of the reply to message i; closing says that the caller
\* sets want_close anyway.  A reply beyond MAX_WBUF is queued, and marks the
\* connection; so does one conn_queue has no memory for, which is dropped; one
\* whose own buffer found no memory (b->oom) is dropped without a mark.
Reply(i, closing) ==
  \/ /\ wbuf' = Append(wbuf, i)
     /\ wantClose' = (wantClose \/ closing \/ Len(wbuf') > MaxWbuf)
     /\ overrun' = (overrun \/ Len(wbuf') > MaxWbuf)
     /\ UNCHANGED unanswered
  \/ /\ MayFail /\ unanswered' = TRUE /\ UNCHANGED <<wbuf, overrun>>
     /\ wantClose' \in {TRUE, wantClose \/ closing}

-----------------------------------------------------------------------------
(* Input: epi_session_queue_input, epi_session_flush_input, pty_update *)

\* The PTY takes what fits of p; if it is broken the rest is discarded.
Room == PtyCap - Len(tty)

\* Mutant of FlushInput: EPOLLOUT is not asked for when the PTY is full.
FlushUnwatched(p) ==
  /\ pin' = SubSeq(p, Room + 1, Len(p))
  /\ tty' = tty \o SubSeq(p, 1, Least(Len(p), Room))
  /\ pinInterest' = FALSE
  /\ UNCHANGED <<typed, broken, lost>>

FlushInput(p) ==
  /\ pin' = IF broken THEN <<>> ELSE SubSeq(p, Room + 1, Len(p))
  /\ tty' = IF broken THEN tty ELSE tty \o SubSeq(p, 1, Least(Len(p), Room))
  /\ pinInterest' = (pin' # <<>>)
  /\ lost' = (lost \/ (broken /\ p # <<>>))
  /\ UNCHANGED <<typed, broken>>

\* data_to_pty
DataToPty(on, bytes) ==
  \/ ~on /\ UNCHANGED <<ptyVars, lost>>
  \/ on /\ FlushInput(pin \o bytes)
  \/ /\ on /\ MayFail /\ bytes # <<>> /\ lost' = TRUE
     /\ pinInterest' = (pin # <<>>) /\ UNCHANGED <<pin, tty, typed, broken>>

\* The PTY's EPOLLOUT.
PtyWritable ==
  /\ pc = "wait" /\ pinInterest /\ (broken \/ Room > 0)
  /\ FlushInput(pin)
  /\ UNCHANGED <<inVars, connVars, outVars, pc, dispatched, overrun, unanswered>>

-----------------------------------------------------------------------------
(* The connection's event: flush, conn_read, then conn_update or conn_close *)

Readable == unread # <<>> \/ Gone

\* conn_flush, if EPOLLOUT is reported.
ConnEvent ==
  /\ pc = "wait" /\ open /\ (Readable \/ Writable)
  /\ pc' = IF Readable THEN "read" ELSE "end"
  /\ \/ /\ Writable
        /\ wbuf' = SubSeq(wbuf, Len(Flushed) + 1, Len(wbuf))
        /\ sock' = sock \o Flushed
        /\ wantClose' = (wantClose \/ (Gone /\ wbuf # <<>>))
     \/ ~Writable /\ UNCHANGED <<wbuf, sock, wantClose>>
  /\ UNCHANGED <<inVars, isData, bound, open, shut, interest, got, ptyVars, histVars>>

ReadEof ==
  /\ pc = "read" /\ unread = <<>>
  /\ wantClose' = TRUE /\ pc' = "end"
  /\ UNCHANGED <<inVars, isData, bound, open, shut, outVars, ptyVars, histVars>>

\* read() on a data channel: input for the session, if there still is one.
ReadInput(n) ==
  /\ pc = "read" /\ isData /\ n <= Len(unread)
  /\ unread' = SubSeq(unread, n + 1, Len(unread))
  /\ DataToPty(bound, SubSeq(unread, 1, n))
  /\ pc' = "end"
  /\ UNCHANGED <<script, peer, rbuf, connVars, outVars, dispatched, overrun, unanswered>>

\* read() on a control connection: bytes for the frame buffer, if it can grow.
ReadControl(n) ==
  /\ pc = "read" /\ ~isData /\ n <= Len(unread)
  /\ unread' = SubSeq(unread, n + 1, Len(unread))
  /\ \/ /\ rbuf' = rbuf \o SubSeq(unread, 1, n)
        /\ pc' = "parse" /\ UNCHANGED <<wantClose, unanswered>>
     \/ /\ MayFail
        /\ wantClose' = TRUE /\ unanswered' = TRUE
        /\ pc' = "end" /\ UNCHANGED rbuf
  /\ UNCHANGED <<script, peer, isData, bound, open, shut, outVars, ptyVars, dispatched, overrun, lost>>

\* The message that the byte at the head of rbuf is of.
HeadMsg == CHOOSE i \in DOMAIN script : rbuf[1] \in script[i].first .. script[i].last

\* What the length word at the head of rbuf says.  Only the first bytes of a
\* message are one; any others count as a word that is refused.
HeadFlen == IF rbuf[1] = script[HeadMsg].first THEN Flen(script[HeadMsg].kind) ELSE 0

HasHead == Len(rbuf) >= HeaderLen
\* Mutant of HeadOk: a frame need not hold a type word.
HeadNotHuge == HeadFlen <= MaxFrame
HeadOk == HeadFlen >= 1 /\ HeadFlen <= MaxFrame

HasFrame == HasHead /\ HeadOk /\ Len(rbuf) >= HeaderLen + HeadFlen

\* A short or an oversize frame is refused, and stays in rbuf.
ParseBad ==
  /\ pc = "parse" /\ HasHead /\ ~HeadOk
  /\ Reply(HeadMsg, TRUE)
  /\ pc' = "end"
  /\ UNCHANGED <<inVars, isData, bound, open, shut, interest, sock, got, ptyVars, dispatched, lost>>

ParseIncomplete ==
  /\ pc = "parse" /\ ~HasFrame /\ (HasHead => HeadOk)
  /\ pc' = "end"
  /\ UNCHANGED <<inVars, connVars, outVars, ptyVars, histVars>>

\* Mutant of AfterFrame: the length word is not counted.
AfterBody == SubSeq(rbuf, HeadFlen + 1, Len(rbuf))

\* The bytes after the frame at the head of rbuf.
AfterFrame == SubSeq(rbuf, HeaderLen + HeadFlen + 1, Len(rbuf))

\* dispatch_frame of a request; the loop goes on unless want_close is set.
ParseRequest ==
  /\ pc = "parse" /\ HasFrame /\ script[HeadMsg].kind # "attach"
  /\ dispatched' = Append(dispatched, HeadMsg)
  /\ Reply(HeadMsg, FALSE)
  /\ rbuf' = AfterFrame
  /\ pc' = IF wantClose' THEN "end" ELSE "parse"
  /\ UNCHANGED <<script, unread, peer, isData, bound, open, shut, interest, sock, got, ptyVars, lost>>

\* Mutant of ParseAttach: the rest of rbuf is thrown away.
AttachDropsRest ==
  /\ pc = "parse" /\ HasFrame /\ script[HeadMsg].kind = "attach"
  /\ dispatched' = Append(dispatched, HeadMsg)
  /\ Reply(HeadMsg, FALSE)
  /\ isData' = TRUE /\ bound' = TRUE
  /\ rbuf' = <<>> /\ pc' = "end"
  /\ UNCHANGED <<script, unread, peer, open, shut, interest, sock, got, ptyVars, lost>>

\* dispatch_frame of a successful ATTACH: the rest of rbuf is input.
ParseAttach ==
  /\ pc = "parse" /\ HasFrame /\ script[HeadMsg].kind = "attach"
  /\ dispatched' = Append(dispatched, HeadMsg)
  /\ Reply(HeadMsg, FALSE)
  /\ isData' = TRUE /\ bound' = TRUE
  /\ DataToPty(TRUE, AfterFrame)
  /\ rbuf' = <<>> /\ pc' = "end"
  /\ UNCHANGED <<script, unread, peer, open, shut, interest, sock, got>>

\* Mutant of ConnDone: conn_update is not called.
DoneUnwatched ==
  /\ pc = "end" /\ pc' = "wait"
  /\ open' = ~(wantClose /\ wbuf = <<>>)
  /\ bound' = (bound /\ open')
  /\ UNCHANGED <<inVars, isData, wantClose, shut, outVars, ptyVars, histVars>>

ConnDone ==
  /\ pc = "end" /\ pc' = "wait"
  /\ interest' = IF wantClose THEN interest ELSE wbuf # <<>>
  /\ open' = ~(wantClose /\ wbuf = <<>>)
  /\ bound' = (bound /\ open')
  /\ UNCHANGED <<inVars, isData, wantClose, shut, wbuf, sock, got, ptyVars, histVars>>

EventStep ==
  \/ ConnEvent \/ ReadEof \/ ConnDone
  \/ \E n \in 1 .. Chunk : ReadInput(n) \/ ReadControl(n)
  \/ ParseBad \/ ParseIncomplete \/ ParseRequest \/ ParseAttach

Next ==
  \/ \E kind \in Kinds : ClientSends(kind)
  \/ ClientReads \/ ClientCloses \/ ChildReads \/ PtyBreaks \/ Evict
  \/ PtyWritable \/ EventStep

Spec == Init /\ [][Next]_vars

\* The loop serves what epoll reports, and a batch reports every source that
\* is ready: the PTY has its turn even while the connection is ready again
\* and again.  Client and child keep reading.
FairSpec ==
  /\ Spec
  /\ WF_vars(EventStep) /\ SF_vars(PtyWritable)
  /\ WF_vars(ClientReads) /\ WF_vars(ChildReads)

-----------------------------------------------------------------------------
(* Properties *)

\* Every variable has its type; kernel buffers keep their limits.
TypeOK ==
  /\ script \in Seq([kind : Kinds, first : Nat, last : Nat]) /\ Len(script) <= MaxMsgs
  /\ {unread, rbuf, pin, tty, typed} \subseteq Seq(1 .. Sent)
  /\ {wbuf, sock, got, dispatched} \subseteq Seq(DOMAIN script)
  /\ Len(sock) <= SockCap /\ Len(tty) <= PtyCap
  /\ {peer, isData, bound, wantClose, interest, open, pinInterest, broken, shut,
      overrun, unanswered, lost} \subseteq BOOLEAN
  /\ pc \in {"wait", "read", "parse", "end"}

WellFormed(i) == script[i].kind \in {"request", "attach"}

\* However read() cuts the stream up, conn_read dispatches exactly the frames
\* the client sent, once each and in order, up to the first bad one.
FramesInOrder ==
  ~unanswered => \A k \in DOMAIN dispatched : dispatched[k] = k /\ WellFormed(k)

\* The replies a client gets are those to its requests, in order, one each;
\* after them at most error replies to the frame that was refused.
RepliesMatchRequests ==
  LET replies == got \o sock \o wbuf
      n == Len(dispatched)
  IN  ~unanswered =>
        /\ Len(replies) >= n
        /\ \A k \in DOMAIN replies :
             IF k <= n THEN replies[k] = k ELSE replies[k] = n + 1 /\ ~WellFormed(n + 1)

\* The last byte of the frame that was dispatched last.
LastByte == script[dispatched[Len(dispatched)]].last

\* Nothing typed is lost, repeated or reordered where ATTACH turns frames into
\* raw bytes, or where the PTY is full (conn_read, epi_session_flush_input), and
\* no buffer outgrows its limit.
InputIsConserved ==
  /\ TypeOK
  /\ bound /\ ~lost /\ ~unanswered =>
       typed \o tty \o pin \o unread = Bytes(LastByte + 1, Sent)

\* A client that sends well-formed frames only, and keeps reading, is answered,
\* unless the replies to what it pipelined ever outgrew MAX_WBUF: conn_read parses
\* all it has read before anything is flushed, and conn_queue then marks even
\* a client that reads.
RequestsAreAnswered ==
  \A i \in 1 .. MaxMsgs :
    (i \in DOMAIN script /\ WellFormed(i))
      ~> \/ \E k \in DOMAIN got : got[k] = i
         \/ Gone \/ unanswered \/ overrun
         \/ \E j \in DOMAIN script : script[j].kind \in {"short", "huge"}

\* Input that has reached the daemon reaches the child, even if the client is
\* gone by then: the queue is watched for as long as it is not empty.
InputArrives ==
  \A k \in 1 .. InputLen * MaxMsgs :
    (Len(typed \o tty \o pin) >= k) ~> (Len(typed) >= k \/ lost)

\* server.h, of want_close: "close once wbuf is drained".
CondemnedIsClosed == (wantClose /\ ~Gone) ~> (~open \/ Gone)
=============================================================================
