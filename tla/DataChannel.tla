----------------------------- MODULE DataChannel -----------------------------
(***************************************************************************)
(* The output of one session on its way to the attached client: PTY, ring, *)
(* the connection's write buffer, the socket, the client.  The daemon      *)
(* replays the ring on ATTACH and then forwards live output; it registers  *)
(* for EPOLLOUT while bytes wait; it closes a connection marked want_close *)
(* once nothing is left to write.  A client may read slowly, disconnect,   *)
(* or lose the session to another client at any time.                      *)
(*                                                                         *)
(* The i-th byte of output is the number i, the ATTACHED frame is 0.  The  *)
(* ring is the last RingCap bytes, or fewer where it could not grow        *)
(* (theorem RingCorrect).  Memory may fail wherever the code asks for it:  *)
(* for a frame, for the snapshot of the ring, and in conn_queue.  Every    *)
(* epoll event is a step of its own, and a chunk that read() returns from  *)
(* the PTY as well: the kernel decides when the child's bytes are there.   *)
(***************************************************************************)
EXTENDS Naturals, Sequences, FiniteSets

CONSTANTS
  Conns,     \* connections, each used for one attachment
  NoConn,    \* a NULL connection pointer
  RingCap,   \* EPI_RING_CAP
  MaxWbuf,   \* MAX_WBUF
  SockCap,   \* bytes the kernel buffers for a peer that does not read
  Chunk,     \* PTY_READ_CHUNK
  MaxOut,    \* bound: bytes of output in one behaviour
  Frail      \* connections for which an allocation may fail

ASSUME ChannelAssumption ==
  /\ NoConn \notin Conns
  /\ {RingCap, MaxWbuf, SockCap, Chunk} \subseteq Nat \ {0} /\ MaxOut \in Nat
  /\ RingCap < MaxWbuf
  /\ Frail \subseteq Conns

VARIABLES
  made,       \* bytes the child has written to its terminal
  slaveOpen,  \* the terminal is still held open
  out,        \* bytes read from the PTY, and so written to the ring
  ptyOpen,    \* pty_master >= 0
  client,     \* s->client
  state,      \* per connection: not accepted yet, open, or closed by the daemon
  wbuf,       \* wbuf[wpos .. wlen)
  wantClose,  \* want_close
  interest,   \* EPOLLOUT is registered
  shut,       \* shutdown(SHUT_RDWR) was called on it
  sock,       \* bytes in the socket, not read by the client
  peer,       \* the client holds its end open
  got,        \* bytes the client has read
  eof,        \* the client has read EOF
  base,       \* history: output that was not in the ring when c attached
  skipped,    \* history: output in the ring that was left out of c's replay
  evicted,    \* history: c was detached by another request
  dropped,    \* history: a frame or bytes for c were dropped for want of memory
  lagged      \* history: c fell behind by more than MAX_WBUF

ptyVars == <<made, slaveOpen, out, ptyOpen>>
connVars == <<state, wbuf, wantClose, interest, shut, sock>>
histVars == <<base, skipped, evicted, dropped, lagged>>
peerVars == <<peer, got, eof>>
vars == <<ptyVars, client, connVars, peerVars, histVars>>

Least(a, b) == IF a <= b THEN a ELSE b

\* Output from m + 1 to n.
Bytes(m, n) == [i \in 1 .. n - m |-> m + i]

\* The output that has left the ring: all but the last RingCap bytes, or more
\* of it if the ring could not grow.
RingStart == out - Least(out, RingCap)
RingStarts == {m \in RingStart .. out : m = RingStart \/ (Frail # {} /\ m < out)}

-----------------------------------------------------------------------------
Init ==
  /\ made = 0 /\ slaveOpen = TRUE /\ out = 0 /\ ptyOpen = TRUE
  /\ client = NoConn
  /\ state = [c \in Conns |-> "new"]
  /\ wbuf = [c \in Conns |-> <<>>]
  /\ wantClose = [c \in Conns |-> FALSE]
  /\ interest = [c \in Conns |-> FALSE]
  /\ shut = [c \in Conns |-> FALSE]
  /\ sock = [c \in Conns |-> <<>>]
  /\ peer = [c \in Conns |-> TRUE]
  /\ got = [c \in Conns |-> <<>>]
  /\ eof = [c \in Conns |-> FALSE]
  /\ base = [c \in Conns |-> 0]
  /\ skipped = [c \in Conns |-> 0]
  /\ evicted = [c \in Conns |-> FALSE]
  /\ dropped = [c \in Conns |-> FALSE]
  /\ lagged = [c \in Conns |-> FALSE]

-----------------------------------------------------------------------------
(* The child and the client *)

ChildWrites ==
  /\ slaveOpen /\ made < MaxOut
  /\ made' = made + 1
  /\ UNCHANGED <<slaveOpen, out, ptyOpen, client, connVars, peerVars, histVars>>

ChildCloses ==
  /\ slaveOpen
  /\ slaveOpen' = FALSE
  /\ UNCHANGED <<made, out, ptyOpen, client, connVars, peerVars, histVars>>

ClientReads(c) ==
  /\ peer[c] /\ sock[c] # <<>>
  /\ got' = [got EXCEPT ![c] = Append(@, Head(sock[c]))]
  /\ sock' = [sock EXCEPT ![c] = Tail(@)]
  /\ UNCHANGED <<ptyVars, client, state, wbuf, wantClose, interest, shut, peer, eof, histVars>>

\* read() returns 0: everything sent has been read, and no more will come.
ClientReadsEof(c) ==
  /\ peer[c] /\ ~eof[c] /\ sock[c] = <<>> /\ (shut[c] \/ state[c] = "closed")
  /\ eof' = [eof EXCEPT ![c] = TRUE]
  /\ UNCHANGED <<ptyVars, client, connVars, peer, got, histVars>>

\* The client closes its end, at any time.
ClientCloses(c) ==
  /\ peer[c] /\ state[c] # "new"
  /\ peer' = [peer EXCEPT ![c] = FALSE]
  /\ UNCHANGED <<ptyVars, client, connVars, got, eof, histVars>>

-----------------------------------------------------------------------------
(* The daemon *)

\* conn_flush of bytes w: the socket takes what fits; a peer that is gone, or
\* a socket that was shut down, fails and leaves the buffer as it is.
Broken(c) == ~peer[c] \/ shut[c]
Sent(c, w) == IF Broken(c) THEN 0 ELSE Least(Len(w), SockCap - Len(sock[c]))
\* Mutants of Unsent: wpos moves one too far; a short write is taken for a
\* complete one.
UnsentSkips(c, w) == SubSeq(w, Sent(c, w) + 2, Len(w))
UnsentForgets(c, w) == <<>>
Unsent(c, w) == SubSeq(w, Sent(c, w) + 1, Len(w))
SocketAfter(c, w) == sock[c] \o SubSeq(w, 1, Sent(c, w))
FlushFails(c, w) == w # <<>> /\ Broken(c)

\* Mutant of Interest: EPOLLOUT is never asked for.
NoInterest(w) == FALSE

\* conn_update and ep_mod.
Interest(w) == w # <<>>

\* detach_client: the session forgets the connection, which is shut down and
\* marked for closing; what is still buffered for it cannot be sent.
Evict(c) ==
  /\ evicted' = [k \in Conns |-> evicted[k] \/ k = c]
  /\ shut' = [k \in Conns |-> shut[k] \/ k = c]

\* How conn_queue and conn_queue_frame end: the bytes are buffered; there is
\* no memory for the frame, which is lost without a mark (b->oom); or none for
\* the buffer, and the connection is marked.
FrameEnds(c) == {"queued"} \union (IF c \in Frail THEN {"lost", "marked"} ELSE {})
ReplayEnds(c) == FrameEnds(c) \ {"lost"}

\* epi_ring_snapshot: the ring, or NULL, and then nothing is said of it.
Snapshots(c, start) ==
  {Bytes(start, out)} \union (IF c \in Frail THEN {<<>>} ELSE {})

\* handle_attach on a new connection: the incumbent goes, the frame and the
\* ring are put into the write buffer.  The loop then registers for EPOLLOUT,
\* unless the connection is marked: that one is closed if nothing waits.
Attach(c) ==
  /\ state[c] = "new"
  /\ Evict(client)
  /\ \E frame \in FrameEnds(c), replay \in ReplayEnds(c), start \in RingStarts :
       \E snap \in Snapshots(c, start) :
         LET w == (IF frame = "queued" THEN <<0>> ELSE <<>>)
                    \o (IF replay = "queued" THEN snap ELSE <<>>)
             marked == "marked" \in {frame, replay}
             closed == marked /\ w = <<>>
         IN  /\ snap = <<>> => replay = "queued"
             /\ state' = [state EXCEPT ![c] = IF closed THEN "closed" ELSE "open"]
             /\ client' = IF closed THEN NoConn ELSE c
             /\ wbuf' = [wbuf EXCEPT ![c] = w]
             /\ base' = [base EXCEPT ![c] = start]
             /\ skipped' = [skipped EXCEPT ![c] = out - start - Len(snap)]
             /\ dropped' = [dropped EXCEPT ![c] = {frame, replay} # {"queued"}]
             /\ wantClose' = [k \in Conns |-> wantClose[k] \/ k = client \/ (k = c /\ marked)]
             /\ interest' = [k \in Conns |->
                  IF k = c THEN ~marked /\ Interest(w)
                  ELSE IF k = client THEN Interest(wbuf[k]) ELSE interest[k]]
  /\ UNCHANGED <<ptyVars, sock, peerVars, lagged>>

\* handle_detach, or handle_kill of the live session.
Detach ==
  /\ client # NoConn
  /\ Evict(client)
  /\ client' = NoConn
  /\ wantClose' = [wantClose EXCEPT ![client] = TRUE]
  /\ interest' = [interest EXCEPT ![client] = Interest(wbuf[client])]
  /\ UNCHANGED <<ptyVars, state, wbuf, sock, peerVars, base, skipped, dropped, lagged>>

\* One read() of pty_readable: n bytes go to the ring and, if a client is
\* attached, through conn_queue, conn_flush and conn_update.
PtyRead ==
  /\ ptyOpen
  /\ \E n \in 1 .. Least(Chunk, made - out) :
       /\ out' = out + n
       /\ \/ /\ client = NoConn
             /\ UNCHANGED <<wbuf, sock, wantClose, interest, dropped, lagged>>
          \/ /\ client # NoConn
             /\ \E oom \in BOOLEAN :
                  LET c == client
                      w == IF oom THEN wbuf[c] ELSE wbuf[c] \o Bytes(out, out + n)
                  IN  /\ oom => c \in Frail
                      /\ wbuf' = [wbuf EXCEPT ![c] = Unsent(c, w)]
                      /\ sock' = [sock EXCEPT ![c] = SocketAfter(c, w)]
                      /\ wantClose' = [wantClose EXCEPT
                           ![c] = @ \/ oom \/ Len(w) > MaxWbuf \/ FlushFails(c, w)]
                      /\ interest' = [interest EXCEPT ![c] = Interest(Unsent(c, w))]
                      /\ dropped' = [dropped EXCEPT ![c] = @ \/ oom]
                      /\ lagged' = [lagged EXCEPT ![c] = @ \/ Len(w) > MaxWbuf]
  /\ UNCHANGED <<made, slaveOpen, ptyOpen, client, state, shut, peerVars, base, skipped, evicted>>

\* Mutant of PtyEof: the socket is not shut down.
PtyEofQuietly ==
  /\ ptyOpen /\ ~slaveOpen /\ out = made
  /\ ptyOpen' = FALSE
  /\ wantClose' = [c \in Conns |-> wantClose[c] \/ c = client]
  /\ UNCHANGED <<made, slaveOpen, out, client, state, wbuf, interest, shut, sock, peerVars, histVars>>

\* pty_readable at the end of the output: client_eof flushes what it can and
\* shuts the socket down, or leaves the rest to EPOLLOUT.
PtyEof ==
  /\ ptyOpen /\ ~slaveOpen /\ out = made
  /\ ptyOpen' = FALSE
  /\ \/ client = NoConn /\ UNCHANGED connVars
     \/ /\ client # NoConn
        /\ LET c == client
               w == wbuf[c]
           IN  /\ wbuf' = [wbuf EXCEPT ![c] = Unsent(c, w)]
               /\ sock' = [sock EXCEPT ![c] = SocketAfter(c, w)]
               /\ wantClose' = [wantClose EXCEPT ![c] = TRUE]
               /\ shut' = [shut EXCEPT ![c] = @ \/ Unsent(c, w) = <<>>]
               /\ interest' = [interest EXCEPT ![c] = Interest(Unsent(c, w))]
        /\ UNCHANGED state
  /\ UNCHANGED <<made, slaveOpen, out, client, peerVars, histVars>>

\* What epoll reports for c: room to write, and the end of the input.
Writable(c) == interest[c] /\ (Broken(c) \/ Len(sock[c]) < SockCap)
HungUp(c) == Broken(c)

\* The connection's branch of epi_server_run: flush, read, then conn_update
\* or conn_close.  Input bytes go to the PTY and change nothing here.
ConnEvent(c) ==
  /\ state[c] = "open" /\ (Writable(c) \/ HungUp(c))
  /\ LET w == IF Writable(c) THEN Unsent(c, wbuf[c]) ELSE wbuf[c]
         closing == \/ wantClose[c] \/ HungUp(c)
                    \/ Writable(c) /\ FlushFails(c, wbuf[c])
     IN  /\ wbuf' = [wbuf EXCEPT ![c] = w]
         /\ sock' = IF Writable(c) THEN [sock EXCEPT ![c] = SocketAfter(c, wbuf[c])] ELSE sock
         /\ wantClose' = [wantClose EXCEPT ![c] = closing]
         /\ interest' = [interest EXCEPT ![c] = IF closing THEN @ ELSE Interest(w)]
         /\ state' = [state EXCEPT ![c] = IF closing /\ w = <<>> THEN "closed" ELSE @]
         /\ client' = IF state'[c] = "closed" /\ client = c THEN NoConn ELSE client
  /\ UNCHANGED <<ptyVars, shut, peerVars, histVars>>

DaemonStep ==
  \/ PtyRead \/ PtyEof
  \/ \E c \in Conns : ConnEvent(c)

Next ==
  \/ ChildWrites \/ ChildCloses \/ Detach \/ DaemonStep
  \/ \E c \in Conns : Attach(c) \/ ClientReads(c) \/ ClientReadsEof(c) \/ ClientCloses(c)

Spec == Init /\ [][Next]_vars

\* The loop serves every source that stays ready, since epoll reports them
\* all; a client that has not closed its end keeps reading.
Fairness ==
  /\ WF_vars(PtyRead) /\ WF_vars(PtyEof)
  /\ \A c \in Conns : WF_vars(ConnEvent(c))

ReadingClients ==
  \A c \in Conns : WF_vars(ClientReads(c)) /\ WF_vars(ClientReadsEof(c))

FairSpec == Spec /\ Fairness /\ ReadingClients

-----------------------------------------------------------------------------
(* Properties *)

\* Every variable has its type, and only output that exists is buffered.
TypeOK ==
  /\ made \in 0 .. MaxOut /\ out \in 0 .. made
  /\ slaveOpen \in BOOLEAN /\ ptyOpen \in BOOLEAN
  /\ client \in Conns \union {NoConn}
  /\ state \in [Conns -> {"new", "open", "closed"}]
  /\ {wantClose, interest, shut, peer, eof, evicted, dropped, lagged} \subseteq [Conns -> BOOLEAN]
  /\ {wbuf, sock, got} \subseteq [Conns -> Seq(0 .. MaxOut)]
  /\ {base, skipped} \subseteq [Conns -> 0 .. MaxOut]

\* What c has been given: read, in the socket, or buffered in the daemon.
Stream(c) == got[c] \o sock[c] \o wbuf[c]

\* The output before c's stream: what the ring no longer held, and what the
\* replay left out of it because the snapshot found no memory.
Before(c) == base[c] + skipped[c]

\* A client sees the replay and the live output as one stream, without a gap,
\* a repetition or a reordering at the seam, however writes are cut up by
\* chunks, full sockets and EPOLLOUT; the attached client is never behind
\* what is buffered for it.  If a snapshot failed, the stream has no more than
\* the ring missing, at its start.  (Clients a frame or bytes were dropped for
\* excepted.)
StreamIsContinuous ==
  \A c \in Conns : state[c] # "new" /\ ~dropped[c] =>
    /\ Stream(c) = <<0>> \o Bytes(Before(c), Before(c) + Len(Stream(c)) - 1)
    /\ client = c => Len(Stream(c)) = 1 + out - Before(c)

\* EOF means the end: unless it was evicted, marked for dropping, or robbed of
\* bytes by a failed allocation, a client that reads EOF has read everything
\* the session put out since the start of its stream (client_eof: "flush any
\* remaining output and then close the data channel"; the GUI takes EOF for the
\* exit of the shell).
EofIsComplete ==
  \A c \in Conns : eof[c] /\ ~evicted[c] /\ ~dropped[c] /\ ~lagged[c] =>
    ~ptyOpen /\ got[c] = <<0>> \o Bytes(Before(c), made)

\* Bytes never wait for an EPOLLOUT nobody asked for (conn_update), in a state
\* that is well typed.  The loop leaves conn_update out for a connection that
\* handle_attach marked: bytes that got into its buffer before wait for output.
WaitingIsWatched ==
  /\ TypeOK
  /\ \A c \in Conns : state[c] = "open" /\ wbuf[c] # <<>> /\ ~Broken(c) =>
       interest[c] \/ (dropped[c] /\ wantClose[c])

\* An attached client that goes on reading gets all output from the start of
\* its stream, unless it is evicted or closes, or memory fails for its buffer.
OutputArrives ==
  \A c \in Conns, k \in 1 .. MaxOut :
    (client = c /\ ~dropped[c] /\ Before(c) < k /\ k <= out)
      ~> (Len(got[c]) > k - Before(c) \/ evicted[c] \/ ~peer[c] \/ dropped[c])

\* A client that is attached when the shell's output ends reads EOF.
EofArrives ==
  \A c \in Conns :
    (client = c /\ ptyOpen /\ ~slaveOpen) ~> (eof[c] \/ ~peer[c])

\* protocol.h: "daemon -> client bytes are the PTY output (ring replay first,
\* then live)": the daemon serves no client the live output without the ring.
ReplayComesFirst ==
  \A c \in Conns : client = c /\ ~wantClose[c] => skipped[c] = 0

\* A disconnect is a DETACH (protocol.h: "a disconnect is treated as a clean
\* DETACH").
DisconnectDetaches ==
  \A c \in Conns : (client = c /\ ~peer[c]) ~> client # c

\* server.c: "drop a client that lags past this": at most one chunk is queued
\* beyond MAX_WBUF.
BacklogIsBounded ==
  \A c \in Conns : Len(wbuf[c]) <= MaxWbuf + Chunk
=============================================================================
