---------------------------- MODULE BridgeProofs ----------------------------
(***************************************************************************)
(* For buffers, delays and grids of any size: nothing of a pane waits for  *)
(* an event that cannot come, a live session is killed only after LIST     *)
(* failed or its daemon was replaced, and the bell comes back.             *)
(***************************************************************************)
EXTENDS Bridge, TLAPS

-----------------------------------------------------------------------------
(* What an action leaves alone *)

LEMMA LessFact ==
  ASSUME NEW a \in Nat, NEW b \in Nat
  PROVE  Less(a, b) \in Nat /\ Less(a, b) <= a /\ Less(a, b) <= b
  BY DEF Less

LEMMA PumpFrame == Pump => open = TRUE /\ UNCHANGED <<open, winsize, daemon>>
  BY DEF Pump, OnSockReadable, OnSockWritable, OnSlaveReadable, OnSlaveWritable, Running

LEMMA ResizeFrame == Resize => UNCHANGED <<open, io, bell, death, daemon>>
  BY DEF Resize, OnResizeTimer, MoveToNewTab, PointerButton, DividerMoves, Reallocated

LEMMA TimeFrame == OnBellTimer \/ Tick => UNCHANGED <<open, io, death, daemon>>
  BY DEF OnBellTimer, Tick

LEMMA EnvironmentFrame == Environment => UNCHANGED <<open, bell, death>>
  BY DEF Environment, ShellExits, OtherAttaches, OtherKills, DaemonStops, DaemonStarts,
         Created, DaemonSends, DaemonReads, VteReads, VteWrites

\* Death asks the daemon first, and a bridge that it frees is blank.
LEMMA DeathFrame ==
  Death => \/ BridgeFree
           \/ step = "idle" /\ step' = "kill" /\ UNCHANGED <<open, dead, io, bell, winsize, daemon>>
<1>1. DeathList => \/ BridgeFree
                   \/ step = "idle" /\ step' = "kill" /\ UNCHANGED <<open, dead, io, bell, winsize, daemon>>
  BY DEF DeathList
<1>2. DeathKill => BridgeFree
  BY DEF DeathKill
<1> QED BY <1>1, <1>2 DEF Death

LEMMA Zeros == 0 \in 0..Room /\ 0 \in 0..MaxMuted + Quiet /\ Quiet \in 0..Quiet
  BY BridgeConstants

LEMMA FreedIsTyped ==
  ASSUME BridgeFree
  PROVE  open' = FALSE /\ IoTypes' /\ BellTypes' /\ SizeTypes' /\ dead' = FALSE /\ step' = "run"
<1>1. IoTypes'
  BY Zeros DEF BridgeFree, IoTypes
<1>2. BellTypes'
  BY Zeros DEF BridgeFree, BellTypes
<1>3. SizeTypes'
  BY DEF BridgeFree, SizeTypes
<1> QED BY <1>1, <1>2, <1>3 DEF BridgeFree

LEMMA Kept ==
  /\ IoTypes /\ UNCHANGED io => IoTypes'
  /\ BellTypes /\ UNCHANGED bell => BellTypes'
  /\ SizeTypes /\ UNCHANGED winsize => SizeTypes'
  /\ DeathTypes /\ UNCHANGED death => DeathTypes'
  /\ DaemonTypes /\ UNCHANGED daemon => DaemonTypes'
  BY DEF io, bell, winsize, death, daemon,
         IoTypes, BellTypes, SizeTypes, DeathTypes, DaemonTypes

-----------------------------------------------------------------------------
(* Types *)

\* What forward_to_sock does to the state that it writes.
LEMMA ToSockFact ==
  ASSUME IoTypes, DeathTypes, NEW n \in Nat, ForwardToSock(n)
  PROVE  /\ toSock' \in Nat /\ sockOut' \in 0..Room /\ DeathTypes'
         /\ watch' \in {watch, watch \ {"sock_out"}, watch \union {"sock_out"}}
         /\ dead => dead'
         /\ toSock' > 0 => "sock_out" \in watch' \/ dead'
         /\ (dead <=> step # "run") => (dead' <=> step' # "run")
<1>1. CASE closed
  <2>1. /\ toSock' = toSock + n /\ watch' = watch /\ sockOut' = sockOut
        /\ dead' = TRUE /\ step' = (IF dead THEN step ELSE "idle")
        /\ told' = told /\ killed' = killed
    BY <1>1 DEF ForwardToSock, ScheduleDeath
  <2>2. toSock' \in Nat /\ sockOut' \in 0..Room /\ watch' = watch
    BY <2>1 DEF IoTypes
  <2>3. DeathTypes'
    BY <2>1 DEF DeathTypes
  <2>4. dead' /\ ((dead <=> step # "run") => (dead' <=> step' # "run"))
    BY <2>1, Zenon
  <2> QED BY <2>2, <2>3, <2>4
<1>2. CASE ~closed
  <2> DEFINE k == Less(toSock + n, Room - sockOut)
  <2>0. toSock + n \in Nat /\ Room - sockOut \in Nat
    BY BridgeConstants DEF IoTypes
  <2>1. k \in Nat /\ k <= toSock + n /\ k <= Room - sockOut
    BY <2>0, LessFact
  <2>2. /\ toSock' = toSock + n - k /\ sockOut' = sockOut + k
        /\ watch' = IF toSock + n - k = 0 THEN watch \ {"sock_out"}
                    ELSE watch \union {"sock_out"}
        /\ UNCHANGED death
    BY <1>2 DEF ForwardToSock, Watched
  <2> HIDE DEF k
  <2>3. toSock' \in Nat /\ sockOut' \in 0..Room
    BY <2>1, <2>2, BridgeConstants DEF IoTypes
  <2>4. /\ watch' \in {watch, watch \ {"sock_out"}, watch \union {"sock_out"}}
        /\ toSock' > 0 => "sock_out" \in watch'
    BY <2>2
  <2>5. DeathTypes' /\ dead' = dead /\ step' = step
    BY <2>2, Kept DEF death
  <2> QED BY <2>3, <2>4, <2>5
<1> QED BY <1>1, <1>2

\* What flush_buf does to the direction of the PTY, of m bytes.
LEMMA ToSlaveFact ==
  ASSUME IoTypes, NEW m \in Nat,
         NEW k, k = Less(m, Room - slaveIn),
         toSlave' = m - k, slaveIn' = slaveIn + k, watch' = Watched("slave_out", m - k)
  PROVE  /\ toSlave' \in Nat /\ slaveIn' \in 0..Room
         /\ watch' \in {watch \ {"slave_out"}, watch \union {"slave_out"}}
         /\ toSlave' > 0 => "slave_out" \in watch'
<1>0. Room - slaveIn \in Nat
  BY BridgeConstants DEF IoTypes
<1>1. k \in Nat /\ k <= m /\ k <= Room - slaveIn
  BY <1>0, LessFact
<1>2. toSlave' \in Nat /\ slaveIn' \in 0..Room
  BY <1>1, BridgeConstants DEF IoTypes
<1>3. /\ watch' \in {watch \ {"slave_out"}, watch \union {"slave_out"}}
      /\ toSlave' > 0 => "slave_out" \in watch'
  BY DEF Watched
<1> QED BY <1>2, <1>3

LEMMA ForwardFact ==
  ASSUME IoTypes, NEW n \in Nat, ForwardToSlave(n)
  PROVE  /\ toSlave' \in Nat /\ slaveIn' \in 0..Room
         /\ watch' \in {watch \ {"slave_out"}, watch \union {"slave_out"}}
         /\ toSlave' > 0 => "slave_out" \in watch'
<1> DEFINE k == Less(toSlave + n, Room - slaveIn)
<1>1. /\ toSlave' = toSlave + n - k /\ slaveIn' = slaveIn + k
      /\ watch' = Watched("slave_out", toSlave + n - k)
  BY DEF ForwardToSlave
<1>2. toSlave + n \in Nat /\ Room - slaveIn \in Nat
  BY BridgeConstants DEF IoTypes
<1>3. k \in Nat /\ k <= toSlave + n /\ k <= Room - slaveIn
  BY <1>2, LessFact
<1> HIDE DEF k
<1>4. toSlave' \in Nat /\ slaveIn' \in 0..Room
  BY <1>1, <1>3, BridgeConstants DEF IoTypes
<1>5. /\ watch' \in {watch \ {"slave_out"}, watch \union {"slave_out"}}
      /\ toSlave' > 0 => "slave_out" \in watch'
  BY <1>1 DEF Watched
<1> QED BY <1>4, <1>5

LEMMA PumpTypes ==
  ASSUME TypeOK, Pump PROVE IoTypes' /\ DeathTypes' /\ BellTypes'
<1>0. IoTypes /\ BellTypes /\ DeathTypes /\ DaemonTypes
  BY DEF TypeOK
<1>1. CASE OnSockReadable
  <2>1. ASSUME sockIn = 0, watch' = watch \ {"sock_in"}, ScheduleDeath,
               UNCHANGED <<toSlave, sockIn, slaveIn, bell>>
        PROVE  IoTypes' /\ DeathTypes' /\ BellTypes'
    <3>1. BellTypes'
      BY <1>0, <2>1, Kept
    <3>2. DeathTypes'
      BY <1>0, <2>1 DEF ScheduleDeath, DeathTypes
    <3>3. IoTypes'
      BY <1>0, <1>1, <2>1 DEF OnSockReadable, IoTypes
    <3> QED BY <3>1, <3>2, <3>3
  <2>2. ASSUME NEW n \in 1..sockIn, ForwardToSlave(n), sockIn' = sockIn - n,
               UNCHANGED death
        PROVE  IoTypes' /\ DeathTypes' /\ BellTypes'
    <3>1. BellTypes'
      BY <1>0, <2>2, BridgeConstants DEF ForwardToSlave, BellWindow, BellTypes
    <3>2. DeathTypes'
      BY <1>0, <2>2, Kept
    <3>3. /\ toSlave' \in Nat /\ slaveIn' \in 0..Room
          /\ watch' \in {watch \ {"slave_out"}, watch \union {"slave_out"}}
      <4>1. n \in Nat
        BY <1>0 DEF IoTypes
      <4> QED BY <1>0, <2>2, <4>1, ForwardFact
    <3>4. sockIn' \in 0..Room /\ UNCHANGED <<toSock, sockOut, slaveOut>>
      BY <1>0, <1>1, <2>2, BridgeConstants DEF OnSockReadable, IoTypes
    <3>5. IoTypes'
      BY <1>0, <3>3, <3>4 DEF IoTypes
    <3> QED BY <3>1, <3>2, <3>5
  <2> QED BY <1>1, <2>1, <2>2 DEF OnSockReadable
<1>2. CASE OnSockWritable
  <2>1. BellTypes'
    BY <1>0, <1>2, Kept DEF OnSockWritable
  <2>2. ASSUME watch' = watch \ {"sock_out"}, ScheduleDeath, UNCHANGED <<toSock, sockOut>>
        PROVE  IoTypes' /\ DeathTypes'
    BY <1>0, <1>2, <2>2 DEF OnSockWritable, ScheduleDeath, IoTypes, DeathTypes
  <2>3. ASSUME ForwardToSock(0) PROVE IoTypes' /\ DeathTypes'
    <3>1. /\ toSock' \in Nat /\ sockOut' \in 0..Room /\ DeathTypes'
          /\ watch' \in {watch, watch \ {"sock_out"}, watch \union {"sock_out"}}
      BY <1>0, <2>3, ToSockFact
    <3> QED BY <1>0, <1>2, <3>1 DEF OnSockWritable, IoTypes
  <2> QED BY <1>2, <2>1, <2>2, <2>3 DEF OnSockWritable
<1>3. CASE OnSlaveReadable
  <2>1. BellTypes'
    BY <1>0, <1>3, Kept DEF OnSlaveReadable
  <2>2. PICK n \in 1..slaveOut : slaveOut' = slaveOut - n /\ ForwardToSock(n)
    BY <1>3 DEF OnSlaveReadable
  <2>3. n \in Nat /\ slaveOut' \in 0..Room
    BY <1>0, <2>2, BridgeConstants DEF IoTypes
  <2>4. /\ toSock' \in Nat /\ sockOut' \in 0..Room /\ DeathTypes'
        /\ watch' \in {watch, watch \ {"sock_out"}, watch \union {"sock_out"}}
    BY <1>0, <2>2, <2>3, ToSockFact
  <2>5. IoTypes'
    BY <1>0, <1>3, <2>3, <2>4 DEF OnSlaveReadable, IoTypes
  <2> QED BY <2>1, <2>4, <2>5
<1>4. CASE OnSlaveWritable
  <2>1. BellTypes' /\ DeathTypes'
    BY <1>0, <1>4, Kept DEF OnSlaveWritable
  <2>3. /\ toSlave' \in Nat /\ slaveIn' \in 0..Room
        /\ watch' \in {watch \ {"slave_out"}, watch \union {"slave_out"}}
    <3> DEFINE k == Less(toSlave, Room - slaveIn)
    <3>1. /\ toSlave' = toSlave - k /\ slaveIn' = slaveIn + k
          /\ watch' = Watched("slave_out", toSlave - k)
      BY <1>4 DEF OnSlaveWritable
    <3>2. toSlave \in Nat
      BY <1>0 DEF IoTypes
    <3> QED BY <1>0, <3>1, <3>2, ToSlaveFact
  <2>4. IoTypes'
    BY <1>0, <1>4, <2>3 DEF OnSlaveWritable, IoTypes
  <2> QED BY <2>1, <2>4
<1> QED BY <1>1, <1>2, <1>3, <1>4 DEF Pump

\* What a report by VTE does to the state that it writes.
LEMMA ContentsFact ==
  ASSUME SizeTypes, NEW drag, ContentsChanged(drag)
  PROVE  /\ seen' = TRUE /\ pending' \in BOOLEAN /\ resizeIn' \in {Off} \union 0..Debounce
<1> USE DEF ContentsChanged, MaybeResize, SizeTypes
<1>1. Debounce \in 0..Debounce /\ Debounce # Off
  BY BridgeConstants DEF Off
<1>2. CASE dead
  BY <1>2
<1>3. CASE ~dead /\ drag
  <2>1. seen' = TRUE /\ pending' = TRUE /\ resizeIn' = resizeIn
    BY <1>3
  <2> QED BY <1>3, <2>1
<1>4. CASE ~dead /\ ~drag
  <2>1. seen' = TRUE /\ pending' = pending /\ resizeIn' = Debounce
    BY <1>4
  <2> QED BY <1>1, <1>4, <2>1
<1> QED BY <1>2, <1>3, <1>4

LEMMA ResizeTypes ==
  ASSUME SizeTypes, Resize PROVE SizeTypes'
<1>1. CASE OnResizeTimer
  BY <1>1 DEF OnResizeTimer, ResizeFlush, SizeTypes
<1>2. ASSUME NEW press \in BOOLEAN, PointerButton(press) PROVE SizeTypes'
  BY <1>2 DEF PointerButton, EndDrag, FlushPending, ResizeFlush, SizeTypes
<1>3. ASSUME NEW s \in Sizes, DividerMoves(s) PROVE SizeTypes'
  <2>1. /\ dragging' \in BOOLEAN /\ ptrDown' \in BOOLEAN
        /\ size' = s /\ last' = last /\ ContentsChanged(dragging')
    BY <1>3, Zenon DEF DividerMoves, SizeTypes
  <2>2. seen' \in BOOLEAN /\ pending' \in BOOLEAN /\ resizeIn' \in {Off} \union 0..Debounce
    BY <2>1, ContentsFact
  <2> QED BY <2>1, <2>2 DEF SizeTypes
<1>4. ASSUME NEW s \in Sizes \union {FullSize}, Reallocated(s) PROVE SizeTypes'
  <2>1. /\ dragging' \in BOOLEAN /\ ptrDown' \in BOOLEAN
        /\ size' = s /\ last' = last /\ ContentsChanged(dragging)
    BY <1>4 DEF Reallocated, SizeTypes
  <2>2. seen' \in BOOLEAN /\ pending' \in BOOLEAN /\ resizeIn' \in {Off} \union 0..Debounce
    BY <2>1, ContentsFact
  <2> QED BY <2>1, <2>2 DEF SizeTypes
<1>5. CASE MoveToNewTab
  <2>1. /\ dragging' \in BOOLEAN /\ ptrDown' \in BOOLEAN
        /\ size' = FullSize /\ last' = last /\ ContentsChanged(FALSE)
    BY <1>5 DEF MoveToNewTab, SizeTypes
  <2>2. seen' \in BOOLEAN /\ pending' \in BOOLEAN /\ resizeIn' \in {Off} \union 0..Debounce
    BY <2>1, ContentsFact
  <2> QED BY <2>1, <2>2 DEF SizeTypes
<1> QED BY <1>1, <1>2, <1>3, <1>4, <1>5 DEF Resize

LEMMA TimeTypes ==
  ASSUME BellTypes, SizeTypes, OnBellTimer \/ Tick PROVE BellTypes' /\ SizeTypes'
<1>1. CASE OnBellTimer
  <2>1. SizeTypes'
    BY <1>1, Kept DEF OnBellTimer
  <2> QED BY <1>1, <2>1 DEF OnBellTimer, BellTypes
<1>2. CASE Tick
  <2>1. quietIn' \in {Off} \union 0..Quiet /\ resizeIn' \in {Off} \union 0..Debounce
    BY <1>2, BridgeConstants DEF Tick, BellTypes, SizeTypes, Off
  <2>2. age' \in 0..MaxMuted + Quiet
    BY <1>2, BridgeConstants DEF Tick, BellTypes, Less
  <2> QED BY <1>2, <2>1, <2>2 DEF Tick, BellTypes, SizeTypes
<1> QED BY <1>1, <1>2

LEMMA EnvironmentTypes ==
  ASSUME TypeOK, Environment PROVE IoTypes' /\ SizeTypes' /\ DaemonTypes'
<1>0. IoTypes /\ SizeTypes /\ DaemonTypes
  BY DEF TypeOK
<1>1. ASSUME ShellExits \/ OtherAttaches \/ OtherKills \/ DaemonStops \/ DaemonStarts \/ Created
      PROVE  IoTypes' /\ SizeTypes' /\ DaemonTypes'
  <2>1. UNCHANGED <<io, winsize>>
    BY <1>1 DEF ShellExits, OtherAttaches, OtherKills, DaemonStops, DaemonStarts, Created
  <2>2. DaemonTypes'
    BY <1>0, <1>1, Kept DEF DaemonTypes, ShellExits, OtherAttaches, OtherKills, DaemonStops,
                      DaemonStarts, Created
  <2> QED BY <1>0, <2>1, <2>2, Kept
<1>2. ASSUME DaemonSends \/ DaemonReads \/ VteWrites
      PROVE  IoTypes' /\ SizeTypes' /\ DaemonTypes'
  <2>1. UNCHANGED <<winsize, daemon>>
    BY <1>2 DEF DaemonSends, DaemonReads, VteWrites
  <2>2. DaemonSends => IoTypes'
    BY <1>0, BridgeConstants DEF IoTypes, DaemonSends
  <2>3. DaemonReads => IoTypes'
    BY <1>0, BridgeConstants DEF IoTypes, DaemonReads
  <2>4. VteWrites => IoTypes'
    BY <1>0, BridgeConstants DEF IoTypes, VteWrites
  <2> QED BY <1>0, <1>2, <2>1, <2>2, <2>3, <2>4, Kept
<1>3. CASE VteReads
  <2>1. UNCHANGED daemon
    BY <1>3 DEF VteReads
  <2>2. IoTypes'
    BY <1>0, <1>3, BridgeConstants DEF IoTypes, VteReads
  <2>3. SizeTypes'
    <3>1. ContentsChanged(dragging) /\ UNCHANGED <<size, last, ptrDown, dragging>>
      BY <1>3 DEF VteReads
    <3>2. seen' \in BOOLEAN /\ pending' \in BOOLEAN /\ resizeIn' \in {Off} \union 0..Debounce
      BY <1>0, <3>1, ContentsFact
    <3> QED BY <1>0, <3>1, <3>2 DEF SizeTypes
  <2> QED BY <1>0, <2>1, <2>2, <2>3, Kept
<1> QED BY <1>1, <1>2, <1>3 DEF Environment

\* Every variable keeps its type (the EpiBridge of epimone-page.c).
THEOREM BridgeTypes == Spec => []TypeOK
<1>1. Init => TypeOK
  <2> SUFFICES ASSUME Init PROVE TypeOK
    OBVIOUS
  <2>1. IoTypes /\ BellTypes
    BY Zeros DEF Init, IoTypes, BellTypes
  <2>2. SizeTypes
    BY BridgeConstants DEF Init, SizeTypes
  <2>3. open \in BOOLEAN /\ DeathTypes /\ DaemonTypes
    BY DEF Init, DeathTypes, DaemonTypes
  <2> QED BY <2>1, <2>2, <2>3 DEF TypeOK
<1>2. TypeOK /\ [Next]_vars => TypeOK'
  <2> SUFFICES ASSUME TypeOK, [Next]_vars PROVE TypeOK'
    OBVIOUS
  <2>0. open \in BOOLEAN /\ IoTypes /\ BellTypes /\ SizeTypes /\ DeathTypes /\ DaemonTypes
    BY DEF TypeOK
  <2>1. CASE Attach
    <3>1. IoTypes' /\ BellTypes'
      BY <2>0, <2>1, BridgeConstants DEF Attach, IoTypes, BellTypes
    <3>2. SizeTypes' /\ DeathTypes' /\ DaemonTypes' /\ open' \in BOOLEAN
      BY <2>0, <2>1, BridgeConstants DEF Attach, SizeTypes, DeathTypes, DaemonTypes, Off, NoSize
    <3> QED BY <3>1, <3>2 DEF TypeOK
  <2>2. CASE ClosePane
    BY <2>0, <2>2, FreedIsTyped DEF ClosePane, TypeOK, DeathTypes, DaemonTypes
  <2>3. CASE Pump
    BY <2>0, <2>3, PumpFrame, PumpTypes, Kept DEF TypeOK
  <2>4. CASE Resize
    BY <2>0, <2>4, ResizeFrame, ResizeTypes, Kept DEF TypeOK
  <2>5. CASE OnBellTimer \/ Tick
    BY <2>0, <2>5, TimeFrame, TimeTypes, Kept DEF TypeOK
  <2>6. CASE Death
    <3>1. DeathTypes' /\ DaemonTypes'
      BY <2>0, <2>6 DEF Death, DeathList, DeathKill, BridgeFree, DeathTypes, DaemonTypes, daemon
    <3>2. CASE BridgeFree
      BY <3>1, <3>2, FreedIsTyped DEF TypeOK
    <3>3. CASE UNCHANGED <<open, dead, io, bell, winsize, daemon>>
      BY <2>0, <3>1, <3>3, Kept DEF TypeOK
    <3> QED BY <2>6, <3>2, <3>3, DeathFrame
  <2>7. CASE Environment
    BY <2>0, <2>7, EnvironmentFrame, EnvironmentTypes, Kept DEF TypeOK
  <2>8. CASE UNCHANGED vars
    BY <2>0, <2>8, Kept DEF vars, TypeOK
  <2> QED BY <2>1, <2>2, <2>3, <2>4, <2>5, <2>6, <2>7, <2>8 DEF Next
<1> QED BY <1>1, <1>2, PTL DEF Spec

-----------------------------------------------------------------------------
(* Nothing is stuck *)

LEMMA PumpWatches ==
  ASSUME TypeOK, BytesAreWatched, Pump PROVE BytesAreWatched'
<1>0. IoTypes /\ DeathTypes /\ open = TRUE /\ open' = TRUE
  BY PumpFrame DEF TypeOK
<1>01. /\ toSlave > 0 => "slave_out" \in watch
       /\ toSock > 0 => "sock_out" \in watch \/ dead
       /\ "slave_in" \in watch
       /\ "sock_in" \in watch \/ dead
       /\ dead <=> step # "run"
  BY <1>0 DEF BytesAreWatched
<1>1. CASE OnSockReadable
  <2>1. ASSUME watch' = watch \ {"sock_in"}, ScheduleDeath, toSlave' = toSlave, toSock' = toSock
        PROVE  BytesAreWatched'
    <3>1. dead' = TRUE /\ (dead' <=> step' # "run")
      BY <1>01, <2>1, Zenon DEF ScheduleDeath
    <3> QED BY <1>01, <2>1, <3>1 DEF BytesAreWatched
  <2>2. ASSUME NEW n \in 1..sockIn, ForwardToSlave(n), toSock' = toSock, UNCHANGED death
        PROVE  BytesAreWatched'
    <3>1. /\ toSlave' > 0 => "slave_out" \in watch'
          /\ watch' \in {watch \ {"slave_out"}, watch \union {"slave_out"}}
      <4>1. n \in Nat
        BY <1>0 DEF IoTypes
      <4> QED BY <1>0, <2>2, <4>1, ForwardFact
    <3>2. dead' = dead /\ step' = step
      BY <2>2 DEF death
    <3> QED BY <1>01, <2>2, <3>1, <3>2 DEF BytesAreWatched
  <2> QED BY <1>1, <2>1, <2>2 DEF OnSockReadable
<1>2. ASSUME NEW n \in Nat, ForwardToSock(n), toSlave' = toSlave
      PROVE  BytesAreWatched'
  <2>1. /\ watch' \in {watch, watch \ {"sock_out"}, watch \union {"sock_out"}}
        /\ dead => dead'
        /\ toSock' > 0 => "sock_out" \in watch' \/ dead'
        /\ dead' <=> step' # "run"
    BY <1>0, <1>01, <1>2, ToSockFact
  <2> QED BY <1>01, <1>2, <2>1 DEF BytesAreWatched
<1>3. CASE OnSockWritable
  <2>1. ASSUME watch' = watch \ {"sock_out"}, ScheduleDeath, toSock' = toSock, toSlave' = toSlave
        PROVE  BytesAreWatched'
    <3>1. dead' = TRUE /\ (dead' <=> step' # "run")
      BY <1>01, <2>1, Zenon DEF ScheduleDeath
    <3> QED BY <1>01, <2>1, <3>1 DEF BytesAreWatched
  <2> QED BY <1>2, <1>3, <2>1 DEF OnSockWritable
<1>4. CASE OnSlaveReadable
  <2>1. PICK n \in 1..slaveOut : ForwardToSock(n)
    BY <1>4 DEF OnSlaveReadable
  <2>2. n \in Nat /\ toSlave' = toSlave
    BY <1>0, <1>4 DEF OnSlaveReadable, IoTypes
  <2> QED BY <1>2, <2>1, <2>2
<1>5. CASE OnSlaveWritable
  <2>1. /\ toSlave' > 0 => "slave_out" \in watch'
        /\ watch' \in {watch \ {"slave_out"}, watch \union {"slave_out"}}
    <3> DEFINE k == Less(toSlave, Room - slaveIn)
    <3>1. /\ toSlave' = toSlave - k /\ slaveIn' = slaveIn + k
          /\ watch' = Watched("slave_out", toSlave - k)
      BY <1>5 DEF OnSlaveWritable
    <3>2. toSlave \in Nat
      BY <1>0 DEF IoTypes
    <3> QED BY <1>0, <3>1, <3>2, ToSlaveFact
  <2>2. dead' = dead /\ step' = step /\ toSock' = toSock
    BY <1>5 DEF OnSlaveWritable, death
  <2> QED BY <1>01, <2>1, <2>2 DEF BytesAreWatched
<1> QED BY <1>1, <1>3, <1>4, <1>5 DEF Pump

\* Other actions leave the queues and the sources alone.
LEMMA WatchKept ==
  ASSUME BytesAreWatched,
         UNCHANGED <<open, watch, toSock, toSlave, dead>>,
         step' = step \/ (step = "idle" /\ step' = "kill")
  PROVE  BytesAreWatched'
  BY DEF BytesAreWatched

LEMMA EnvironmentFrame2 == Environment => UNCHANGED <<watch, toSock, toSlave>>
<1>1. ShellExits \/ OtherAttaches \/ OtherKills \/ DaemonStops \/ DaemonStarts \/ Created
        => UNCHANGED io
  BY DEF ShellExits, OtherAttaches, OtherKills, DaemonStops, DaemonStarts, Created
<1>2. DaemonSends \/ DaemonReads \/ VteReads \/ VteWrites => UNCHANGED <<watch, toSock, toSlave>>
  BY DEF DaemonSends, DaemonReads, VteReads, VteWrites
<1> QED BY <1>1, <1>2 DEF Environment, io

\* A size that VTE reported gets a timer, or waits for the end of a drag.
LEMMA ContentsSends ==
  ASSUME NEW drag, ContentsChanged(drag), drag => dragging', dead' = dead
  PROVE  SizeIsOnItsWay'
<1>1. CASE dead
  BY <1>1, Zenon DEF SizeIsOnItsWay
<1>2. CASE ~dead /\ drag
  <2>1. pending' = TRUE
    BY <1>2 DEF ContentsChanged, MaybeResize
  <2> QED BY <1>2, <2>1, Zenon DEF SizeIsOnItsWay
<1>3. CASE ~dead /\ ~drag
  <2>1. resizeIn' = Debounce
    BY <1>3 DEF ContentsChanged, MaybeResize
  <2>2. resizeIn' # Off
    BY <2>1, BridgeConstants DEF Off
  <2> QED BY <2>2, Zenon DEF SizeIsOnItsWay
<1> QED BY <1>1, <1>2, <1>3

LEMMA ResizeSends ==
  ASSUME TypeOK, SizeIsOnItsWay, Resize PROVE SizeIsOnItsWay'
<1>0. SizeTypes /\ UNCHANGED <<open, dead>>
  BY ResizeFrame DEF TypeOK, death
<1>1. CASE OnResizeTimer
  BY <1>0, <1>1 DEF OnResizeTimer, ResizeFlush, SizeIsOnItsWay
<1>2. ASSUME NEW press \in BOOLEAN, PointerButton(press) PROVE SizeIsOnItsWay'
  <2>1. CASE dragging /\ pending
    BY <1>0, <1>2, <2>1 DEF PointerButton, EndDrag, FlushPending, ResizeFlush, SizeIsOnItsWay
  <2>2. CASE ~(dragging /\ pending)
    <3>1. resizeIn' = resizeIn /\ UNCHANGED <<size, last, seen>>
      BY <1>2, <2>2 DEF PointerButton, EndDrag, FlushPending
    <3> QED BY <1>0, <2>2, <3>1 DEF SizeIsOnItsWay
  <2> QED BY <2>1, <2>2
<1>4. ASSUME NEW s \in Sizes, DividerMoves(s) PROVE SizeIsOnItsWay'
  BY <1>0, <1>4, ContentsSends DEF DividerMoves
<1>5. ASSUME NEW s \in Sizes \union {FullSize}, Reallocated(s) PROVE SizeIsOnItsWay'
  BY <1>0, <1>5, ContentsSends DEF Reallocated
<1>6. CASE MoveToNewTab
  BY <1>0, <1>6, ContentsSends DEF MoveToNewTab
<1> QED BY <1>1, <1>2, <1>4, <1>5, <1>6 DEF Resize

\* A pane that is dead pushes nothing, and what is armed stays armed.
LEMMA SizeKept ==
  ASSUME SizeIsOnItsWay, UNCHANGED <<open, winsize>>, dead => dead'
  PROVE  SizeIsOnItsWay'
  BY DEF SizeIsOnItsWay, winsize

\* Bytes wait only where a source is registered for them, and sizes only
\* where a timer or the end of a drag will push them (flush_buf, maybe_resize).
THEOREM NothingStuck == Spec => []NothingIsStuck
<1>1. Init => BytesAreWatched /\ SizeIsOnItsWay
  BY DEF Init, BytesAreWatched, SizeIsOnItsWay
<1>2. TypeOK /\ BytesAreWatched /\ SizeIsOnItsWay /\ [Next]_vars
        => BytesAreWatched' /\ SizeIsOnItsWay'
  <2> SUFFICES ASSUME TypeOK, BytesAreWatched, SizeIsOnItsWay, [Next]_vars
               PROVE  BytesAreWatched' /\ SizeIsOnItsWay'
    OBVIOUS
  <2>1. CASE Attach
    <3>1. /\ toSock' = 0 /\ toSlave' = 0 /\ watch' = {"sock_in", "slave_in"}
          /\ dead' = FALSE /\ step' = "run" /\ seen' = FALSE
      BY <2>1 DEF Attach
    <3> QED BY <3>1 DEF BytesAreWatched, SizeIsOnItsWay
  <2>2. ASSUME BridgeFree PROVE BytesAreWatched' /\ SizeIsOnItsWay'
    BY <2>2 DEF BridgeFree, BytesAreWatched, SizeIsOnItsWay
  <2>3. CASE ClosePane
    BY <2>2, <2>3 DEF ClosePane
  <2>4. CASE Pump
    <3>1. dead => dead'
      BY <2>4 DEF Pump, OnSockReadable, OnSockWritable, OnSlaveReadable, OnSlaveWritable,
                  ForwardToSock, ScheduleDeath, death
    <3> QED BY <2>4, <3>1, PumpWatches, PumpFrame, SizeKept
  <2>5. CASE Resize
    BY <2>5, ResizeSends, ResizeFrame, WatchKept DEF io, death
  <2>6. CASE OnBellTimer
    BY <2>6, WatchKept, SizeKept DEF OnBellTimer, io, death
  <2>7. CASE Tick
    <3>1. SizeTypes
      BY DEF TypeOK
    <3>2. SizeIsOnItsWay'
      BY <2>7, <3>1, BridgeConstants DEF Tick, SizeIsOnItsWay, SizeTypes, death, Off
    <3> QED BY <2>7, <3>2, WatchKept DEF Tick, io, death
  <2>8. CASE Death
    BY <2>2, <2>8, DeathFrame, WatchKept, SizeKept DEF io
  <2>9. CASE Environment
    <3>1. BytesAreWatched'
      BY <2>9, EnvironmentFrame, EnvironmentFrame2, WatchKept DEF death
    <3>2. CASE VteReads
      <4>1. ContentsChanged(dragging) /\ dragging' = dragging /\ dead' = dead
        BY <3>2 DEF VteReads, death
      <4> QED BY <3>1, <4>1, ContentsSends
    <3>3. CASE ~VteReads
      <4>1. UNCHANGED winsize
        BY <2>9, <3>3 DEF Environment, ShellExits, OtherAttaches, OtherKills, DaemonStops,
                          DaemonStarts, Created, DaemonSends, DaemonReads, VteWrites
      <4> QED BY <2>9, <3>1, <4>1, EnvironmentFrame, SizeKept DEF death
    <3> QED BY <3>2, <3>3
  <2>10. CASE UNCHANGED vars
    BY <2>10, WatchKept, SizeKept DEF vars, io, death
  <2> QED BY <2>1, <2>3, <2>4, <2>5, <2>6, <2>7, <2>8, <2>9, <2>10 DEF Next
<1> QED BY <1>1, <1>2, BridgeTypes, PTL DEF Spec, NothingIsStuck

-----------------------------------------------------------------------------
(* Kills *)

\* Between the answer to LIST and the KILL: a session that LIST reported gone
\* comes to life only in another daemon.
KillInv ==
  /\ open => killed = "none"
  /\ open /\ step = "kill" /\ sess = "alive" => told = "failed" \/ replaced
  /\ KillsOnlyTheDead

\* The death steps are the only ones that enter "kill", learn or kill.
LEMMA KillFrame ==
  Pump \/ Resize \/ OnBellTimer \/ Tick
    => /\ UNCHANGED <<open, told, killed, sess, replaced>>
       /\ step' = "kill" => step = "kill"
<1>1. Resize \/ OnBellTimer \/ Tick => UNCHANGED <<open, death, daemon>>
  BY ResizeFrame, TimeFrame
<1>2. Pump => UNCHANGED <<told, killed>> /\ step' \in {step, "idle"}
  BY DEF Pump, OnSockReadable, OnSockWritable, OnSlaveReadable, OnSlaveWritable,
         ForwardToSock, ScheduleDeath, death
<1> QED BY <1>1, <1>2, PumpFrame DEF death, daemon

\* A live session is killed only if LIST failed or the daemon was replaced
\* (death_idle).
THEOREM KillsSafe == Spec => []KillsOnlyTheDead
<1> USE DEF KillInv, KillsOnlyTheDead
<1>1. Init => KillInv
  BY DEF Init
<1>2. KillInv /\ [Next]_vars => KillInv'
  <2> SUFFICES ASSUME KillInv, [Next]_vars PROVE KillInv'
    OBVIOUS
  <2>1. CASE Attach
    BY <2>1 DEF Attach
  <2>2. CASE ClosePane
    BY <2>2 DEF ClosePane, BridgeFree
  <2>3. CASE Pump \/ Resize \/ OnBellTimer \/ Tick
    BY <2>3, KillFrame
  <2>4. CASE DeathList
    BY <2>4 DEF DeathList, BridgeFree, daemon
  <2>5. CASE DeathKill
    BY <2>5 DEF DeathKill, BridgeFree
  <2>6. CASE Environment
    <3>1. UNCHANGED <<open, step, told, killed>>
      BY <2>6, EnvironmentFrame DEF death
    <3>2. CASE Created
      BY <3>1, <3>2 DEF Created
    <3>3. CASE ~Created
      <4>1. (sess' = sess \/ sess' # "alive") /\ (replaced => replaced')
        BY <2>6, <3>3 DEF Environment, ShellExits, OtherAttaches, OtherKills, DaemonStops,
                          DaemonStarts, DaemonSends, DaemonReads, VteReads, VteWrites, daemon
      <4> QED BY <3>1, <4>1
    <3> QED BY <3>2, <3>3
  <2>7. CASE UNCHANGED vars
    BY <2>7 DEF vars, death, daemon
  <2> QED BY <2>1, <2>2, <2>3, <2>4, <2>5, <2>6, <2>7 DEF Next, Death
<1> QED BY <1>1, <1>2, PTL DEF Spec

-----------------------------------------------------------------------------
(* The bell *)

\* Until the cap the timer may be set anew; after it no chunk does, and what is
\* left of the quiet period bounds the time to come.
BellInv ==
  muted => quietIn \in Nat /\ age + quietIn < MaxMuted + Quiet

\* The bell is muted no longer than the cap and one quiet period
\* (epimone_bridge_bell_window).
THEOREM BellComesBack == Spec => []BellReturns
<1>1. Init => BellInv
  BY DEF Init, BellInv
<1>2. TypeOK /\ BellInv /\ [Next]_vars => BellInv'
  <2> SUFFICES ASSUME TypeOK, BellInv, [Next]_vars PROVE BellInv'
    OBVIOUS
  <2>0. BellTypes
    BY DEF TypeOK
  <2>1. CASE Attach
    BY <2>1, BridgeConstants DEF Attach, BellInv
  <2>2. ASSUME BridgeFree PROVE BellInv'
    BY <2>2 DEF BridgeFree, BellInv
  <2>3. ASSUME UNCHANGED bell PROVE BellInv'
    BY <2>3 DEF bell, BellInv
  <2>4. CASE ClosePane \/ Death
    BY <2>2, <2>3, <2>4, DeathFrame DEF ClosePane
  <2>5. CASE Pump
    <3>1. ASSUME BellWindow PROVE BellInv'
      <4>1. ASSUME muted' PROVE age < MaxMuted /\ age' = age /\ quietIn' = Quiet
        <5>1. muted /\ age < MaxMuted
          BY <3>1, <4>1, Zenon DEF BellWindow
        <5> QED BY <2>0, <3>1, <5>1, BridgeConstants DEF BellWindow, BellTypes
      <4> QED BY <2>0, <4>1, BridgeConstants DEF BellInv, BellTypes
    <3>2. BellWindow \/ UNCHANGED bell
      BY <2>5 DEF Pump, OnSockReadable, OnSockWritable, OnSlaveReadable, OnSlaveWritable,
                  ForwardToSlave
    <3> QED BY <2>3, <3>1, <3>2
  <2>6. CASE Resize \/ Environment
    BY <2>3, <2>6, ResizeFrame, EnvironmentFrame
  <2>7. CASE OnBellTimer
    BY <2>7 DEF OnBellTimer, BellInv
  <2>8. CASE Tick
    BY <2>0, <2>8, BridgeConstants DEF Tick, BellInv, BellTypes, Less, Off
  <2>9. CASE UNCHANGED vars
    BY <2>3, <2>9 DEF vars
  <2> QED BY <2>1, <2>4, <2>5, <2>6, <2>7, <2>8, <2>9 DEF Next
<1>3. TypeOK /\ BellInv => BellReturns
  BY BridgeConstants DEF TypeOK, BellTypes, BellInv, BellReturns, Off
<1> QED BY <1>1, <1>2, <1>3, BridgeTypes, PTL DEF Spec

=============================================================================
