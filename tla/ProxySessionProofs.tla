------------------------ MODULE ProxySessionProofs --------------------------
(***************************************************************************)
(* The safety of a session for every buffer capacity and every amount of   *)
(* data: SessionInv is inductive, and the safety properties follow.        *)
(***************************************************************************)
EXTENDS ProxySession, TLAPS

USE CapacityAssumption, SessionAssumption

-----------------------------------------------------------------------------
(* The cursor operators.                                                   *)

GoodCursor(b) ==
  /\ b \in Cursor
  /\ b.readIndex <= b.writeIndex
  /\ empty(b) => writableBytes(b) = Capacity

LEMMA CursorFields ==
  ASSUME NEW b, GoodCursor(b)
  PROVE  /\ b = [readIndex |-> b.readIndex, writeIndex |-> b.writeIndex]
         /\ b.readIndex \in 0 .. Capacity /\ b.writeIndex \in 0 .. Capacity
         /\ b.readIndex <= b.writeIndex
         /\ b.readIndex = b.writeIndex => b.writeIndex = 0
         /\ readableBytes(b) = b.writeIndex - b.readIndex
         /\ writableBytes(b) = Capacity - b.writeIndex
         /\ readableBytes(b) \in 0 .. Capacity
         /\ Free(b) = Capacity - (b.writeIndex - b.readIndex)
BY DEF GoodCursor, Cursor, empty, readableBytes, writableBytes, Free

(* consume() drops the first n bytes and rewinds a drained buffer.         *)
LEMMA ConsumeCursor ==
  ASSUME NEW b, GoodCursor(b), NEW n \in 1 .. readableBytes(b)
  PROVE  GoodCursor(consume(b, n)) /\ readableBytes(consume(b, n)) = readableBytes(b) - n
<1> DEFINE r == b.readIndex
           w == b.writeIndex
<1>1. r \in 0 .. Capacity /\ w \in 0 .. Capacity /\ r <= w /\ n \in 1 .. w - r
  BY CursorFields
<1>2. CASE r + n = w
  BY <1>1, <1>2 DEF consume, EmptyCursor, GoodCursor, Cursor, empty, readableBytes, writableBytes
<1>3. CASE r + n # w
  <2>1. consume(b, n) = [readIndex |-> r + n, writeIndex |-> w]
    BY <1>3, CursorFields DEF consume, GoodCursor, Cursor
  <2> QED
    BY <1>1, <1>3, <2>1 DEF GoodCursor, Cursor, empty, readableBytes, writableBytes
<1> QED BY <1>2, <1>3

(* A read of n bytes that fit, compaction included, adds n bytes.          *)
LEMMA ReadCursor ==
  ASSUME NEW b, GoodCursor(b), NEW n \in 0 .. Free(b)
  PROVE  GoodCursor(readInto(b, n)) /\ readableBytes(readInto(b, n)) = readableBytes(b) + n
<1> DEFINE first  == makeWritable(b)
           tail   == IF n <= writableBytes(first) THEN n ELSE writableBytes(first)
           filled == hasWritten(first, tail)
           second == makeWritable(filled)
<1>0. /\ b.readIndex \in 0 .. Capacity /\ b.writeIndex \in 0 .. Capacity
      /\ b.readIndex <= b.writeIndex
      /\ b.readIndex = b.writeIndex => b.writeIndex = 0
      /\ n \in 0 .. Capacity - (b.writeIndex - b.readIndex)
      /\ readableBytes(b) = b.writeIndex - b.readIndex
  BY CursorFields
<1>1. PICK r1 \in 0 .. Capacity, w1 \in 0 .. Capacity :
        /\ first = [readIndex |-> r1, writeIndex |-> w1]
        /\ r1 <= w1 /\ (r1 = w1 => w1 = 0)
        /\ w1 - r1 = readableBytes(b)
        /\ w1 = Capacity => r1 = 0
  <2>1. CASE NeedsCompaction(b)
    <3>1. first = [readIndex |-> 0, writeIndex |-> readableBytes(b)]
      BY <2>1 DEF makeWritable
    <3> QED BY <1>0, <3>1
  <2>2. CASE ~NeedsCompaction(b)
    <3>1. first = [readIndex |-> b.readIndex, writeIndex |-> b.writeIndex]
      BY <2>2, CursorFields DEF makeWritable
    <3>2. b.writeIndex = Capacity => b.readIndex = 0
      BY <1>0, <2>2 DEF NeedsCompaction, writableBytes
    <3> QED BY <1>0, <3>1, <3>2
  <2> QED BY <2>1, <2>2
<1>2. /\ writableBytes(first) = Capacity - w1
      /\ tail \in 0 .. n
      /\ tail = IF n <= Capacity - w1 THEN n ELSE Capacity - w1
  BY <1>0, <1>1 DEF writableBytes
<1> HIDE DEF first, tail
<1>3. filled = [readIndex |-> r1, writeIndex |-> w1 + tail]
  BY <1>1 DEF hasWritten
<1>4. readInto(b, n) = hasWritten(second, n - tail)
  BY DEF readInto, first, tail
<1>5. CASE NeedsCompaction(filled)
  <2>0. second = [readIndex |-> 0, writeIndex |-> readableBytes(filled)]
    BY <1>5 DEF makeWritable
  <2>1. second = [readIndex |-> 0, writeIndex |-> w1 + tail - r1]
    BY <1>0, <1>1, <1>2, <1>3, <2>0 DEF readableBytes
  <2>2. readInto(b, n) = [readIndex |-> 0, writeIndex |-> w1 + tail - r1 + (n - tail)]
    BY <1>4, <2>1 DEF hasWritten
  <2>3. w1 + tail - r1 + (n - tail) = readableBytes(b) + n
    BY <1>0, <1>1, <1>2
  <2> QED
    BY <1>0, <2>2, <2>3 DEF GoodCursor, Cursor, empty, readableBytes, writableBytes
<1>6. CASE ~NeedsCompaction(filled)
  <2>1. second = filled
    BY <1>6 DEF makeWritable
  <2>2. readInto(b, n) = [readIndex |-> r1, writeIndex |-> w1 + tail + (n - tail)]
    BY <1>3, <1>4, <2>1 DEF hasWritten
  <2>3. w1 + tail < Capacity \/ r1 = 0
    BY <1>1, <1>2, <1>3, <1>6 DEF NeedsCompaction, writableBytes
  <2>4. w1 + n <= Capacity
    BY <1>0, <1>1, <1>2, <2>3
  <2>5. readInto(b, n) = [readIndex |-> r1, writeIndex |-> w1 + n]
    BY <1>2, <2>2
  <2> QED
    BY <1>0, <1>1, <2>4, <2>5 DEF GoodCursor, Cursor, empty, readableBytes, writableBytes
<1> QED BY <1>5, <1>6

LEMMA OtherSide ==
  \A s \in Side : Other(s) \in Side /\ Other(s) # s /\ Other(Other(s)) = s
                  /\ \A t \in Side : t = s \/ t = Other(s)
BY DEF Side, Other

-----------------------------------------------------------------------------
(* What the invariant says of each buffer.                                 *)
LEMMA BuffersGood == SessionInv => \A s \in Side : GoodCursor(buf[s])
BY DEF SessionInv, TypeOK, SessionTypes, BuffersRewound, GoodCursor

(* recv() yields no more than the kernel holds and the buffer has room for,*)
(* and nothing from a side whose end was seen.                             *)
LEMMA ReceivableBounds ==
  ASSUME SessionInv, NEW s \in Side
  PROVE  /\ Receivable(s) \in 0 .. Free(buf[s])
         /\ recvd[s] + Receivable(s) <= sent[s]
         /\ recvd[s] + Receivable(s) \in Nat
         /\ ~Reads(s) => Receivable(s) = 0
         /\ readClosed[s] => ~Reads(s)
<1>1. GoodCursor(buf[s])
  BY BuffersGood
<1>2. Free(buf[s]) \in Nat
  BY <1>1, CursorFields
<1>3. recvd[s] \in Nat /\ sent[s] \in Nat /\ recvd[s] <= sent[s]
  BY DEF SessionInv, TypeOK, KernelTypes, CountTypes
<1> QED BY <1>2, <1>3 DEF Receivable, Unread, Reads

(* The buffer of side s after the read half of an event.                   *)
LEMMA ReadHalf ==
  ASSUME SessionInv, NEW s \in Side
  PROVE  LET after == IF Reads(s) THEN readInto(buf[s], Receivable(s)) ELSE buf[s]
         IN  GoodCursor(after) /\ readableBytes(after) = readableBytes(buf[s]) + Receivable(s)
<1>1. GoodCursor(buf[s])
  BY BuffersGood
<1>2. CASE Reads(s)
  BY <1>1, <1>2, ReadCursor, ReceivableBounds
<1>3. CASE ~Reads(s)
  <2>1. Receivable(s) = 0 /\ readableBytes(buf[s]) \in Nat
    BY <1>1, <1>3, ReceivableBounds, CursorFields
  <2> QED BY <1>1, <1>3, <2>1
<1> QED BY <1>2, <1>3

LEMMA InitInv == Init => SessionInv
<1> SUFFICES ASSUME Init PROVE SessionInv
    OBVIOUS
<1>1. /\ EmptyCursor \in Cursor /\ EmptyCursor.readIndex = 0 /\ EmptyCursor.writeIndex = 0
      /\ readableBytes(EmptyCursor) = 0 /\ writableBytes(EmptyCursor) = Capacity
  BY DEF EmptyCursor, Cursor, readableBytes, writableBytes
<1>2. interest \in [Side -> SUBSET Events]
  BY DEF Init, clientEvents, upstreamEvents, Events
<1>3. TypeOK
  <2>0. \A s \in Side : buf[s] = EmptyCursor
    BY DEF Init
  <2>1. SessionTypes
    <3>1. buf \in [Side -> Cursor] /\ \A s \in Side : buf[s].readIndex <= buf[s].writeIndex
      BY <1>1, <2>0 DEF Init
    <3>2. readClosed \in [Side -> BOOLEAN] /\ writeShutdown \in [Side -> BOOLEAN]
      BY DEF Init
    <3> QED BY <3>1, <3>2 DEF Init, SessionTypes
  <2>2. LoopTypes /\ KernelTypes /\ ClockTypes
    BY <1>2 DEF Init, LoopTypes, KernelTypes, ClockTypes
  <2>3. CountTypes
    BY DEF Init, CountTypes
  <2> QED BY <2>1, <2>2, <2>3 DEF TypeOK
<1>4. ByteConservation
  BY <1>1, OtherSide DEF Init, ByteConservation
<1>5. NoDataAfterShutdown /\ NothingBeforeConnect
  BY OtherSide DEF Init, NoDataAfterShutdown, NothingBeforeConnect, Side
<1>6. BuffersRewound
  BY <1>1 DEF Init, BuffersRewound
<1>7. InterestsCurrent /\ OutcomeCounted
  BY DEF Init, InterestsCurrent, OutcomeCounted
<1> QED BY <1>3, <1>4, <1>5, <1>6, <1>7 DEF Init, SessionInv

(* A step that leaves the session, its interests and its counters alone,   *)
(* and does not go back to waiting with the session closing.               *)
LEMMA QuietStep ==
  ASSUME SessionInv, TypeOK',
         UNCHANGED <<sessionVars, interest, countVars>>,
         phase' = phase \/ (phase = "wait" /\ phase' = "dispatch")
  PROVE  SessionInv'
<1> USE DEF sessionVars, countVars
<1>1. ByteConservation' /\ NoDataAfterShutdown' /\ NothingBeforeConnect' /\ BuffersRewound'
  BY DEF SessionInv, ByteConservation, NoDataAfterShutdown, NothingBeforeConnect, BuffersRewound
<1>2. InterestsCurrent' /\ OutcomeCounted' /\ (phase = "wait" => ~closing)'
  BY DEF SessionInv, InterestsCurrent, OutcomeCounted
<1> QED BY <1>1, <1>2 DEF SessionInv

LEMMA EnvironmentInv == SessionInv /\ Environment => SessionInv'
<1> SUFFICES ASSUME SessionInv, Environment PROVE SessionInv'
    OBVIOUS
<1> USE DEF sessionVars, loopVars, kernelVars, clockVars, countVars
<1>1. UNCHANGED <<sessionVars, loopVars, countVars>>
  BY DEF Environment, PeerSends, PeerCloses, PeerResets, PeerReads, ConnectSettles, SecondPasses,
         ConnectDeadlinePasses, IdleDeadlinePasses
<1>2. SessionTypes' /\ LoopTypes'
  BY <1>1 DEF SessionInv, TypeOK, SessionTypes, LoopTypes
<1>3. KernelTypes'
  <2>1. ASSUME NEW s \in Side, PeerSends(s) PROVE KernelTypes'
    BY <2>1 DEF PeerSends, SessionInv, TypeOK, KernelTypes
  <2>2. ASSUME NEW s \in Side, PeerCloses(s) \/ PeerResets(s) \/ PeerReads(s) PROVE KernelTypes'
    BY <2>2 DEF PeerCloses, PeerResets, PeerReads, SessionInv, TypeOK, KernelTypes
  <2>3. CASE ConnectSettles
    BY <2>3 DEF ConnectSettles, SessionInv, TypeOK, KernelTypes
  <2>4. CASE SecondPasses \/ ConnectDeadlinePasses \/ IdleDeadlinePasses
    BY <2>4 DEF SecondPasses, ConnectDeadlinePasses, IdleDeadlinePasses, SessionInv, TypeOK,
                KernelTypes
  <2> QED BY <2>1, <2>2, <2>3, <2>4 DEF Environment
<1>4. ClockTypes'
  BY DEF Environment, PeerSends, PeerCloses, PeerResets, PeerReads, ConnectSettles, SecondPasses,
         ConnectDeadlinePasses, IdleDeadlinePasses, SessionInv, TypeOK, ClockTypes
<1>5. CountTypes'
  <2>1. \A t \in Side : sent[t] <= sent'[t]
    <3>1. ASSUME NEW s \in Side, PeerSends(s) PROVE \A t \in Side : sent[t] <= sent'[t]
      BY <3>1 DEF PeerSends, SessionInv, TypeOK, KernelTypes
    <3>2. CASE UNCHANGED sent
      BY <3>2 DEF SessionInv, TypeOK, KernelTypes
    <3> QED
      BY <3>1, <3>2 DEF Environment, PeerCloses, PeerResets, PeerReads, ConnectSettles,
         SecondPasses, ConnectDeadlinePasses, IdleDeadlinePasses
  <2>2. \A t \in Side : sent[t] \in Nat /\ sent'[t] \in Nat /\ recvd[t] \in Nat /\ recvd[t] <= sent[t]
    BY <1>3 DEF SessionInv, TypeOK, KernelTypes, CountTypes
  <2> QED BY <1>1, <2>1, <2>2 DEF SessionInv, TypeOK, CountTypes
<1>6. TypeOK'
  BY <1>2, <1>3, <1>4, <1>5 DEF TypeOK
<1> QED BY <1>1, <1>6, QuietStep

LEMMA EpollWaitInv == SessionInv /\ EpollWait => SessionInv'
<1> SUFFICES ASSUME SessionInv, EpollWait PROVE SessionInv'
    OBVIOUS
<1>1. batch' \in [Side -> SUBSET Events]
  BY DEF EpollWait, Reported, Ready
<1>2. TypeOK'
  <2> USE DEF EpollWait, sessionVars, kernelVars, clockVars, countVars
  <2>1. SessionTypes' /\ LoopTypes'
    BY <1>1 DEF SessionInv, TypeOK, SessionTypes, LoopTypes
  <2>2. KernelTypes' /\ ClockTypes' /\ CountTypes'
    BY DEF SessionInv, TypeOK, KernelTypes, ClockTypes, CountTypes
  <2> QED BY <2>1, <2>2 DEF TypeOK
<1> QED BY <1>2, QuietStep DEF EpollWait

LEMMA EndBatchInv == SessionInv /\ EndBatch => SessionInv'
<1> SUFFICES ASSUME SessionInv, EndBatch PROVE SessionInv'
    OBVIOUS
<1> USE DEF sessionVars, kernelVars
<1>1. TypeOK'
  <2>1. SessionTypes' /\ LoopTypes'
    BY DEF EndBatch, SessionInv, TypeOK, SessionTypes, LoopTypes
  <2>2. KernelTypes' /\ ClockTypes'
    BY DEF EndBatch, SessionInv, TypeOK, KernelTypes, ClockTypes
  <2>3. failures' \in Nat
    BY DEF EndBatch, SessionInv, TypeOK, CountTypes
  <2>4. CountTypes'
    BY <2>3 DEF EndBatch, SessionInv, TypeOK, CountTypes
  <2> QED BY <2>1, <2>2, <2>4 DEF TypeOK
<1>2. ByteConservation' /\ NoDataAfterShutdown' /\ NothingBeforeConnect' /\ BuffersRewound'
      /\ InterestsCurrent'
  BY DEF EndBatch, SessionInv, ByteConservation, NoDataAfterShutdown, NothingBeforeConnect,
         BuffersRewound, InterestsCurrent
<1>3. OutcomeCounted' /\ (phase = "wait" => ~closing)'
  <2>1. failures \in Nat /\ successes \in Nat /\ phase = "dispatch"
    BY DEF EndBatch, BatchDone, SessionInv, TypeOK, CountTypes
  <2>2. CASE SweepSees /\ connectTimedOut
    BY <2>1, <2>2 DEF EndBatch, SweepSees, connectTimedOut, SessionInv, OutcomeCounted
  <2>3. CASE ~(SweepSees /\ connectTimedOut)
    BY <2>1, <2>3 DEF EndBatch, SessionInv, OutcomeCounted
  <2> QED BY <2>2, <2>3
<1> QED BY <1>1, <1>2, <1>3 DEF SessionInv

-----------------------------------------------------------------------------
(* The handler's early returns.                                            *)

LEMMA SkipClosingInv ==
  ASSUME SessionInv, NEW s \in Side, SkipClosing(s)
  PROVE  SessionInv'
<1> USE DEF SkipClosing, EventDone, sessionVars, kernelVars, clockVars, countVars
<1>1. SessionTypes' /\ LoopTypes'
  BY DEF SessionInv, TypeOK, SessionTypes, LoopTypes
<1>2. KernelTypes' /\ ClockTypes' /\ CountTypes'
  BY DEF SessionInv, TypeOK, KernelTypes, ClockTypes, CountTypes
<1>3. TypeOK'
  BY <1>1, <1>2 DEF TypeOK
<1> QED BY <1>3, QuietStep

LEMMA ConnectFailsInv ==
  ASSUME SessionInv, NEW s \in Side, ConnectFails(s)
  PROVE  SessionInv'
<1> USE DEF ConnectFails, InDispatch, EventDone, FinishesConnect, kernelVars, clockVars
<1>1. SessionTypes' /\ LoopTypes'
  BY DEF SessionInv, TypeOK, SessionTypes, LoopTypes
<1>2. KernelTypes' /\ ClockTypes'
  BY DEF SessionInv, TypeOK, KernelTypes, ClockTypes
<1>3. failures' \in Nat
  BY DEF SessionInv, TypeOK, CountTypes
<1>4. CountTypes'
  BY <1>3 DEF SessionInv, TypeOK, CountTypes
<1>5. ByteConservation' /\ NoDataAfterShutdown' /\ NothingBeforeConnect' /\ BuffersRewound'
  BY DEF SessionInv, ByteConservation, NoDataAfterShutdown, NothingBeforeConnect, BuffersRewound
<1>6. InterestsCurrent' /\ (phase = "wait" => ~closing)'
  BY DEF InterestsCurrent
<1>7. OutcomeCounted'
  <2>1. failures = 0 /\ successes = 0
    BY DEF SessionInv, OutcomeCounted, TypeOK, CountTypes
  <2> QED BY <2>1 DEF OutcomeCounted
<1> QED BY <1>1, <1>2, <1>4, <1>5, <1>6, <1>7 DEF SessionInv, TypeOK

(* Reaching past the connect check: the outcome is counted as a success at *)
(* most once.                                                              *)
LEMMA ConnectedFacts ==
  ASSUME SessionInv, NEW s \in Side, InDispatch(s), ~closing, Connected(s), failures' = failures
  PROVE  /\ connecting' \in BOOLEAN /\ successes' \in Nat
         /\ connecting' => connecting /\ s = "client"
         /\ failures = 0
         /\ OutcomeCounted'
<1>1. failures = 0 /\ successes \in Nat /\ connecting \in BOOLEAN
  BY DEF SessionInv, OutcomeCounted, TypeOK, CountTypes, SessionTypes, InDispatch
<1>2. connecting' \in BOOLEAN /\ (connecting' => connecting /\ s = "client")
  BY <1>1 DEF Connected, Side
<1>3. CASE FinishesConnect(s)
  <2>1. successes = 0
    BY <1>3 DEF SessionInv, OutcomeCounted, FinishesConnect
  <2>2. successes' = successes + 1
    BY <1>3 DEF Connected
  <2>3. ~connecting'
    BY <1>2, <1>3 DEF FinishesConnect
  <2>4. successes' = 1 /\ failures' = 0
    BY <1>1, <2>1, <2>2
  <2> QED BY <1>1, <1>2, <2>3, <2>4 DEF OutcomeCounted
<1>4. CASE ~FinishesConnect(s)
  <2>1. successes' = successes
    BY <1>1, <1>4 DEF Connected
  <2> QED BY <1>1, <1>2, <2>1 DEF SessionInv, OutcomeCounted
<1> QED BY <1>3, <1>4

LEMMA SocketErrorInv ==
  ASSUME SessionInv, NEW s \in Side, SocketError(s)
  PROVE  SessionInv'
<1> USE DEF SocketError, EventDone, kernelVars
<1>0. /\ connecting' \in BOOLEAN /\ successes' \in Nat /\ OutcomeCounted'
      /\ connecting' => connecting
  BY ConnectedFacts
<1>1. SessionTypes' /\ LoopTypes'
  BY <1>0 DEF SessionInv, TypeOK, SessionTypes, LoopTypes
<1>2. KernelTypes' /\ ClockTypes'
  BY DEF SessionInv, TypeOK, KernelTypes, ClockTypes, touch
<1>3. CountTypes'
  BY <1>0 DEF SessionInv, TypeOK, CountTypes
<1>4. ByteConservation' /\ NoDataAfterShutdown' /\ NothingBeforeConnect' /\ BuffersRewound'
  BY <1>0 DEF SessionInv, ByteConservation, NoDataAfterShutdown, NothingBeforeConnect, BuffersRewound
<1>5. InterestsCurrent' /\ (phase = "wait" => ~closing)'
  BY DEF InterestsCurrent, InDispatch
<1> QED BY <1>0, <1>1, <1>2, <1>3, <1>4, <1>5 DEF SessionInv, TypeOK

-----------------------------------------------------------------------------
(* The handler's reads and writes.                                         *)

LEMMA IoFailsInv ==
  ASSUME SessionInv, NEW s \in Side, IoFails(s)
  PROVE  SessionInv'
<1> DEFINE n == Receivable(s)
           after == IF Reads(s) THEN readInto(buf[s], n) ELSE buf[s]
<1>a. InDispatch(s) /\ ~closing /\ Connected(s) /\ failures' = failures
  BY DEF IoFails
<1>b. /\ buf' = [buf EXCEPT ![s] = after]
      /\ recvd' = [recvd EXCEPT ![s] = @ + n]
      /\ readClosed' = [readClosed EXCEPT ![s] = @ \/ SeesEnd(s, n)]
      /\ closing' = TRUE
      /\ batch' = [batch EXCEPT ![s] = {}]
      /\ idleExpired' = touch(n > 0 \/ FinishesConnect(s))
      /\ UNCHANGED <<writeShutdown, interest, phase, sent, peerFin, broken, writable, kconn,
                     sweepDue, connectExpired, delivered, failures>>
  BY DEF IoFails, EventDone, kernelVars
<1>c. /\ connecting' \in BOOLEAN /\ successes' \in Nat /\ OutcomeCounted'
      /\ connecting' => connecting /\ s = "client"
  BY <1>a, ConnectedFacts
<1>d. /\ recvd[s] + n <= sent[s] /\ recvd[s] + n \in Nat /\ n \in Nat
      /\ readClosed[s] => ~Reads(s)
  BY ReceivableBounds, BuffersGood, CursorFields
<1>e. GoodCursor(after) /\ readableBytes(after) = readableBytes(buf[s]) + n
  BY ReadHalf
<1> HIDE DEF n, after
<1>f. /\ buf \in [Side -> Cursor] /\ recvd \in [Side -> Nat] /\ delivered \in [Side -> Nat]
      /\ sent \in [Side -> Nat] /\ \A t \in Side : recvd[t] <= sent[t]
      /\ readClosed \in [Side -> BOOLEAN]
  BY DEF SessionInv, TypeOK, SessionTypes, CountTypes, KernelTypes
<1>g. /\ buf'[s] = after /\ \A t \in Side : t # s => buf'[t] = buf[t]
      /\ recvd'[s] = recvd[s] + n /\ \A t \in Side : t # s => recvd'[t] = recvd[t]
      /\ \A t \in Side : t # s => readClosed'[t] = readClosed[t]
      /\ readClosed[s] => readClosed'[s]
  BY <1>b, <1>f
<1>1. \A t \in Side : GoodCursor(buf'[t])
  BY <1>e, <1>g, BuffersGood
<1>2. SessionTypes'
  <2>1. buf' \in [Side -> Cursor]
    BY <1>b, <1>e, <1>f DEF GoodCursor
  <2>2. \A t \in Side : buf'[t].readIndex <= buf'[t].writeIndex
    BY <1>1 DEF GoodCursor
  <2>3. readClosed' \in [Side -> BOOLEAN] /\ writeShutdown' \in [Side -> BOOLEAN]
    <3>1. (readClosed[s] \/ SeesEnd(s, n)) \in BOOLEAN
      OBVIOUS
    <3> QED BY <1>b, <1>f, <3>1 DEF SessionInv, TypeOK, SessionTypes
  <2> QED BY <1>b, <1>c, <2>1, <2>2, <2>3 DEF SessionTypes
<1>3. LoopTypes' /\ KernelTypes' /\ ClockTypes'
  BY <1>b DEF SessionInv, TypeOK, LoopTypes, KernelTypes, ClockTypes, touch
<1>4. CountTypes'
  <2>1. recvd' \in [Side -> Nat]
    BY <1>b, <1>d, <1>f
  <2>2. \A t \in Side : recvd'[t] <= sent'[t]
    BY <1>b, <1>d, <1>f, <1>g
  <2> QED BY <1>b, <1>c, <2>1, <2>2 DEF SessionInv, TypeOK, CountTypes
<1>5. ByteConservation'
  <2> SUFFICES ASSUME NEW t \in Side
               PROVE  recvd'[t] = delivered[Other(t)] + readableBytes(buf'[t])
    BY <1>b DEF ByteConservation
  <2>1. recvd[t] = delivered[Other(t)] + readableBytes(buf[t])
    BY DEF SessionInv, ByteConservation
  <2>2. readableBytes(buf[t]) \in Int /\ delivered[Other(t)] \in Nat
    BY <1>f, OtherSide, BuffersGood, CursorFields
  <2>3. CASE t = s
    BY <1>d, <1>e, <1>g, <2>1, <2>2, <2>3
  <2>4. CASE t # s
    BY <1>g, <2>1, <2>4
  <2> QED BY <2>3, <2>4
<1>6. NoDataAfterShutdown'
  <2> SUFFICES ASSUME NEW t \in Side, writeShutdown[Other(t)]
               PROVE  readClosed'[t] /\ empty(buf'[t])
    BY <1>b DEF NoDataAfterShutdown
  <2>1. readClosed[t] /\ empty(buf[t])
    BY DEF SessionInv, NoDataAfterShutdown
  <2>2. CASE t = s
    BY <1>d, <1>g, <2>1, <2>2 DEF after
  <2>3. CASE t # s
    BY <1>g, <2>1, <2>3
  <2> QED BY <2>2, <2>3
<1>7. NothingBeforeConnect'
  BY <1>b, <1>c, <1>g DEF SessionInv, NothingBeforeConnect, Side
<1>8. BuffersRewound'
  BY <1>1 DEF BuffersRewound, GoodCursor
<1>9. InterestsCurrent' /\ (phase = "wait" => ~closing)'
  BY <1>a, <1>b DEF InterestsCurrent, InDispatch
<1> QED BY <1>c, <1>2, <1>3, <1>4, <1>5, <1>6, <1>7, <1>8, <1>9 DEF SessionInv, TypeOK

(* A write takes bytes only from a buffer that has them.                   *)
LEMMA AcceptsBounds ==
  ASSUME SessionInv, NEW s \in Side, NEW m \in 0 .. readableBytes(buf[Other(s)]), Accepts(s, m)
  PROVE  /\ m \in Nat
         /\ empty(buf[Other(s)]) => m = 0
         /\ writable' \in [Side -> BOOLEAN]
<1>1. readableBytes(buf[Other(s)]) \in Nat
  BY OtherSide, BuffersGood, CursorFields
<1>2. m \in Nat /\ (empty(buf[Other(s)]) => m = 0)
  BY <1>1 DEF empty
<1>3. writable' \in [Side -> BOOLEAN]
  BY DEF Accepts, SessionInv, TypeOK, KernelTypes
<1> QED BY <1>2, <1>3

LEMMA ForwardInv ==
  ASSUME SessionInv, NEW s \in Side, NEW m \in 0 .. readableBytes(buf[Other(s)]), Forward(s, m)
  PROVE  SessionInv'
<1> DEFINE n == Receivable(s)
           after == IF Reads(s) THEN readInto(buf[s], n) ELSE buf[s]
           drained(t) == IF m > 0 THEN consume(buf[t], m) ELSE buf[t]
<1>a. InDispatch(s) /\ ~closing /\ Connected(s) /\ failures' = failures /\ Accepts(s, m)
  BY DEF Forward
<1>b. /\ buf' = [t \in Side |-> IF t = s THEN after ELSE drained(t)]
      /\ recvd' = [recvd EXCEPT ![s] = @ + n]
      /\ delivered' = [delivered EXCEPT ![s] = @ + m]
      /\ readClosed' = [readClosed EXCEPT ![s] = @ \/ SeesEnd(s, n)]
      /\ writeShutdown' = updateHalfClose(connecting', buf', readClosed')
      /\ idleExpired' = touch(n > 0 \/ m > 0 \/ FinishesConnect(s))
      /\ batch' = [batch EXCEPT ![s] = {}]
      /\ closing' \in BOOLEAN
      /\ \/ closing' = TRUE /\ UNCHANGED interest
         \/ interest' = updateInterests(s, connecting', buf', readClosed')
      /\ UNCHANGED <<phase, sent, peerFin, broken, kconn, sweepDue, connectExpired, failures>>
  BY DEF Forward, EventDone
<1>c. /\ connecting' \in BOOLEAN /\ successes' \in Nat /\ OutcomeCounted'
      /\ connecting' => connecting /\ s = "client"
  BY <1>a, ConnectedFacts
<1>d. /\ recvd[s] + n <= sent[s] /\ recvd[s] + n \in Nat /\ n \in Nat
      /\ readClosed[s] => ~Reads(s)
  BY ReceivableBounds, BuffersGood, CursorFields
<1>e. GoodCursor(after) /\ readableBytes(after) = readableBytes(buf[s]) + n
  BY ReadHalf
<1>f. /\ m \in Nat /\ writable' \in [Side -> BOOLEAN]
      /\ empty(buf[Other(s)]) => m = 0
  BY <1>a, AcceptsBounds
<1>g. /\ GoodCursor(drained(Other(s)))
      /\ readableBytes(drained(Other(s))) = readableBytes(buf[Other(s)]) - m
  <2>1. GoodCursor(buf[Other(s)]) /\ readableBytes(buf[Other(s)]) \in Nat
    BY OtherSide, BuffersGood, CursorFields
  <2>2. CASE m > 0
    <3>1. m \in 1 .. readableBytes(buf[Other(s)])
      BY <2>1, <2>2
    <3> QED BY <2>1, <2>2, <3>1, ConsumeCursor
  <2>3. CASE ~(m > 0)
    <3>1. m = 0
      BY <1>f, <2>3
    <3> QED BY <2>1, <3>1
  <2> QED BY <2>2, <2>3
<1>h. empty(buf[Other(s)]) => drained(Other(s)) = buf[Other(s)]
  BY <1>f
<1> HIDE DEF n, after, drained
<1>i. /\ recvd \in [Side -> Nat] /\ delivered \in [Side -> Nat]
      /\ sent \in [Side -> Nat] /\ \A t \in Side : recvd[t] <= sent[t]
      /\ readClosed \in [Side -> BOOLEAN]
  BY DEF SessionInv, TypeOK, SessionTypes, CountTypes, KernelTypes
<1>j. buf'[s] = after /\ buf'[Other(s)] = drained(Other(s))
  BY <1>b, OtherSide
<1>k. /\ recvd'[s] = recvd[s] + n /\ recvd'[Other(s)] = recvd[Other(s)]
      /\ delivered'[s] = delivered[s] + m /\ delivered'[Other(s)] = delivered[Other(s)]
  BY <1>b, <1>i, OtherSide
<1>l. /\ readClosed'[Other(s)] = readClosed[Other(s)]
      /\ readClosed[s] => readClosed'[s]
  BY <1>b, <1>i, OtherSide
<1>1. \A t \in Side : GoodCursor(buf'[t])
  BY <1>e, <1>g, <1>j, OtherSide
<1>2. SessionTypes'
  <2>1. buf' \in [Side -> Cursor]
    <3>1. \A t \in Side : buf'[t] \in Cursor
      BY <1>1 DEF GoodCursor
    <3>2. buf' = [t \in Side |-> buf'[t]]
      BY <1>b
    <3> QED BY <3>1, <3>2
  <2>2. \A t \in Side : buf'[t].readIndex <= buf'[t].writeIndex
    BY <1>1 DEF GoodCursor
  <2>3. readClosed' \in [Side -> BOOLEAN]
    <3>1. (readClosed[s] \/ SeesEnd(s, n)) \in BOOLEAN
      OBVIOUS
    <3> QED BY <1>b, <1>i, <3>1
  <2>4. writeShutdown' \in [Side -> BOOLEAN]
    BY <1>b DEF updateHalfClose
  <2> QED BY <1>b, <1>c, <2>1, <2>2, <2>3, <2>4 DEF SessionTypes
<1>3. LoopTypes'
  <2>1. interest' \in [Side -> SUBSET Events]
    BY <1>b DEF SessionInv, TypeOK, LoopTypes, updateInterests, clientEvents, upstreamEvents, Events
  <2> QED BY <1>b, <2>1 DEF SessionInv, TypeOK, LoopTypes
<1>4. KernelTypes' /\ ClockTypes'
  BY <1>b, <1>f DEF SessionInv, TypeOK, KernelTypes, ClockTypes, touch
<1>5. CountTypes'
  <2>1. recvd' \in [Side -> Nat]
    BY <1>b, <1>d, <1>i
  <2>2. delivered' \in [Side -> Nat]
    <3>1. delivered[s] + m \in Nat
      BY <1>f, <1>i
    <3> QED BY <1>b, <1>i, <3>1
  <2>3. \A t \in Side : recvd'[t] <= sent'[t]
    BY <1>b, <1>d, <1>i, <1>k, OtherSide
  <2> QED BY <1>b, <1>c, <2>1, <2>2, <2>3 DEF SessionInv, TypeOK, CountTypes
<1>6. ByteConservation'
  <2>1. /\ recvd[s] = delivered[Other(s)] + readableBytes(buf[s])
        /\ recvd[Other(s)] = delivered[s] + readableBytes(buf[Other(s)])
    BY OtherSide DEF SessionInv, ByteConservation
  <2>2. /\ readableBytes(buf[s]) \in Nat /\ readableBytes(buf[Other(s)]) \in Nat
        /\ delivered[s] \in Nat /\ delivered[Other(s)] \in Nat
    BY <1>i, OtherSide, BuffersGood, CursorFields
  <2>3. recvd'[s] = delivered'[Other(s)] + readableBytes(buf'[s])
    BY <1>d, <1>e, <1>j, <1>k, <2>1, <2>2
  <2>4. recvd'[Other(s)] = delivered'[s] + readableBytes(buf'[Other(s)])
    BY <1>f, <1>g, <1>j, <1>k, <2>1, <2>2
  <2> QED BY <2>3, <2>4, OtherSide DEF ByteConservation
<1>7. NoDataAfterShutdown'
  <2> SUFFICES ASSUME NEW t \in Side, writeShutdown'[Other(t)]
               PROVE  readClosed'[t] /\ empty(buf'[t])
    BY DEF NoDataAfterShutdown
  <2>1. writeShutdown[Other(t)] \/ (readClosed'[t] /\ empty(buf'[t]))
    BY <1>b, OtherSide DEF updateHalfClose
  <2>2. ASSUME writeShutdown[Other(t)] PROVE readClosed'[t] /\ empty(buf'[t])
    <3>1. readClosed[t] /\ empty(buf[t])
      BY <2>2 DEF SessionInv, NoDataAfterShutdown
    <3>2. CASE t = s
      BY <1>d, <1>j, <1>l, <3>1, <3>2 DEF after
    <3>3. CASE t = Other(s)
      BY <1>h, <1>j, <1>l, <3>1, <3>3
    <3> QED BY <3>2, <3>3, OtherSide
  <2> QED BY <2>1, <2>2
<1>8. NothingBeforeConnect'
  <2> SUFFICES ASSUME connecting'
               PROVE  /\ delivered'["upstream"] = 0 /\ recvd'["upstream"] = 0
                      /\ ~writeShutdown'["upstream"] /\ ~readClosed'["upstream"]
    BY DEF NothingBeforeConnect
  <2>1. connecting /\ Other(s) = "upstream"
    BY <1>c DEF Other
  <2>2. /\ delivered["upstream"] = 0 /\ recvd["upstream"] = 0
        /\ ~writeShutdown["upstream"] /\ ~readClosed["upstream"]
    BY <2>1 DEF SessionInv, NothingBeforeConnect
  <2>3. ~writeShutdown'["upstream"]
    BY <1>b, <2>2 DEF updateHalfClose, Side
  <2> QED BY <1>k, <1>l, <2>1, <2>2, <2>3
<1>9. BuffersRewound'
  BY <1>1 DEF BuffersRewound, GoodCursor
<1>10. InterestsCurrent' /\ (phase = "wait" => ~closing)'
  BY <1>a, <1>b DEF InterestsCurrent, updateInterests, InDispatch
<1> QED BY <1>c, <1>2, <1>3, <1>4, <1>5, <1>6, <1>7, <1>8, <1>9, <1>10 DEF SessionInv, TypeOK

-----------------------------------------------------------------------------
(* The inductive step and the theorems.                                    *)

LEMMA NextInv == SessionInv /\ [Next]_vars => SessionInv'
<1> SUFFICES ASSUME SessionInv, [Next]_vars PROVE SessionInv'
    OBVIOUS
<1>1. CASE EpollWait
  BY <1>1, EpollWaitInv
<1>2. ASSUME NEW s \in Side, HandleEvent(s) PROVE SessionInv'
  BY <1>2, SkipClosingInv, ConnectFailsInv, SocketErrorInv, IoFailsInv,
     ForwardInv DEF HandleEvent
<1>3. CASE EndBatch
  BY <1>3, EndBatchInv
<1>4. CASE Environment
  BY <1>4, EnvironmentInv
<1>5. CASE UNCHANGED vars
  <2> USE <1>5 DEF vars
  <2>1. SessionTypes' /\ LoopTypes' /\ KernelTypes'
    BY DEF SessionInv, TypeOK, SessionTypes, LoopTypes, KernelTypes
  <2>2. ClockTypes' /\ CountTypes'
    BY DEF SessionInv, TypeOK, ClockTypes, CountTypes
  <2>3. TypeOK'
    BY <2>1, <2>2 DEF TypeOK
  <2> QED BY <2>3, QuietStep DEF sessionVars, countVars
<1>6. CASE Gone
  BY <1>5, <1>6 DEF Gone
<1> QED BY <1>1, <1>2, <1>3, <1>4, <1>5, <1>6 DEF Next

(* SessionInv holds in every reachable state: it is the strengthening every *)
(* theorem below rests on, true initially and kept by every action of the  *)
(* handler, of the loop and of the peers.                                  *)
THEOREM Invariance == Spec => []SessionInv
BY InitInv, NextInv, PTL DEF Spec

(* Every variable of the session stays in its type: the cursors within the *)
(* storage, the counters and flags as declared.                            *)
THEOREM TypeCorrect == Spec => []TypeOK
<1>1. SessionInv => TypeOK
  BY DEF SessionInv
<1> QED BY <1>1, Invariance, PTL

(* readInto(), writeFrom() and compaction lose and repeat no byte.         *)
THEOREM Conservation == Spec => []ByteConservation
<1>1. SessionInv => ByteConservation
  BY DEF SessionInv
<1> QED BY <1>1, Invariance, PTL

(* updateHalfClose() never shuts a socket down that still has data coming. *)
THEOREM ShutdownIsFinal == Spec => []NoDataAfterShutdown
<1>1. SessionInv => NoDataAfterShutdown
  BY DEF SessionInv
<1> QED BY <1>1, Invariance, PTL

(* Nothing happens on the upstream socket before SO_ERROR is checked.      *)
THEOREM ConnectComesFirst == Spec => []NothingBeforeConnect
<1>1. SessionInv => NothingBeforeConnect
  BY DEF SessionInv
<1> QED BY <1>1, Invariance, PTL

(* A connect is never counted both as a success and as a failure.          *)
THEOREM CountedOnce == Spec => []ConnectCountedOnce
<1>1. SessionInv => ConnectCountedOnce
  BY DEF SessionInv, OutcomeCounted, ConnectCountedOnce, TypeOK, CountTypes
<1> QED BY <1>1, Invariance, PTL

(* Whatever was handled last, both sockets wait with the right events.     *)
THEOREM AlwaysArmed == Spec => []ArmedWhileWaiting
<1>1. SessionInv => ArmedWhileWaiting
  <2> SUFFICES ASSUME SessionInv, phase = "wait", NEW s \in Side
               PROVE  /\ ~empty(buf[s]) /\ ~(connecting /\ s = "client")
                           => "OUT" \in interest[Other(s)]
                      /\ empty(buf[s]) /\ ~readClosed[s] /\ ~(connecting /\ s = "upstream")
                           => "IN" \in interest[s]
    BY DEF ArmedWhileWaiting
  <2>1. /\ interest["client"] = clientEvents(buf, readClosed)
        /\ interest["upstream"] = upstreamEvents(connecting, buf, readClosed)
    BY DEF SessionInv, InterestsCurrent, Side
  <2>2. empty(buf[s]) => writableBytes(buf[s]) > 0
    BY DEF SessionInv, BuffersRewound
  <2>3. CASE s = "client"
    BY <2>1, <2>2, <2>3 DEF clientEvents, upstreamEvents, Other
  <2>4. CASE s = "upstream"
    BY <2>1, <2>2, <2>4 DEF clientEvents, upstreamEvents, Other
  <2> QED BY <2>3, <2>4 DEF Side
<1> QED BY <1>1, Invariance, PTL

=============================================================================
