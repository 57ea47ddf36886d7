---------------------------- MODULE ProxySession ----------------------------
(***************************************************************************)
(* One fluxgate::ProxySession and the part of Worker::run() that drives    *)
(* it: epoll_wait takes a snapshot of the ready events of the client and   *)
(* the upstream socket, the events are dispatched one socket at a time     *)
(* while the peers go on sending, closing and failing, and the end of the  *)
(* batch closes or sweeps the session.                                     *)
(*                                                                         *)
(* Bytes are counted, not stored: ByteBuffer.tla shows that the buffer     *)
(* keeps their order. buf[s] is the buffer filled from side s, so          *)
(* buf["client"] is clientToUpstream_ and buf["upstream"] is               *)
(* upstreamToClient_.                                                      *)
(***************************************************************************)
EXTENDS ByteCursors

CONSTANTS MaxBytes,     \* bound: bytes the peer on each side sends in a behaviour
          Faults,       \* whether sockets fail: resets, refused connects, epoll_ctl
          Timeouts      \* whether the connect and idle deadlines ever pass

Side == {"client", "upstream"}
Other(s) == IF s = "client" THEN "upstream" ELSE "client"

ASSUME SessionAssumption ==
  MaxBytes \in [Side -> Nat] /\ Faults \in BOOLEAN /\ Timeouts \in BOOLEAN

Events == {"IN", "OUT", "RDHUP", "HUP", "ERR"}

VARIABLES
  connecting,       \* upstreamConnecting_
  buf,              \* clientToUpstream_ and upstreamToClient_, by source side
  readClosed,       \* clientReadClosed_, upstreamReadClosed_
  writeShutdown,    \* clientWriteShutdown_, upstreamWriteShutdown_
  closing,          \* closing_
  interest,         \* the events each socket is registered for in epoll
  batch,            \* events returned by epoll_wait and not yet dispatched
  phase,            \* "wait", "dispatch", or "closed" once out of sessions_
  sent,             \* bytes the peer on side s has put on the wire
  peerFin,          \* the peer on side s has closed its write direction
  broken,           \* the socket of side s has a pending socket error
  writable,         \* the socket of side s has room in its send buffer
  kconn,            \* the kernel's view of connect(): "pending", "ok", "failed"
  sweepDue,         \* a second has passed since lastSweep
  connectExpired,   \* connect_timeout_ms has passed since createdAt_
  idleExpired,      \* idle_timeout_seconds has passed since lastActivity_
  recvd,            \* bytes received from side s (the byte metrics)
  delivered,        \* bytes accepted by send() towards side s
  successes,        \* recordConnectSuccess() calls
  failures          \* recordConnectFailure() calls

sessionVars == <<connecting, buf, readClosed, writeShutdown, closing>>
loopVars    == <<interest, batch, phase>>
kernelVars  == <<sent, peerFin, broken, writable, kconn>>
clockVars   == <<sweepDue, connectExpired, idleExpired>>
countVars   == <<recvd, delivered, successes, failures>>
vars == <<connecting, buf, readClosed, writeShutdown, closing, interest, batch, phase,
          sent, peerFin, broken, writable, kconn, sweepDue, connectExpired, idleExpired,
          recvd, delivered, successes, failures>>

SessionTypes ==
  /\ connecting \in BOOLEAN
  /\ buf \in [Side -> Cursor]
  /\ \A s \in Side : buf[s].readIndex <= buf[s].writeIndex
  /\ readClosed \in [Side -> BOOLEAN]
  /\ writeShutdown \in [Side -> BOOLEAN]
  /\ closing \in BOOLEAN

LoopTypes ==
  /\ interest \in [Side -> SUBSET Events]
  /\ batch \in [Side -> SUBSET Events]
  /\ phase \in {"wait", "dispatch", "closed"}

KernelTypes ==
  /\ sent \in [Side -> Nat]
  /\ peerFin \in [Side -> BOOLEAN]
  /\ broken \in [Side -> BOOLEAN]
  /\ writable \in [Side -> BOOLEAN]
  /\ kconn \in {"pending", "ok", "failed"}

ClockTypes == sweepDue \in BOOLEAN /\ connectExpired \in BOOLEAN /\ idleExpired \in BOOLEAN

CountTypes ==
  /\ recvd \in [Side -> Nat]
  /\ \A s \in Side : recvd[s] <= sent[s]
  /\ delivered \in [Side -> Nat]
  /\ successes \in Nat
  /\ failures \in Nat

TypeOK == SessionTypes /\ LoopTypes /\ KernelTypes /\ ClockTypes /\ CountTypes

-----------------------------------------------------------------------------
(* What the session asks epoll for.                                        *)

clientEvents(b, closed) ==
  {"RDHUP"}
    \cup {e \in {"IN"} : ~closed["client"] /\ writableBytes(b["client"]) > 0}
    \cup {e \in {"OUT"} : ~empty(b["upstream"])}

upstreamEvents(isConnecting, b, closed) ==
  IF isConnecting
  THEN {"RDHUP", "OUT"}
  ELSE {"RDHUP"}
         \cup {e \in {"IN"} : ~closed["upstream"] /\ writableBytes(b["upstream"]) > 0}
         \cup {e \in {"OUT"} : ~empty(b["client"])}

(* Mutant: only the socket the event came from is re-registered.           *)
UpdateOwnInterest(s, isConnecting, b, closed) ==
  [interest EXCEPT ![s] = IF s = "client" THEN clientEvents(b, closed)
                          ELSE upstreamEvents(isConnecting, b, closed)]

(* Handling an event of either socket re-registers both.                   *)
updateInterests(s, isConnecting, b, closed) ==
  [t \in Side |-> IF t = "client" THEN clientEvents(b, closed)
                  ELSE upstreamEvents(isConnecting, b, closed)]

(* A session is created with connect() finished or in progress.            *)
Init ==
  /\ connecting \in BOOLEAN
  /\ kconn = IF connecting THEN "pending" ELSE "ok"
  /\ successes = IF connecting THEN 0 ELSE 1
  /\ failures = 0
  /\ buf = [s \in Side |-> EmptyCursor]
  /\ readClosed = [s \in Side |-> FALSE]
  /\ writeShutdown = [s \in Side |-> FALSE]
  /\ closing = FALSE
  /\ interest = [s \in Side |-> IF s = "client" THEN clientEvents(buf, readClosed)
                                ELSE upstreamEvents(connecting, buf, readClosed)]
  /\ batch = [s \in Side |-> {}]
  /\ phase = "wait"
  /\ sent = [s \in Side |-> 0]
  /\ peerFin = [s \in Side |-> FALSE]
  /\ broken = [s \in Side |-> FALSE]
  /\ writable = [s \in Side |-> TRUE]
  /\ sweepDue = FALSE
  /\ connectExpired = FALSE
  /\ idleExpired = FALSE
  /\ recvd = [s \in Side |-> 0]
  /\ delivered = [s \in Side |-> 0]

-----------------------------------------------------------------------------
(* The kernel and the peers.                                               *)

Open == phase # "closed"
Pending(s) == s = "upstream" /\ kconn = "pending"
SocketFailed(s) == broken[s] \/ (s = "upstream" /\ kconn = "failed")
Alive(s) == Open /\ ~Pending(s) /\ ~SocketFailed(s)
Unread(s) == sent[s] - recvd[s]

PeerSends(s) ==
  /\ Alive(s) /\ ~peerFin[s] /\ sent[s] < MaxBytes[s]
  /\ sent' = [sent EXCEPT ![s] = @ + 1]
  /\ UNCHANGED <<sessionVars, loopVars, peerFin, broken, writable, kconn, clockVars, countVars>>

PeerCloses(s) ==
  /\ Alive(s) /\ ~peerFin[s]
  /\ peerFin' = [peerFin EXCEPT ![s] = TRUE]
  /\ UNCHANGED <<sessionVars, loopVars, sent, broken, writable, kconn, clockVars, countVars>>

PeerResets(s) ==
  /\ Faults /\ Alive(s)
  /\ broken' = [broken EXCEPT ![s] = TRUE]
  /\ UNCHANGED <<sessionVars, loopVars, sent, peerFin, writable, kconn, clockVars, countVars>>

(* The peer reads, so the send buffer of side s has room again.            *)
PeerReads(s) ==
  /\ Alive(s) /\ ~writable[s]
  /\ writable' = [writable EXCEPT ![s] = TRUE]
  /\ UNCHANGED <<sessionVars, loopVars, sent, peerFin, broken, kconn, clockVars, countVars>>

ConnectSettles ==
  /\ Open /\ kconn = "pending"
  /\ \/ kconn' = "ok"
     \/ Faults /\ kconn' = "failed"
  /\ UNCHANGED <<sessionVars, loopVars, sent, peerFin, broken, writable, clockVars, countVars>>

SecondPasses ==
  /\ Open /\ ~sweepDue
  /\ sweepDue' = TRUE
  /\ UNCHANGED <<sessionVars, loopVars, kernelVars, connectExpired, idleExpired, countVars>>

ConnectDeadlinePasses ==
  /\ Open /\ Timeouts /\ connecting /\ ~connectExpired
  /\ connectExpired' = TRUE
  /\ UNCHANGED <<sessionVars, loopVars, kernelVars, sweepDue, idleExpired, countVars>>

IdleDeadlinePasses ==
  /\ Open /\ Timeouts /\ ~idleExpired
  /\ idleExpired' = TRUE
  /\ UNCHANGED <<sessionVars, loopVars, kernelVars, sweepDue, connectExpired, countVars>>

(* The readiness tcp_poll() computes, level-triggered.                     *)
Ready(s) ==
  {e \in Events :
     /\ ~Pending(s)
     /\ \/ SocketFailed(s)
        \/ e = "IN" /\ (Unread(s) > 0 \/ peerFin[s])
        \/ e = "RDHUP" /\ peerFin[s]
        \/ e = "OUT" /\ (writable[s] \/ writeShutdown[s])
        \/ e = "HUP" /\ peerFin[s] /\ writeShutdown[s]}

(* epoll reports errors and hang-ups whether or not they were asked for.   *)
Reported(s) == Ready(s) \cap (interest[s] \cup {"ERR", "HUP"})

(* epoll_wait() returns: with the events ready now, or with none of them   *)
(* after its timeout. maxEvents is at least 16, so both sockets fit.       *)
EpollWait ==
  /\ phase = "wait"
  /\ batch' = [s \in Side |-> Reported(s)]
  /\ phase' = "dispatch"
  /\ UNCHANGED <<sessionVars, interest, kernelVars, clockVars, countVars>>

-----------------------------------------------------------------------------
(* ProxySession::handleEvent.                                              *)

Free(b) == Capacity - readableBytes(b)

(* recv() until the kernel is empty or the buffer is full: what does not   *)
(* fit behind the write cursor is received after makeWritable() compacted. *)
readInto(b, n) ==
  LET first  == makeWritable(b)
      tail   == IF n <= writableBytes(first) THEN n ELSE writableBytes(first)
      second == makeWritable(hasWritten(first, tail))
  IN  hasWritten(second, n - tail)

(* The IoResult of a readInto() that received n bytes of side s.           *)
ReadResult(s, n) ==
  CASE n = Free(buf[s])                      -> IF n > 0 THEN "Progress" ELSE "WouldBlock"
    [] n # Free(buf[s]) /\ SocketFailed(s)   -> "Error"
    [] n # Free(buf[s]) /\ ~SocketFailed(s) /\ peerFin[s] -> "Closed"
    [] OTHER                                 -> IF n > 0 THEN "Progress" ELSE "WouldBlock"

(* Mutant: the target is shut down without waiting for connect() to finish *)
HalfCloseWhileConnecting(isConnecting, b, closed) ==
  [t \in Side |-> writeShutdown[t] \/ (closed[Other(t)] /\ empty(b[Other(t)]))]

(* Mutant: the target is shut down before the buffer is drained.           *)
HalfCloseUndrained(isConnecting, b, closed) ==
  [t \in Side |-> writeShutdown[t] \/ (closed[Other(t)] /\ ~(t = "upstream" /\ isConnecting))]

(* Once side s is at its end and its buffer is drained, the other side is  *)
(* shut down for writing, the upstream one only when it is connected.      *)
updateHalfClose(isConnecting, b, closed) ==
  [t \in Side |->
     \/ writeShutdown[t]
     \/ closed[Other(t)] /\ empty(b[Other(t)]) /\ ~(t = "upstream" /\ isConnecting)]

(* Mutant: the session lasts until both peers have closed.                 *)
BothSidesDone(b, closed) == closed["client"] /\ closed["upstream"] /\ empty(b["upstream"])

(* The response is over and delivered: the client has nothing to wait for. *)
completed(b, closed) == closed["upstream"] /\ empty(b["upstream"])

(* Mutant: every handled event counts as activity.                         *)
TouchAlways(progress) == FALSE

(* touch() after a successful read, write or connect.                      *)
touch(progress) == idleExpired /\ ~progress

InDispatch(s) == phase = "dispatch" /\ batch[s] # {}

EventDone(s) == batch' = [batch EXCEPT ![s] = {}]

FinishesConnect(s) == s = "upstream" /\ connecting

(* The session is already closing: Worker::run() skips the event.          *)
SkipClosing(s) ==
  /\ InDispatch(s) /\ closing
  /\ EventDone(s)
  /\ UNCHANGED <<sessionVars, interest, phase, kernelVars, clockVars, countVars>>

(* finishUpstreamConnect() reads a nonzero SO_ERROR.                       *)
ConnectFails(s) ==
  /\ InDispatch(s) /\ ~closing
  /\ FinishesConnect(s) /\ batch[s] \cap {"OUT", "ERR", "HUP"} # {}
  /\ SocketFailed(s)
  /\ failures' = failures + 1
  /\ closing' = TRUE
  /\ EventDone(s)
  /\ UNCHANGED <<connecting, buf, readClosed, writeShutdown, interest, phase, kernelVars,
                 clockVars, recvd, delivered, successes>>

(* finishUpstreamConnect() succeeds, if it is called at all. The early     *)
(* return for an event of a connecting socket without any of the three is  *)
(* never taken: tcp_poll() reports EPOLLOUT with every event of a connect  *)
(* that settled, and nothing before. Were it needed, the event could not   *)
(* be handled here and EventuallyReclaimed would fail.                     *)
Connected(s) ==
  /\ FinishesConnect(s) => batch[s] \cap {"OUT", "ERR", "HUP"} # {} /\ ~SocketFailed(s)
  /\ connecting' = (connecting /\ s # "upstream")
  /\ successes' = successes + (IF FinishesConnect(s) THEN 1 ELSE 0)

(* EPOLLERR: the session is given up without reading or writing.           *)
SocketError(s) ==
  /\ InDispatch(s) /\ ~closing
  /\ Connected(s)
  /\ "ERR" \in batch[s]
  /\ closing' = TRUE
  /\ idleExpired' = touch(FinishesConnect(s))
  /\ EventDone(s)
  /\ UNCHANGED <<buf, readClosed, writeShutdown, interest, phase, kernelVars,
                 sweepDue, connectExpired, recvd, delivered, failures>>

Reads(s) == ~readClosed[s] /\ batch[s] \cap {"IN", "RDHUP", "HUP"} # {}
Writes(s) == "OUT" \in batch[s] /\ ~empty(buf[Other(s)])

(* Mutant: recv() is offered more than the space behind the write cursor.  *)
ReceiveBeyondSpace(s) == IF ~Reads(s) THEN 0 ELSE Unread(s)

(* What recv() yields now: all the kernel holds, as far as it fits.        *)
Receivable(s) ==
  IF ~Reads(s) THEN 0
  ELSE IF Unread(s) <= Free(buf[s]) THEN Unread(s) ELSE Free(buf[s])

(* A hang-up event whose read made no progress also ends the direction.    *)
SeesEnd(s, n) ==
  /\ Reads(s)
  /\ \/ ReadResult(s, n) = "Closed"
     \/ ReadResult(s, n) = "WouldBlock" /\ batch[s] \cap {"RDHUP", "HUP"} # {}

(* A read or a write fails: whatever was read stays behind in the buffer.  *)
IoFails(s) ==
  LET n == Receivable(s)
      readFails == Reads(s) /\ ReadResult(s, n) = "Error"
  IN  /\ InDispatch(s) /\ ~closing
      /\ Connected(s)
      /\ "ERR" \notin batch[s]
      /\ readFails \/ (Writes(s) /\ SocketFailed(s))
      /\ buf' = [buf EXCEPT ![s] = IF Reads(s) THEN readInto(@, n) ELSE @]
      /\ recvd' = [recvd EXCEPT ![s] = @ + n]
      /\ closing' = TRUE
      /\ readClosed' = [readClosed EXCEPT ![s] = @ \/ SeesEnd(s, n)]
      /\ idleExpired' = touch(n > 0 \/ FinishesConnect(s))
      /\ EventDone(s)
      /\ UNCHANGED <<writeShutdown, interest, phase, kernelVars, sweepDue, connectExpired,
                     delivered, failures>>

(* send() accepts m bytes; a short write leaves the send buffer full.      *)
Accepts(s, m) ==
  IF ~Writes(s) THEN m = 0 /\ UNCHANGED writable
  ELSE LET waiting == readableBytes(buf[Other(s)])
       IN  /\ m \in (IF writable[s] THEN 1 .. waiting ELSE {0})
           /\ \E room \in BOOLEAN :
                /\ room => m = waiting
                /\ writable' = [writable EXCEPT ![s] = room]

(* The event is handled: read, write, half-close, then complete or go on   *)
(* with the interests of both sockets updated.                             *)
Forward(s, m) ==
  LET n == Receivable(s)
  IN  /\ InDispatch(s) /\ ~closing
      /\ Connected(s)
      /\ "ERR" \notin batch[s]
      /\ Reads(s) => ReadResult(s, n) # "Error"
      /\ Writes(s) => ~SocketFailed(s)
      /\ Accepts(s, m)
      /\ buf' = [t \in Side |->
                   IF t = s
                   THEN IF Reads(s) THEN readInto(buf[s], n) ELSE buf[s]
                   ELSE IF m > 0 THEN consume(buf[t], m) ELSE buf[t]]
      /\ recvd' = [recvd EXCEPT ![s] = @ + n]
      /\ delivered' = [delivered EXCEPT ![s] = @ + m]
      /\ readClosed' = [readClosed EXCEPT ![s] = @ \/ SeesEnd(s, n)]
      /\ writeShutdown' = updateHalfClose(connecting', buf', readClosed')
      /\ idleExpired' = touch(n > 0 \/ m > 0 \/ FinishesConnect(s))
      /\ EventDone(s)
      /\ \/ /\ completed(buf', readClosed')
            /\ closing' = TRUE
            /\ UNCHANGED interest
         \/ /\ ~completed(buf', readClosed')
            /\ closing' = FALSE
            /\ interest' = updateInterests(s, connecting', buf', readClosed')
         \/ /\ Faults /\ ~completed(buf', readClosed')    \* epoll_ctl(MOD) failed
            /\ closing' = TRUE
            /\ UNCHANGED interest
      /\ UNCHANGED <<phase, sent, peerFin, broken, kconn, sweepDue, connectExpired, failures>>

HandleEvent(s) ==
  \/ SkipClosing(s)
  \/ ConnectFails(s)
  \/ SocketError(s)
  \/ IoFails(s)
  \/ \E m \in 0 .. readableBytes(buf[Other(s)]) : Forward(s, m)

-----------------------------------------------------------------------------
(* The end of a batch in Worker::run().                                    *)

BatchDone == phase = "dispatch" /\ \A s \in Side : batch[s] = {}

(* Mutant: the sweep sees the session before it is closed.                 *)
SweepSeesClosing == sweepDue

(* sweepIdleSessions() runs after the closing sessions left sessions_.     *)
SweepSees == sweepDue /\ ~closing

connectTimedOut == connecting /\ connectExpired

EndBatch ==
  /\ BatchDone
  /\ failures' = failures + (IF SweepSees /\ connectTimedOut THEN 1 ELSE 0)
  /\ phase' = IF closing \/ (SweepSees /\ (connectTimedOut \/ idleExpired))
              THEN "closed" ELSE "wait"
  /\ sweepDue' = FALSE
  /\ UNCHANGED <<sessionVars, interest, batch, kernelVars, connectExpired, idleExpired,
                 recvd, delivered, successes>>

(* The session is gone: its destructor has closed both sockets.            *)
Gone ==
  /\ phase = "closed"
  /\ UNCHANGED vars

Environment ==
  \/ \E s \in Side : PeerSends(s) \/ PeerCloses(s) \/ PeerResets(s) \/ PeerReads(s)
  \/ ConnectSettles
  \/ SecondPasses \/ ConnectDeadlinePasses \/ IdleDeadlinePasses

Next ==
  \/ EpollWait
  \/ \E s \in Side : HandleEvent(s)
  \/ EndBatch
  \/ Environment
  \/ Gone

Spec == Init /\ [][Next]_vars

(* The worker thread keeps running and time keeps passing.                 *)
LoopFairness ==
  /\ WF_vars(EpollWait)
  /\ \A s \in Side : WF_vars(HandleEvent(s))
  /\ WF_vars(EndBatch)
  /\ WF_vars(SecondPasses)
  /\ WF_vars(IdleDeadlinePasses)

(* The connect settles and the peers keep reading what they are sent.      *)
PeerFairness ==
  /\ WF_vars(ConnectSettles)
  /\ \A s \in Side : WF_vars(PeerReads(s))

LoopSpec == Spec /\ LoopFairness
FlowSpec == Spec /\ LoopFairness /\ PeerFairness

-----------------------------------------------------------------------------
(* Safety.                                                                 *)

(* Every byte received from one side is either still in the buffer of that *)
(* direction or was accepted by send() towards the other side: readInto(), *)
(* compaction and short writes neither lose nor repeat a byte.             *)
ByteConservation ==
  \A s \in Side : recvd[s] = delivered[Other(s)] + readableBytes(buf[s])

(* A side is shut down for writing only after the opposite side ended and  *)
(* its buffer drained, and it stays drained: no data is received for, or   *)
(* sent to, a socket that updateHalfClose() shut down.                     *)
NoDataAfterShutdown ==
  \A s \in Side : writeShutdown[Other(s)] => readClosed[s] /\ empty(buf[s])

(* Until SO_ERROR confirmed the connect, nothing is sent to, received from *)
(* or shut down on the upstream socket, whatever the client does meanwhile.*)
NothingBeforeConnect ==
  connecting => /\ delivered["upstream"] = 0 /\ recvd["upstream"] = 0
                /\ ~writeShutdown["upstream"] /\ ~readClosed["upstream"]

(* A connect attempt is counted at most once, as a success or as a         *)
(* failure, although a failing event and the timeout sweep of the same     *)
(* batch can both see the session.                                         *)
ConnectCountedOnce == successes + failures <= 1

(* When the loop goes back to epoll_wait() every direction that can move   *)
(* is armed: data for a connected side arms its EPOLLOUT, and an open side *)
(* whose buffer is empty has EPOLLIN, whichever socket was handled last.   *)
ArmedWhileWaiting ==
  phase = "wait" =>
    \A s \in Side :
      /\ ~empty(buf[s]) /\ ~(connecting /\ s = "client") => "OUT" \in interest[Other(s)]
      /\ empty(buf[s]) /\ ~readClosed[s] /\ ~(connecting /\ s = "upstream")
           => "IN" \in interest[s]

-----------------------------------------------------------------------------
(* The inductive invariant of the session.                                 *)

(* An empty buffer has its cursors at zero.                                *)
BuffersRewound == \A s \in Side : empty(buf[s]) => writableBytes(buf[s]) = Capacity

(* While a session goes on, epoll has the interests of its current state.  *)
InterestsCurrent ==
  ~closing => interest = [s \in Side |-> IF s = "client" THEN clientEvents(buf, readClosed)
                                         ELSE upstreamEvents(connecting, buf, readClosed)]

(* A connect is counted when it ends, and a failure ends the session.      *)
OutcomeCounted ==
  /\ successes <= 1 /\ failures <= 1
  /\ connecting => successes = 0
  /\ failures = 1 => connecting /\ (closing \/ phase = "closed")

SessionInv ==
  /\ TypeOK
  /\ ByteConservation
  /\ NoDataAfterShutdown
  /\ NothingBeforeConnect
  /\ BuffersRewound
  /\ InterestsCurrent
  /\ OutcomeCounted
  /\ phase = "wait" => ~closing

-----------------------------------------------------------------------------
(* Liveness.                                                               *)

(* A session whose peers fall silent is closed and its sockets released:   *)
(* neither a pending connect nor a socket that keeps reporting a hang-up   *)
(* holds it for ever, because only real I/O postpones the idle deadline.   *)
EventuallyReclaimed == <>(phase = "closed")

(* Without failures and deadlines, bytes a peer sent are received and      *)
(* buffered bytes are sent on, unless the session ends or the direction is *)
(* closed: backpressure always lets go again.                              *)
DataKeepsMoving ==
  \A s \in Side :
    /\ ~empty(buf[s]) ~> (empty(buf[s]) \/ phase = "closed")
    /\ Unread(s) > 0 ~> (Unread(s) = 0 \/ readClosed[s] \/ phase = "closed")

(* Without failures and deadlines, the end of the client's stream reaches  *)
(* the upstream as a FIN and the end of the upstream's stream ends the     *)
(* session, however the two interleave with connect and with slow peers.   *)
EndOfStreamPropagates ==
  /\ peerFin["client"] ~> (writeShutdown["upstream"] \/ phase = "closed")
  /\ peerFin["upstream"] ~> (phase = "closed")

-----------------------------------------------------------------------------
(* What the repository says and the code does not do.                      *)

(* "After one side reads EOF" its buffer is drained and the other side is  *)
(* shut down: when updateHalfClose() sends the FIN, the whole stream of    *)
(* the source side has been received.                                      *)
HalfCloseAtEndOfStream ==
  \A s \in Side : writeShutdown[Other(s)] => peerFin[s] /\ Unread(s) = 0

(* No busy loop: a session with nothing to move lets epoll_wait() block.   *)
LoopComesToRest ==
  []<>(phase = "closed" \/ (phase = "wait" /\ \A s \in Side : Reported(s) = {}))

=============================================================================
