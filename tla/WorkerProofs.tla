---------------------------- MODULE WorkerProofs ----------------------------
(***************************************************************************)
(* A Worker is correct for every number of clients and descriptors and     *)
(* every queue limit. WorkerInv, the inductive invariant, has three        *)
(* layers: ControlInv, where the two threads are and which wakeup is still *)
(* to come; OwnerInv, who owns which descriptor; CountInv, what the        *)
(* counters and the descriptor table add up to. The actions are first      *)
(* reduced to the nine effects they can have on ownership; the last two    *)
(* layers rest on these. The worker then implements WorkerService, step by *)
(* step.                                                                   *)
(***************************************************************************)
EXTENDS Worker, FiniteSetTheorems, SequenceTheorems, TLAPS

(* No element of q appears twice.                                          *)
IsOnceEach(q) == \A i, j \in 1..Len(q) : q[i] = q[j] => i = j

(* What enqueue() does to the set of queued clients.                       *)
LEMMA SetOfAppend ==
  ASSUME NEW S, NEW q \in Seq(S), NEW e \in S
  PROVE  ToSet(Append(q, e)) = ToSet(q) \cup {e}
<1>1. /\ Len(Append(q, e)) = Len(q) + 1 /\ DOMAIN Append(q, e) = 1..(Len(q) + 1)
      /\ \A i \in 1..Len(q) : Append(q, e)[i] = q[i]
      /\ Append(q, e)[Len(q) + 1] = e
      /\ Len(q) \in Nat /\ DOMAIN q = 1..Len(q)
  BY AppendProperties, LenProperties
<1>2. \A x : x \in ToSet(Append(q, e)) <=> x \in ToSet(q) \cup {e}
  BY <1>1 DEF ToSet
<1> QED
  BY <1>2

(* Appending an element that is not there yet keeps elements distinct.     *)
LEMMA OnceEachAppend ==
  ASSUME NEW S, NEW q \in Seq(S), NEW e \in S, IsOnceEach(q), e \notin ToSet(q)
  PROVE  IsOnceEach(Append(q, e))
<1>1. /\ Len(Append(q, e)) = Len(q) + 1
      /\ \A i \in 1..Len(q) : Append(q, e)[i] = q[i]
      /\ Append(q, e)[Len(q) + 1] = e
      /\ Len(q) \in Nat /\ DOMAIN q = 1..Len(q)
  BY AppendProperties, LenProperties
<1>2. \A i \in 1..Len(q) : q[i] # e
  BY <1>1 DEF ToSet
<1> QED
  BY <1>1, <1>2 DEF IsOnceEach

(* Taking the first client of the drained queue removes exactly that one.  *)
LEMMA SetOfTail ==
  ASSUME NEW S, NEW q \in Seq(S), q # << >>, IsOnceEach(q)
  PROVE  /\ Head(q) \in ToSet(q)
         /\ ToSet(Tail(q)) = ToSet(q) \ {Head(q)}
         /\ IsOnceEach(Tail(q))
<1>1. /\ Len(Tail(q)) = Len(q) - 1 /\ Tail(q) \in Seq(S)
      /\ \A i \in 1..Len(Tail(q)) : Tail(q)[i] = q[i + 1]
      /\ Len(q) \in Nat \ {0} /\ DOMAIN q = 1..Len(q)
  BY HeadTailProperties, LenProperties, EmptySeq
<1>2. DOMAIN Tail(q) = 1..(Len(q) - 1)
  BY <1>1, LenProperties
<1>3. Head(q) = q[1]
  BY <1>1
<1>4. Head(q) \in ToSet(q)
  BY <1>1, <1>3 DEF ToSet
<1>5. \A x \in ToSet(Tail(q)) : x \in ToSet(q) \ {Head(q)}
  BY <1>1, <1>2, <1>3 DEF ToSet, IsOnceEach
<1>6. \A x \in ToSet(q) \ {Head(q)} : x \in ToSet(Tail(q))
  <2> SUFFICES ASSUME NEW x \in ToSet(q) \ {Head(q)}
               PROVE  x \in ToSet(Tail(q))
    OBVIOUS
  <2>1. PICK i \in 1..Len(q) : x = q[i]
    BY <1>1 DEF ToSet
  <2>2. i # 1
    BY <2>1, <1>3
  <2>3. i - 1 \in DOMAIN Tail(q) /\ Tail(q)[i - 1] = x
    <3>1. i - 1 \in 1..Len(Tail(q)) /\ (i - 1) + 1 = i
      BY <2>2, <1>1
    <3> QED
      BY <3>1, <1>1, <1>2, <2>1
  <2> QED
    BY <2>3 DEF ToSet
<1>7. IsOnceEach(Tail(q))
  BY <1>1 DEF IsOnceEach
<1> QED
  BY <1>4, <1>5, <1>6, <1>7

(* The clients of two queues together.                                     *)
LEMMA SetOfConcat ==
  ASSUME NEW S, NEW p \in Seq(S), NEW q \in Seq(S)
  PROVE  ToSet(p \o q) = ToSet(p) \cup ToSet(q)
<1>1. /\ p \o q \in Seq(S) /\ Len(p \o q) = Len(p) + Len(q)
      /\ \A i \in 1..(Len(p) + Len(q)) :
           (p \o q)[i] = IF i <= Len(p) THEN p[i] ELSE q[i - Len(p)]
      /\ Len(p) \in Nat /\ DOMAIN p = 1..Len(p)
      /\ Len(q) \in Nat /\ DOMAIN q = 1..Len(q)
  BY ConcatProperties, LenProperties
<1>2. DOMAIN (p \o q) = 1..(Len(p) + Len(q))
  BY <1>1, LenProperties
<1>3. ASSUME NEW x \in ToSet(p \o q)
      PROVE  x \in ToSet(p) \cup ToSet(q)
  <2>1. PICK i \in 1..(Len(p) + Len(q)) : x = (p \o q)[i]
    BY <1>2 DEF ToSet
  <2>2. CASE i <= Len(p)
    BY <2>1, <2>2, <1>1 DEF ToSet
  <2>3. CASE ~(i <= Len(p))
    <3>1. i - Len(p) \in 1..Len(q) /\ x = q[i - Len(p)]
      BY <2>1, <2>3, <1>1
    <3> QED
      BY <3>1, <1>1 DEF ToSet
  <2> QED
    BY <2>2, <2>3
<1>4. ASSUME NEW x \in ToSet(p)
      PROVE  x \in ToSet(p \o q)
  BY <1>1, <1>2 DEF ToSet
<1>5. ASSUME NEW x \in ToSet(q)
      PROVE  x \in ToSet(p \o q)
  <2>1. PICK j \in 1..Len(q) : x = q[j]
    BY <1>1 DEF ToSet
  <2>2. /\ Len(p) + j \in 1..(Len(p) + Len(q)) /\ ~(Len(p) + j <= Len(p))
        /\ (Len(p) + j) - Len(p) = j
    BY <1>1
  <2>3. (p \o q)[Len(p) + j] = x
    BY <2>1, <2>2, <1>1
  <2> QED
    BY <2>2, <2>3, <1>2 DEF ToSet
<1> QED
  BY <1>3, <1>4, <1>5

(* An empty queue.                                                         *)
LEMMA SetOfNothing == ToSet(<< >>) = {} /\ IsOnceEach(<< >>)
BY DEF ToSet, IsOnceEach

(* A queue of one client.                                                  *)
LEMMA SetOfOne ==
  ASSUME NEW e
  PROVE  ToSet(<<e>>) = {e}
BY DEF ToSet

(* The elements of a queue are typed as the queue is.                      *)
LEMMA SetInSeq ==
  ASSUME NEW S, NEW q \in Seq(S)
  PROVE  ToSet(q) \subseteq S
BY LenProperties DEF ToSet

-----------------------------------------------------------------------------
(* The values of metrics.                                                  *)
Counters == [accepted : Nat, active : Nat, rejected : Nat, connectFailures : Nat,
             opened : Nat, dropped : Nat]

(* TypeOK, but for what only the other layers show: that the counters stay *)
(* natural numbers and that each event is of an open socket.               *)
Shape ==
  /\ mainPc \in {"accept", "enqueue", "signal", "stop", "join", "joined"}
  /\ held \in Seq(Entry)
  /\ arriving \subseteq Clients
  /\ fdTable \in [Fds -> Conn \cup {None}]
  /\ running \in BOOLEAN /\ wake \in BOOLEAN
  /\ queue \in Seq(Entry) /\ Len(queue) <= QueueLimit
  /\ local \in Seq(Entry) /\ Len(local) <= QueueLimit
  /\ workerPc \in {"top", "wait", "dispatch", "swap", "drain", "create", "connect", "register", "publish",
                   "discard", "release", "exitSwap", "exitDrain", "exitRelease", "exited"}
  /\ batch \subseteq (Fds \X (Conn \cup {None})) \cup {WakeEvent}
  /\ interest \subseteq Fds
  /\ sessions \subseteq Session /\ IsFiniteSet(sessions)
  /\ detached \subseteq Session /\ IsFiniteSet(detached)
  /\ fdToSession \in [Fds -> Clients \cup {None}]
  /\ closing \subseteq Clients /\ leases \subseteq Clients
  /\ metrics \in Counters

(* Where each thread is and what it then holds: main has a client in hand  *)
(* exactly before enqueue(), the drained queue is empty outside            *)
(* drainQueue(), a batch is worked off before the loop goes round,         *)
(* createSession() has built one session when it registers its sockets,    *)
(* local references to sessions are dropped before the thread goes on, and *)
(* a worker on its way out has been stopped, its queue emptied and its     *)
(* sessions closed before its thread ends.                                 *)
Control ==
  /\ Len(held) = (IF mainPc = "enqueue" THEN 1 ELSE 0)
  /\ running <=> mainPc \notin {"stop", "join", "joined"}
  /\ local # << >> => workerPc \in {"drain", "create", "connect", "register", "publish", "discard",
                                    "exitDrain"}
  /\ workerPc \in {"create", "connect"} => local # << >>
  /\ workerPc \in {"register", "publish"} => Len(local) < QueueLimit /\ \E s \in Session : detached = {s}
  /\ batch # {} => workerPc \in {"dispatch", "swap", "drain", "create", "connect", "register", "publish",
                                 "discard"}
  /\ detached # {} => workerPc \in {"register", "publish", "discard", "release", "exitRelease"}
  /\ workerPc \in {"exitSwap", "exitDrain", "exitRelease", "exited"} => ~running
  /\ workerPc \in {"exitDrain", "exitRelease", "exited"} => queue = << >>
  /\ workerPc \in {"exitRelease", "exited"} => sessions = {}

(* Stronger than NoLostWakeup, as the worker need not be waiting yet: a    *)
(* queued client has its eventfd write done or to come, or the swap to     *)
(* come.                                                                   *)
Wakeups ==
  /\ queue # << >> => wake \/ mainPc = "signal" \/ workerPc \in {"swap", "exitSwap"}
  /\ workerPc = "wait" /\ ~running => wake \/ mainPc = "stop"

(* The first layer.                                                        *)
ControlInv == Shape /\ Control /\ Wakeups

(* What Metrics::onAccepted() changes, field by field.                     *)
LEMMA CountsAccepted ==
  ASSUME metrics \in Counters
  PROVE  /\ onAccepted \in Counters
         /\ onAccepted.accepted = metrics.accepted + 1
         /\ onAccepted.active = metrics.active
         /\ onAccepted.rejected = metrics.rejected
         /\ onAccepted.connectFailures = metrics.connectFailures
         /\ onAccepted.opened = metrics.opened
         /\ onAccepted.dropped = metrics.dropped
<1>1. onAccepted \in Counters
  BY DEF Counters, onAccepted
<1> QED
  BY <1>1 DEF Counters, onAccepted

(* What Metrics::onOpened() changes.                                       *)
LEMMA CountsOpened ==
  ASSUME metrics \in Counters
  PROVE  /\ onOpened \in Counters
         /\ onOpened.accepted = metrics.accepted
         /\ onOpened.active = metrics.active + 1
         /\ onOpened.rejected = metrics.rejected
         /\ onOpened.connectFailures = metrics.connectFailures
         /\ onOpened.opened = metrics.opened + 1
         /\ onOpened.dropped = metrics.dropped
<1> DEFINE more == [metrics EXCEPT !.active = @ + 1]
<1>1. more \in Counters
  BY DEF Counters
<1>2. /\ more.accepted = metrics.accepted /\ more.active = metrics.active + 1
      /\ more.rejected = metrics.rejected /\ more.connectFailures = metrics.connectFailures
      /\ more.opened = metrics.opened /\ more.dropped = metrics.dropped
  BY <1>1 DEF Counters
<1>3. onOpened = [more EXCEPT !.opened = metrics.opened + 1]
  BY DEF onOpened
<1> HIDE DEF more
<1>4. onOpened \in Counters
  BY <1>1, <1>2, <1>3 DEF Counters
<1> QED
  BY <1>1, <1>2, <1>3, <1>4 DEF Counters

(* What Metrics::onRejected() changes.                                     *)
LEMMA CountsRejected ==
  ASSUME metrics \in Counters
  PROVE  /\ onRejected \in Counters
         /\ onRejected.accepted = metrics.accepted
         /\ onRejected.active = metrics.active
         /\ onRejected.rejected = metrics.rejected + 1
         /\ onRejected.connectFailures = metrics.connectFailures
         /\ onRejected.opened = metrics.opened
         /\ onRejected.dropped = metrics.dropped
<1>1. onRejected \in Counters
  BY DEF Counters, onRejected
<1> QED
  BY <1>1 DEF Counters, onRejected

(* What a failed connect() changes.                                        *)
LEMMA CountsConnectFailure ==
  ASSUME metrics \in Counters
  PROVE  /\ onConnectFailure \in Counters
         /\ onConnectFailure.accepted = metrics.accepted
         /\ onConnectFailure.active = metrics.active
         /\ onConnectFailure.rejected = metrics.rejected + 1
         /\ onConnectFailure.connectFailures = metrics.connectFailures + 1
         /\ onConnectFailure.opened = metrics.opened
         /\ onConnectFailure.dropped = metrics.dropped
<1> DEFINE more == [metrics EXCEPT !.connectFailures = @ + 1]
<1>1. more \in Counters
  BY DEF Counters
<1>2. /\ more.accepted = metrics.accepted /\ more.active = metrics.active
      /\ more.rejected = metrics.rejected /\ more.connectFailures = metrics.connectFailures + 1
      /\ more.opened = metrics.opened /\ more.dropped = metrics.dropped
  BY <1>1 DEF Counters
<1>3. onConnectFailure = [more EXCEPT !.rejected = metrics.rejected + 1]
  BY DEF onConnectFailure
<1> HIDE DEF more
<1>4. onConnectFailure \in Counters
  BY <1>1, <1>2, <1>3 DEF Counters
<1> QED
  BY <1>1, <1>2, <1>3, <1>4 DEF Counters

(* What a client closed at stop changes.                                   *)
LEMMA CountsDropped ==
  ASSUME metrics \in Counters
  PROVE  /\ onDropped \in Counters
         /\ onDropped.accepted = metrics.accepted
         /\ onDropped.active = metrics.active
         /\ onDropped.rejected = metrics.rejected
         /\ onDropped.connectFailures = metrics.connectFailures
         /\ onDropped.opened = metrics.opened
         /\ onDropped.dropped = metrics.dropped + 1
<1>1. onDropped \in Counters
  BY DEF Counters, onDropped
<1> QED
  BY <1>1 DEF Counters, onDropped

(* What n calls of Metrics::onClosed() change.                             *)
LEMMA CountsClosed ==
  ASSUME metrics \in Counters, NEW n \in Nat
  PROVE  /\ onClosed(n) \in Counters
         /\ onClosed(n).accepted = metrics.accepted
         /\ onClosed(n).active = IF metrics.active >= n THEN metrics.active - n ELSE 0
         /\ onClosed(n).rejected = metrics.rejected
         /\ onClosed(n).connectFailures = metrics.connectFailures
         /\ onClosed(n).opened = metrics.opened
         /\ onClosed(n).dropped = metrics.dropped
<1>1. onClosed(n) \in Counters
  BY DEF Counters, onClosed
<1> QED
  BY <1>1 DEF Counters, onClosed

USE WorkerAssumption

(* Before enqueue() main holds one client.                                 *)
LEMMA HeldEntry ==
  ASSUME Shape, Control, mainPc = "enqueue"
  PROVE  held[1] \in Entry /\ held = <<held[1]>> /\ ToSet(held) = {held[1]}
<1>1. Len(held) = 1 /\ held \in Seq(Entry)
  BY DEF Shape, Control
<1>2. held[1] \in Entry
  BY <1>1, ElementOfSeq
<1>3. held = <<held[1]>>
  BY <1>1, <1>2, SeqEqual
<1> QED
  BY <1>1, <1>2, <1>3, LenProperties DEF ToSet

(* Elsewhere it holds none.                                                *)
LEMMA HeldNothing ==
  ASSUME Shape, Control, mainPc # "enqueue"
  PROVE  held = << >>
BY EmptySeq DEF Shape, Control

(* Closing descriptors leaves a table a table.                             *)
LEMMA ClosedTyped ==
  ASSUME NEW T, NEW table \in [Fds -> T \cup {None}], NEW fds
  PROVE  Closed(table, fds) \in [Fds -> T \cup {None}]
BY DEF Closed

(* The client drainQueue() takes next, and the rest.                       *)
LEMMA HeadOfLocal ==
  ASSUME Shape, local # << >>
  PROVE  /\ Head(local) \in Entry /\ Head(local).fd \in Fds /\ Head(local).client \in Clients
         /\ Tail(local) \in Seq(Entry) /\ Len(Tail(local)) <= QueueLimit
<1>1. /\ Head(local) \in Entry /\ Tail(local) \in Seq(Entry)
      /\ Len(Tail(local)) = Len(local) - 1 /\ Len(local) \in Nat
  BY HeadTailProperties, LenProperties DEF Shape
<1> QED
  BY <1>1 DEF Shape, Entry

(* The first layer holds initially.                                        *)
LEMMA ShapeInit == Init => ControlInv
<1> SUFFICES ASSUME Init PROVE ControlInv
  OBVIOUS
<1>1. IsFiniteSet({})
  BY FS_EmptySet
<1>2. << >> \in Seq(Entry) /\ Len(<< >>) = 0
  BY EmptySeq
<1>3. Shape
  <2>1. metrics \in Counters
    BY DEF Init, Counters
  <2>2. fdTable \in [Fds -> Conn \cup {None}] /\ fdToSession \in [Fds -> Clients \cup {None}]
    BY DEF Init
  <2>3. Len(<< >>) <= QueueLimit
    BY <1>2
  <2>4. /\ held \in Seq(Entry) /\ queue \in Seq(Entry) /\ Len(queue) <= QueueLimit
        /\ local \in Seq(Entry) /\ Len(local) <= QueueLimit
    BY <1>2, <2>3 DEF Init
  <2>5. /\ sessions \subseteq Session /\ IsFiniteSet(sessions) /\ batch = {} /\ closing \subseteq Clients
        /\ detached \subseteq Session /\ IsFiniteSet(detached) /\ interest \subseteq Fds
        /\ leases \subseteq Clients
    BY <1>1 DEF Init
  <2> QED
    BY <2>1, <2>2, <2>4, <2>5 DEF Init, Shape
<1> QED
  BY <1>2, <1>3 DEF Init, ControlInv, Control, Wakeups

(* The main thread keeps the types.                                        *)
LEMMA ShapeMain ==
  ASSUME Shape, Control, Main
  PROVE  Shape'
<1>1. ASSUME NEW c \in Clients, NEW fd \in Fds, Accept(c, fd)
      PROVE  Shape'
  <2>1. <<[fd |-> fd, client |-> c]>> \in Seq(Entry)
    BY DEF Entry
  <2>2. <<c, "client">> \in Conn
    BY DEF Conn
  <2> QED
    BY <1>1, <2>1, <2>2, CountsAccepted DEF Accept, Shape, workerVars, published
<1>2. ASSUME RejectHeld, mainPc = "enqueue"
      PROVE  Shape'
  <2>1. << >> \in Seq(Entry)
    BY EmptySeq
  <2> QED
    BY <1>2, <2>1, ClosedTyped, CountsRejected DEF RejectHeld, Shape, workerVars, published
<1>3. CASE EnqueuePush
  <2>1. /\ Append(queue, held[1]) \in Seq(Entry)
        /\ Len(Append(queue, held[1])) = Len(queue) + 1 /\ Len(queue) \in Nat
    BY <1>3, HeldEntry, AppendProperties, LenProperties DEF EnqueuePush, Shape
  <2>2. Len(Append(queue, held[1])) <= QueueLimit
    BY <1>3, <2>1 DEF EnqueuePush, HasRoom
  <2>3. << >> \in Seq(Entry)
    BY EmptySeq
  <2> QED
    BY <1>3, <2>1, <2>2, <2>3 DEF EnqueuePush, Shape, workerVars, published
<1>4. CASE EnqueueSignal \/ StopFlag \/ StopSignal \/ Join
  BY <1>4 DEF EnqueueSignal, StopFlag, StopSignal, Join, Shape, workerVars, published
<1> QED
  BY <1>1, <1>2, <1>3, <1>4 DEF Main, ConfigureFails, EnqueueRefused

(* closeSession() keeps the types.                                         *)
LEMMA ShapeClose ==
  ASSUME Shape, NEW gone \in SUBSET sessions, CloseSessions(gone)
  PROVE  /\ sessions' \subseteq Session /\ IsFiniteSet(sessions')
         /\ detached' \subseteq Session /\ IsFiniteSet(detached')
         /\ interest' \subseteq Fds
         /\ fdToSession' \in [Fds -> Clients \cup {None}]
         /\ closing' \subseteq Clients
         /\ metrics' \in Counters
<1>1. /\ IsFiniteSet(gone) /\ IsFiniteSet(sessions \ gone) /\ Cardinality(gone) \in Nat
      /\ IsFiniteSet(detached \cup gone)
  BY FS_Subset, FS_Union, FS_CardinalityType DEF Shape
<1>2. metrics' \in Counters
  BY <1>1, CountsClosed DEF CloseSessions, Shape
<1> QED
  BY <1>1, <1>2, ClosedTyped DEF CloseSessions, Shape

(* createSession() keeps the types.                                        *)
LEMMA ShapeCreate ==
  ASSUME Shape, Control,
         \/ AcquireFails \/ AcquireLease \/ ConnectFails
         \/ \E fd \in Fds : ConnectStarts(fd)
         \/ \E session \in detached : \/ RegisterClient(session) \/ RegisterFails(session)
                                      \/ PublishSession(session)
  PROVE  Shape'
<1>1. CASE AcquireFails \/ ConnectFails
  <2>1. local # << >>
    BY <1>1 DEF AcquireFails, ConnectFails, Control
  <2>2. fdTable' = Closed(fdTable, {Head(local).fd}) /\ fdTable \in [Fds -> Conn \cup {None}]
    BY <1>1 DEF AcquireFails, ConnectFails, CloseClient, Shape
  <2>3. fdTable' \in [Fds -> Conn \cup {None}]
    BY <2>2, ClosedTyped
  <2>4. metrics' \in Counters
    BY <1>1, CountsRejected, CountsConnectFailure DEF AcquireFails, ConnectFails, Shape
  <2>5. leases' \subseteq Clients
    BY <1>1 DEF AcquireFails, ConnectFails, Shape
  <2> QED
    BY <1>1, <2>1, <2>3, <2>4, <2>5, HeadOfLocal
    DEF AcquireFails, ConnectFails, CloseClient, Shape, mainVars, published
<1>2. CASE AcquireLease
  <2>1. Head(local).client \in Clients
    BY <1>2, HeadOfLocal DEF AcquireLease, Control
  <2> QED
    BY <1>2, <2>1 DEF AcquireLease, Shape, mainVars, published
<1>3. ASSUME NEW fd \in Fds, ConnectStarts(fd)
      PROVE  Shape'
  <2>1. local # << >>
    BY <1>3 DEF ConnectStarts, Control
  <2> DEFINE new == [id |-> Head(local).client, clientFd |-> Head(local).fd, upstreamFd |-> fd]
  <2>2. new \in Session
    BY <2>1, HeadOfLocal DEF Session
  <2>3. IsFiniteSet({new})
    BY FS_Singleton
  <2>4. <<Head(local).client, "upstream">> \in Conn
    BY <2>1, HeadOfLocal DEF Conn
  <2>5. detached' = {new}
    BY <1>3 DEF ConnectStarts
  <2>6. fdTable' \in [Fds -> Conn \cup {None}]
    BY <1>3, <2>4 DEF ConnectStarts, Shape
  <2> HIDE DEF new
  <2> QED
    BY <1>3, <2>1, <2>2, <2>3, <2>5, <2>6, HeadOfLocal DEF ConnectStarts, Shape, mainVars, published
<1>4. ASSUME NEW s \in detached, RegisterClient(s) \/ RegisterFails(s)
      PROVE  Shape'
  <2>1. s.clientFd \in Fds
    BY DEF Shape, Session
  <2>2. metrics' \in Counters
    BY <1>4, CountsRejected DEF RegisterClient, RegisterFails, Shape
  <2> QED
    BY <1>4, <2>1, <2>2 DEF RegisterClient, RegisterFails, Shape, mainVars, published
<1>5. ASSUME NEW s \in detached, PublishSession(s)
      PROVE  Shape'
  <2>1. s \in Session /\ s.id \in Clients /\ s.clientFd \in Fds /\ s.upstreamFd \in Fds
    BY DEF Shape, Session
  <2>2. IsFiniteSet(sessions \cup {s}) /\ IsFiniteSet({})
    BY FS_AddElement, FS_EmptySet DEF Shape
  <2>3. fdToSession' \in [Fds -> Clients \cup {None}]
    BY <1>5, <2>1 DEF PublishSession, Shape
  <2>4. metrics' \in Counters
    BY <1>5, CountsOpened DEF PublishSession, Shape
  <2> QED
    BY <1>5, <2>1, <2>2, <2>3, <2>4 DEF PublishSession, Shape, mainVars
<1> QED
  BY <1>1, <1>2, <1>3, <1>4, <1>5

(* The worker thread keeps the types.                                      *)
LEMMA ShapeWorker ==
  ASSUME Shape, Control, WorkerStep
  PROVE  Shape'
<1>1. CASE CheckRunning \/ DispatchWake \/ TakeUp \/ FinishDrain
  BY <1>1 DEF CheckRunning, DispatchWake, TakeUp, FinishDrain, Shape, mainVars, published
<1>2. ASSUME NEW ready \in SUBSET Fds, EpollWait(ready)
      PROVE  Shape'
  <2>1. ASSUME NEW fd \in ready
        PROVE  <<fd, fdTable[fd]>> \in Fds \X (Conn \cup {None})
    BY <1>2, <2>1 DEF Shape
  <2> QED
    BY <1>2, <2>1 DEF EpollWait, Shape, mainVars, published
<1>3. ASSUME NEW e \in batch, NEW alive \in BOOLEAN, DispatchSocket(e, alive)
      PROVE  Shape'
  BY <1>3 DEF DispatchSocket, RunHandler, Shape, mainVars, published
<1>4. ASSUME NEW exiting \in BOOLEAN, SwapQueue(exiting)
      PROVE  Shape'
  <2>1. << >> \in Seq(Entry) /\ Len(<< >>) = 0
    BY EmptySeq
  <2> QED
    BY <1>4, <2>1 DEF SwapQueue, Shape, mainVars, published
<1>5. CASE DropStopped
  <2>1. local # << >>
    BY <1>5 DEF DropStopped, Draining
  <2>2. fdTable' = Closed(fdTable, {Head(local).fd}) /\ fdTable \in [Fds -> Conn \cup {None}]
    BY <1>5 DEF DropStopped, Shape
  <2>3. fdTable' \in [Fds -> Conn \cup {None}]
    BY <2>2, ClosedTyped
  <2>4. metrics' \in Counters
    BY <1>5, CountsDropped DEF DropStopped, Shape
  <2> QED
    BY <1>5, <2>1, <2>4, <2>3, HeadOfLocal DEF DropStopped, Shape, mainVars, published
<1>6. CASE \/ AcquireFails \/ AcquireLease \/ ConnectFails
           \/ \E fd \in Fds : ConnectStarts(fd)
           \/ \E session \in detached : \/ RegisterClient(session) \/ RegisterFails(session)
                                        \/ PublishSession(session)
  BY <1>6, ShapeCreate
<1>7. ASSUME NEW expired \in SUBSET sessions, EndBatch(expired)
      PROVE  Shape'
  <2> DEFINE gone == {s \in sessions : s.id \in closing} \cup expired
  <2>1. gone \in SUBSET sessions /\ CloseSessions(gone)
    BY <1>7 DEF EndBatch
  <2> HIDE DEF gone
  <2> QED
    BY <1>7, <2>1, ShapeClose DEF EndBatch, Shape, mainVars
<1>8. CASE Exit
  <2>1. CloseSessions(sessions)
    BY <1>8 DEF Exit, Remaining
  <2> QED
    BY <1>8, <2>1, ShapeClose DEF Exit, Shape, mainVars
<1>9. ASSUME NEW s \in detached, Destroy(s)
      PROVE  Shape'
  <2>1. fdTable' \in [Fds -> Conn \cup {None}]
    BY <1>9, ClosedTyped DEF Destroy, Shape
  <2>2. IsFiniteSet(detached \ {s})
    BY FS_RemoveElement DEF Shape
  <2> QED
    BY <1>9, <2>1, <2>2 DEF Destroy, Shape, mainVars, published
<1>10. CASE Released
  BY <1>10 DEF Released, Releasing, Shape, mainVars, published
<1> QED
  BY <1>1, <1>2, <1>3, <1>4, <1>5, <1>6, <1>7, <1>8, <1>9, <1>10 DEF WorkerStep

(* The main thread keeps the control invariant and loses no wakeup: it     *)
(* writes the eventfd after every push and after the stop flag.            *)
LEMMA ControlMain ==
  ASSUME ControlInv, Main
  PROVE  Control' /\ Wakeups'
<1> USE DEF ControlInv
<1>1. held \in Seq(Entry) /\ Len(<< >>) = 0 /\ Len(held) \in Nat
  BY EmptySeq, LenProperties DEF Shape
<1>2. ASSUME NEW c \in Clients, NEW fd \in Fds, Accept(c, fd)
      PROVE  Control' /\ Wakeups'
  <2>1. Len(<<[fd |-> fd, client |-> c]>>) = 1
    OBVIOUS
  <2> QED
    BY <1>2, <2>1 DEF Accept, Control, Wakeups, workerVars, published
<1>3. ASSUME RejectHeld, mainPc = "enqueue"
      PROVE  Control' /\ Wakeups'
  BY <1>1, <1>3 DEF RejectHeld, Control, Wakeups, workerVars, published
<1>4. CASE EnqueuePush
  BY <1>1, <1>4 DEF EnqueuePush, Control, Wakeups, workerVars, published
<1>5. CASE EnqueueSignal \/ StopFlag \/ StopSignal \/ Join
  BY <1>5 DEF EnqueueSignal, StopFlag, StopSignal, Join, Control, Wakeups, workerVars, published
<1> QED
  BY <1>2, <1>3, <1>4, <1>5 DEF Main, ConfigureFails, EnqueueRefused

(* The worker loses no wakeup: it reads the eventfd down before it swaps   *)
(* the queue, and blocks only after it has seen running_.                  *)
LEMMA ControlWorker ==
  ASSUME ControlInv, WorkerStep
  PROVE  Control' /\ Wakeups'
<1> USE DEF ControlInv
<1>1. running' = running /\ mainPc' = mainPc /\ held' = held
  BY DEF WorkerStep, CheckRunning, EpollWait, DispatchWake, DispatchSocket, SwapQueue, DropStopped,
         TakeUp, AcquireFails, AcquireLease, ConnectFails, CloseClient, ConnectStarts, RegisterClient,
         RegisterFails, PublishSession, Destroy, Released, FinishDrain, EndBatch, Exit, mainVars
<1>2. CASE CheckRunning \/ DispatchWake \/ TakeUp \/ FinishDrain
  BY <1>1, <1>2 DEF CheckRunning, LoopGoesOn, DispatchWake, TakeUp, FinishDrain, Control, Wakeups, published
<1>3. ASSUME NEW ready \in SUBSET Fds, EpollWait(ready)
      PROVE  Control' /\ Wakeups'
  BY <1>1, <1>3 DEF EpollWait, Control, Wakeups, published
<1>4. ASSUME NEW e \in batch, NEW alive \in BOOLEAN, DispatchSocket(e, alive)
      PROVE  Control' /\ Wakeups'
  BY <1>1, <1>4 DEF DispatchSocket, RunHandler, Control, Wakeups, published
<1>5. ASSUME NEW exiting \in BOOLEAN, SwapQueue(exiting)
      PROVE  Control' /\ Wakeups'
  BY <1>1, <1>5 DEF SwapQueue, Control, Wakeups, published
<1>6. CASE DropStopped
  BY <1>1, <1>6 DEF DropStopped, Draining, Control, Wakeups, published
<1>7. CASE AcquireFails \/ ConnectFails \/ AcquireLease
  BY <1>1, <1>7 DEF AcquireFails, ConnectFails, CloseClient, AcquireLease, Control, Wakeups, published
<1>8. ASSUME NEW fd \in Fds, ConnectStarts(fd)
      PROVE  Control' /\ Wakeups'
  <2>1. local # << >>
    BY <1>8 DEF ConnectStarts, Control
  <2> DEFINE new == [id |-> Head(local).client, clientFd |-> Head(local).fd, upstreamFd |-> fd]
  <2>2. new \in Session
    BY <2>1, HeadOfLocal DEF Session
  <2>3. Len(local') < QueueLimit
    <3>1. Len(Tail(local)) = Len(local) - 1 /\ Len(local) \in Nat /\ Len(local) <= QueueLimit
      BY <2>1, HeadTailProperties, LenProperties DEF Shape
    <3> QED
      BY <1>8, <3>1 DEF ConnectStarts
  <2>4. detached' = {new}
    BY <1>8 DEF ConnectStarts
  <2> HIDE DEF new
  <2> QED
    BY <1>1, <1>8, <2>2, <2>3, <2>4 DEF ConnectStarts, Control, Wakeups, published
<1>9. ASSUME NEW s \in detached, RegisterClient(s) \/ RegisterFails(s) \/ PublishSession(s)
      PROVE  Control' /\ Wakeups'
  BY <1>1, <1>9 DEF RegisterClient, RegisterFails, PublishSession, Control, Wakeups, published
<1>10. ASSUME NEW expired \in SUBSET sessions, EndBatch(expired)
       PROVE  Control' /\ Wakeups'
  BY <1>1, <1>10 DEF EndBatch, Control, Wakeups
<1>11. CASE Exit
  BY <1>1, <1>11 DEF Exit, Remaining, CloseSessions, Control, Wakeups
<1>12. ASSUME NEW s \in detached, Destroy(s)
       PROVE  Control' /\ Wakeups'
  BY <1>1, <1>12 DEF Destroy, Releasing, Control, Wakeups, published
<1>13. CASE Released
  BY <1>1, <1>13 DEF Released, Releasing, Control, Wakeups, published
<1> QED
  BY <1>2, <1>3, <1>4, <1>5, <1>6, <1>7, <1>8, <1>9, <1>10, <1>11, <1>12, <1>13 DEF WorkerStep

(* The first layer is inductive.                                           *)
LEMMA ControlNext ==
  ASSUME ControlInv, [Next]_vars
  PROVE  ControlInv'
<1>1. CASE Main
  BY <1>1, ShapeMain, ControlMain DEF ControlInv
<1>2. CASE WorkerStep
  BY <1>2, ShapeWorker, ControlWorker DEF ControlInv
<1>3. CASE UNCHANGED vars
  BY <1>3 DEF ControlInv, Shape, Control, Wakeups, vars
<1> QED
  BY <1>1, <1>2, <1>3 DEF Next, Joined

-----------------------------------------------------------------------------
(* The clients accepted and not taken up yet.                              *)
Waiting == ToSet(held) \cup ToSet(queue) \cup ToSet(local)

(* A waiting client is in one place, once.                                 *)
Apart ==
  /\ IsOnceEach(queue) /\ IsOnceEach(local)
  /\ ToSet(held) \cap ToSet(queue) = {}
  /\ ToSet(held) \cap ToSet(local) = {}
  /\ ToSet(queue) \cap ToSet(local) = {}

(* Who owns what: each owner's descriptors refer to what it believes, no   *)
(* waiting client has a session object yet, each open descriptor has an    *)
(* owner, no connection is open under two numbers, and a client that has   *)
(* not arrived has no descriptor.                                          *)
Ledger ==
  /\ \A x \in Waiting : fdTable[x.fd] = <<x.client, "client">>
  /\ \A s \in Objects : /\ fdTable[s.clientFd] = <<s.id, "client">>
                        /\ fdTable[s.upstreamFd] = <<s.id, "upstream">>
  /\ \A x \in Waiting, s \in Objects : x.fd # s.clientFd
  /\ \A fd \in Fds : fdTable[fd] # None => \/ \E x \in Waiting : x.fd = fd
                                           \/ \E s \in Objects : fd = s.clientFd \/ fd = s.upstreamFd
  /\ \A fd, other \in Fds : fdTable[fd] = fdTable[other] /\ fdTable[fd] # None => fd = other
  /\ \A fd \in Fds, c \in arriving : fdTable[fd] # <<c, "client">> /\ fdTable[fd] # <<c, "upstream">>

(* A session object is published or not, never both.                       *)
Split == sessions \cap detached = {}

(* What fdToSession_ and sessions_ say of each other.                      *)
IndexSound ==
  \A fd \in Fds, c \in Clients :
    fdToSession[fd] = c <=> \E s \in sessions : s.id = c /\ fd \in {s.clientFd, s.upstreamFd}

(* What is registered with epoll: the indexed sockets, and in the middle   *)
(* of createSession() the client's.                                        *)
Watched ==
  interest = {fd \in Fds : fdToSession[fd] # None}
               \cup (IF workerPc = "publish" THEN {s.clientFd : s \in detached} ELSE {})

(* EventsKeepTheirSocket, and the socket of an event is open.              *)
Pending ==
  \A e \in batch \ {WakeEvent} :
    e[2] = fdTable[e[1]] /\ fdToSession[e[1]] = e[2][1] /\ e[2] # None

(* The types of a waiting client's fields.                                 *)
LEMMA WaitingTyped ==
  ASSUME Shape
  PROVE  /\ Waiting \subseteq Entry
         /\ \A x \in Waiting : x.fd \in Fds /\ x.client \in Clients
<1>1. Waiting \subseteq Entry
  BY SetInSeq DEF Shape, Waiting
<1> QED
  BY <1>1 DEF Entry

(* The types of a session's fields.                                        *)
LEMMA SessionTyped ==
  ASSUME Shape, NEW s \in Objects
  PROVE  s.id \in Clients /\ s.clientFd \in Fds /\ s.upstreamFd \in Fds
BY DEF Shape, Session, Objects

(* A connection is not a free place of the table, and a client's           *)
(* connection is not an upstream one.                                      *)
LEMMA ConnOpen ==
  ASSUME NEW c \in Clients
  PROVE  /\ <<c, "client">> # None /\ <<c, "upstream">> # None
         /\ \A d : <<c, "client">> # <<d, "upstream">>
<1>1. <<c, "client">> \in Conn /\ <<c, "upstream">> \in Conn
  BY DEF Conn
<1>2. \A d : <<c, "client">> # <<d, "upstream">>
  OBVIOUS
<1> QED
  BY <1>1, <1>2

(* Waiting clients have different descriptors.                             *)
LEMMA SameFd ==
  ASSUME Shape, Ledger, NEW x \in Waiting, NEW y \in Waiting, x.fd = y.fd
  PROVE  x = y
<1>1. x \in Entry /\ y \in Entry
  BY WaitingTyped
<1>2. <<x.client, "client">> = <<y.client, "client">>
  BY DEF Ledger
<1>3. x.client = y.client
  BY <1>2
<1> QED
  BY <1>1, <1>3 DEF Entry

(* Waiting entries are of different clients.                               *)
LEMMA SameClient ==
  ASSUME Shape, Ledger, NEW x \in Waiting, NEW y \in Waiting, x.client = y.client
  PROVE  x = y
<1>1. x.fd \in Fds /\ y.fd \in Fds /\ x.client \in Clients
  BY WaitingTyped
<1>2. fdTable[x.fd] = fdTable[y.fd] /\ fdTable[x.fd] # None
  BY <1>1, ConnOpen DEF Ledger
<1>3. x.fd = y.fd
  BY <1>1, <1>2 DEF Ledger
<1> QED
  BY <1>3, SameFd

(* Two sessions share neither their id nor a socket.                       *)
LEMMA SameSession ==
  ASSUME Shape, Ledger, NEW s \in Objects, NEW t \in Objects,
         \/ s.id = t.id
         \/ s.clientFd = t.clientFd
         \/ s.upstreamFd = t.upstreamFd
  PROVE  s = t
<1>1. s \in Session /\ t \in Session
  BY DEF Shape, Objects
<1>2. /\ fdTable[s.clientFd] = <<s.id, "client">> /\ fdTable[t.clientFd] = <<t.id, "client">>
      /\ fdTable[s.upstreamFd] = <<s.id, "upstream">> /\ fdTable[t.upstreamFd] = <<t.id, "upstream">>
  BY DEF Ledger
<1>3. s.id = t.id
  BY <1>2
<1>4. /\ fdTable[s.clientFd] = fdTable[t.clientFd] /\ fdTable[s.clientFd] # None
      /\ fdTable[s.upstreamFd] = fdTable[t.upstreamFd] /\ fdTable[s.upstreamFd] # None
  BY <1>2, <1>3, ConnOpen, SessionTyped
<1>5. s.clientFd = t.clientFd /\ s.upstreamFd = t.upstreamFd
  BY <1>4, SessionTyped DEF Ledger
<1> QED
  BY <1>1, <1>3, <1>5 DEF Session

(* No descriptor is one session's client socket and another's upstream     *)
(* one, or a session's and a waiting client's; no client both waits and    *)
(* has a session.                                                          *)
LEMMA SocketsApart ==
  ASSUME Shape, Ledger
  PROVE  /\ \A s, t \in Objects : s.clientFd # t.upstreamFd
         /\ \A x \in Waiting, s \in Objects : x.fd # s.clientFd /\ x.fd # s.upstreamFd /\ x.client # s.id
<1>1. \A s, t \in Objects : s.clientFd # t.upstreamFd
  BY ConnOpen, SessionTyped DEF Ledger
<1>2. ASSUME NEW x \in Waiting, NEW s \in Objects
      PROVE  x.fd # s.clientFd /\ x.fd # s.upstreamFd /\ x.client # s.id
  <2>1. x.fd \in Fds /\ x.client \in Clients /\ s.clientFd \in Fds
    BY WaitingTyped, SessionTyped
  <2>2. fdTable[x.fd] = <<x.client, "client">> /\ fdTable[s.upstreamFd] = <<s.id, "upstream">>
    BY DEF Ledger
  <2>3. x.fd # s.clientFd
    BY DEF Ledger
  <2>4. x.fd # s.upstreamFd
    BY <2>1, <2>2, ConnOpen
  <2>5. x.client # s.id
    <3>1. fdTable[s.clientFd] = <<s.id, "client">>
      BY DEF Ledger
    <3> QED
      BY <2>1, <2>2, <2>3, <3>1, ConnOpen DEF Ledger
  <2> QED
    BY <2>3, <2>4, <2>5
<1> QED
  BY <1>1, <1>2

(* A free number is no session's socket.                                   *)
LEMMA FreeIsNoSocket ==
  ASSUME Shape, Ledger, NEW fd \in Fds, fdTable[fd] = None, NEW s \in Objects
  PROVE  s.clientFd # fd /\ s.upstreamFd # fd
<1>1. fdTable[s.clientFd] = <<s.id, "client">> /\ fdTable[s.upstreamFd] = <<s.id, "upstream">>
  BY DEF Ledger
<1> QED
  BY <1>1, SessionTyped, ConnOpen

(* accept4() on a free number keeps the ledger.                            *)
LEMMA LedgerOpen ==
  ASSUME Shape, Ledger, NEW c \in arriving, NEW fd \in Fds, fdTable[fd] = None,
         fdTable' = [fdTable EXCEPT ![fd] = <<c, "client">>], arriving' = arriving \ {c},
         Waiting' = Waiting \cup {[fd |-> fd, client |-> c]}, Objects' = Objects
  PROVE  Ledger'
<1> DEFINE new == [fd |-> fd, client |-> c]
<1>1. c \in Clients /\ fdTable \in [Fds -> Conn \cup {None}]
  BY DEF Shape
<1>2. /\ fdTable'[fd] = <<c, "client">>
      /\ \A other \in Fds : other # fd => fdTable'[other] = fdTable[other]
  BY <1>1
<1>3. \A x \in Waiting : x.fd \in Fds /\ x.fd # fd /\ fdTable'[x.fd] = fdTable[x.fd]
  BY <1>2, WaitingTyped, ConnOpen DEF Ledger
<1>4. \A s \in Objects : /\ s.clientFd \in Fds /\ s.clientFd # fd /\ fdTable'[s.clientFd] = fdTable[s.clientFd]
                         /\ s.upstreamFd \in Fds /\ s.upstreamFd # fd /\ fdTable'[s.upstreamFd] = fdTable[s.upstreamFd]
  BY <1>2, SessionTyped, ConnOpen DEF Ledger
<1>5. new.fd = fd /\ new.client = c
  OBVIOUS
<1>6. Waiting' = Waiting \cup {new}
  OBVIOUS
<1> HIDE DEF new
<1>7. \A x \in Waiting' : fdTable'[x.fd] = <<x.client, "client">>
  BY <1>2, <1>3, <1>5, <1>6 DEF Ledger
<1>8. \A s \in Objects' : /\ fdTable'[s.clientFd] = <<s.id, "client">>
                          /\ fdTable'[s.upstreamFd] = <<s.id, "upstream">>
  BY <1>4 DEF Ledger
<1>9. \A x \in Waiting', s \in Objects' : x.fd # s.clientFd
  BY <1>4, <1>5, <1>6 DEF Ledger
<1>10. \A g \in Fds : fdTable'[g] # None => \/ \E x \in Waiting' : x.fd = g
                                            \/ \E s \in Objects' : g = s.clientFd \/ g = s.upstreamFd
  <2> SUFFICES ASSUME NEW g \in Fds, fdTable'[g] # None
               PROVE  \/ \E x \in Waiting' : x.fd = g
                      \/ \E s \in Objects' : g = s.clientFd \/ g = s.upstreamFd
    OBVIOUS
  <2>1. CASE g = fd
    BY <2>1, <1>5, <1>6
  <2>2. CASE g # fd
    BY <2>2, <1>2, <1>6 DEF Ledger
  <2> QED
    BY <2>1, <2>2
<1>11. \A g, other \in Fds : fdTable'[g] = fdTable'[other] /\ fdTable'[g] # None => g = other
  BY <1>2 DEF Ledger
<1>12. \A g \in Fds, d \in arriving' : fdTable'[g] # <<d, "client">> /\ fdTable'[g] # <<d, "upstream">>
  BY <1>1, <1>2, ConnOpen DEF Ledger
<1> QED
  BY <1>7, <1>8, <1>9, <1>10, <1>11, <1>12 DEF Ledger

(* Closing a waiting client keeps the ledger: the number closed is nobody  *)
(* else's.                                                                 *)
LEMMA LedgerDrop ==
  ASSUME Shape, Ledger, NEW e \in Waiting,
         fdTable' = Closed(fdTable, {e.fd}), arriving' = arriving,
         Waiting' = Waiting \ {e}, Objects' = Objects
  PROVE  Ledger'
<1>1. \A fd \in Fds : fdTable'[fd] = IF fd = e.fd THEN None ELSE fdTable[fd]
  BY DEF Closed
<1>2. \A x \in Waiting' : x \in Waiting /\ x.fd \in Fds /\ x.fd # e.fd /\ fdTable'[x.fd] = fdTable[x.fd]
  BY <1>1, WaitingTyped, SameFd
<1>3. \A s \in Objects : /\ s.clientFd \in Fds /\ fdTable'[s.clientFd] = fdTable[s.clientFd]
                         /\ s.upstreamFd \in Fds /\ fdTable'[s.upstreamFd] = fdTable[s.upstreamFd]
  BY <1>1, SessionTyped, SocketsApart
<1>4. \A x \in Waiting' : fdTable'[x.fd] = <<x.client, "client">>
  BY <1>2 DEF Ledger
<1>5. \A s \in Objects' : /\ fdTable'[s.clientFd] = <<s.id, "client">>
                          /\ fdTable'[s.upstreamFd] = <<s.id, "upstream">>
  BY <1>3 DEF Ledger
<1>6. \A x \in Waiting', s \in Objects' : x.fd # s.clientFd
  BY DEF Ledger
<1>7. \A g \in Fds : fdTable'[g] # None => \/ \E x \in Waiting' : x.fd = g
                                           \/ \E s \in Objects' : g = s.clientFd \/ g = s.upstreamFd
  BY <1>1 DEF Ledger
<1>8. ASSUME NEW g \in Fds, NEW other \in Fds, fdTable'[g] = fdTable'[other], fdTable'[g] # None
      PROVE  g = other
  <2>1. fdTable'[g] = fdTable[g] /\ fdTable'[other] = fdTable[other]
    BY <1>1, <1>8
  <2> QED
    BY <1>8, <2>1 DEF Ledger
<1>9. ASSUME NEW g \in Fds, NEW d \in arriving'
      PROVE  fdTable'[g] # <<d, "client">> /\ fdTable'[g] # <<d, "upstream">>
  <2>1. <<d, "client">> # None /\ <<d, "upstream">> # None
    BY ConnOpen DEF Shape
  <2>2. fdTable[g] # <<d, "client">> /\ fdTable[g] # <<d, "upstream">>
    BY DEF Ledger
  <2> QED
    BY <1>1, <2>1, <2>2
<1> QED
  BY <1>4, <1>5, <1>6, <1>7, <1>8, <1>9 DEF Ledger

(* Turning a waiting client into a session keeps the ledger: its client    *)
(* socket changes owner and the upstream one is new.                       *)
LEMMA LedgerServe ==
  ASSUME Shape, Ledger, NEW e \in Waiting, NEW fd \in Fds, fdTable[fd] = None,
         fdTable' = [fdTable EXCEPT ![fd] = <<e.client, "upstream">>], arriving' = arriving,
         Waiting' = Waiting \ {e},
         Objects' = Objects \cup {[id |-> e.client, clientFd |-> e.fd, upstreamFd |-> fd]}
  PROVE  Ledger'
<1> DEFINE new == [id |-> e.client, clientFd |-> e.fd, upstreamFd |-> fd]
<1>1. e.client \in Clients /\ e.fd \in Fds /\ fdTable \in [Fds -> Conn \cup {None}]
  BY WaitingTyped DEF Shape
<1>2. /\ fdTable'[fd] = <<e.client, "upstream">>
      /\ \A other \in Fds : other # fd => fdTable'[other] = fdTable[other]
  BY <1>1
<1>3. \A x \in Waiting : x.fd \in Fds /\ x.fd # fd /\ fdTable'[x.fd] = fdTable[x.fd]
  BY <1>2, WaitingTyped, ConnOpen DEF Ledger
<1>4. \A s \in Objects : /\ s.clientFd \in Fds /\ s.clientFd # fd /\ fdTable'[s.clientFd] = fdTable[s.clientFd]
                         /\ s.upstreamFd \in Fds /\ s.upstreamFd # fd /\ fdTable'[s.upstreamFd] = fdTable[s.upstreamFd]
  BY <1>2, SessionTyped, ConnOpen DEF Ledger
<1>5. new.id = e.client /\ new.clientFd = e.fd /\ new.upstreamFd = fd
  OBVIOUS
<1>6. Objects' = Objects \cup {new}
  OBVIOUS
<1> HIDE DEF new
<1>7. \A x \in Waiting' : fdTable'[x.fd] = <<x.client, "client">>
  BY <1>3 DEF Ledger
<1>8. \A s \in Objects' : /\ fdTable'[s.clientFd] = <<s.id, "client">>
                          /\ fdTable'[s.upstreamFd] = <<s.id, "upstream">>
  <2>1. fdTable'[new.clientFd] = <<new.id, "client">> /\ fdTable'[new.upstreamFd] = <<new.id, "upstream">>
    <3>1. fdTable[e.fd] = <<e.client, "client">>
      BY DEF Ledger
    <3>2. fdTable'[e.fd] = fdTable[e.fd]
      BY <1>3
    <3> QED
      BY <1>2, <1>5, <3>1, <3>2
  <2>2. \A s \in Objects : /\ fdTable'[s.clientFd] = <<s.id, "client">>
                           /\ fdTable'[s.upstreamFd] = <<s.id, "upstream">>
    BY <1>4 DEF Ledger
  <2> QED
    BY <1>6, <2>1, <2>2
<1>9. \A x \in Waiting', s \in Objects' : x.fd # s.clientFd
  BY <1>5, <1>6, SameFd DEF Ledger
<1>10. \A g \in Fds : fdTable'[g] # None => \/ \E x \in Waiting' : x.fd = g
                                            \/ \E s \in Objects' : g = s.clientFd \/ g = s.upstreamFd
  <2> SUFFICES ASSUME NEW g \in Fds, fdTable'[g] # None
               PROVE  \/ \E x \in Waiting' : x.fd = g
                      \/ \E s \in Objects' : g = s.clientFd \/ g = s.upstreamFd
    OBVIOUS
  <2>1. CASE g = fd \/ g = e.fd
    BY <2>1, <1>5, <1>6
  <2>2. CASE g # fd /\ g # e.fd
    BY <2>2, <1>2, <1>6 DEF Ledger
  <2> QED
    BY <2>1, <2>2
<1>11. \A g \in Fds : fdTable[g] # <<e.client, "upstream">>
  <2> SUFFICES ASSUME NEW g \in Fds, fdTable[g] = <<e.client, "upstream">>
               PROVE  FALSE
    OBVIOUS
  <2>1. \A x \in Waiting : x.fd # g
    BY ConnOpen, WaitingTyped DEF Ledger
  <2>2. PICK s \in Objects : g = s.clientFd \/ g = s.upstreamFd
    BY <1>1, <2>1, ConnOpen DEF Ledger
  <2>3. s.id = e.client
    BY <2>2 DEF Ledger
  <2> QED
    BY <2>3, SocketsApart
<1>12. \A g, other \in Fds : fdTable'[g] = fdTable'[other] /\ fdTable'[g] # None => g = other
  BY <1>2, <1>11 DEF Ledger
<1>13. \A d \in arriving : d # e.client
  BY <1>1 DEF Ledger
<1>14. \A g \in Fds, d \in arriving' : fdTable'[g] # <<d, "client">> /\ fdTable'[g] # <<d, "upstream">>
  BY <1>2, <1>13, ConnOpen DEF Ledger
<1> QED
  BY <1>7, <1>8, <1>9, <1>10, <1>12, <1>14 DEF Ledger

(* Closing sessions keeps the ledger: both sockets of each go, and none of *)
(* any other.                                                              *)
LEMMA LedgerEnd ==
  ASSUME Shape, Ledger, NEW gone \in SUBSET Objects,
         fdTable' = Closed(fdTable, Sockets(gone)), arriving' = arriving,
         Waiting' = Waiting, Objects' = Objects \ gone
  PROVE  Ledger'
<1>1. /\ \A fd \in Fds : fd \in Sockets(gone) => fdTable'[fd] = None
      /\ \A fd \in Fds : fd \notin Sockets(gone) => fdTable'[fd] = fdTable[fd]
  BY DEF Closed
<1>2. \A x \in Waiting : x.fd \in Fds /\ fdTable'[x.fd] = fdTable[x.fd]
  BY <1>1, WaitingTyped, SocketsApart DEF Sockets
<1>3. ASSUME NEW s \in Objects \ gone
      PROVE  /\ s.clientFd \in Fds /\ s.clientFd \notin Sockets(gone)
             /\ s.upstreamFd \in Fds /\ s.upstreamFd \notin Sockets(gone)
  BY SessionTyped, SocketsApart, SameSession DEF Sockets
<1>4. \A s \in gone : s.clientFd \in Sockets(gone) /\ s.upstreamFd \in Sockets(gone)
  BY DEF Sockets
<1>5. \A x \in Waiting' : fdTable'[x.fd] = <<x.client, "client">>
  BY <1>2 DEF Ledger
<1>6. \A s \in Objects' : /\ fdTable'[s.clientFd] = <<s.id, "client">>
                          /\ fdTable'[s.upstreamFd] = <<s.id, "upstream">>
  BY <1>1, <1>3 DEF Ledger
<1>7. \A x \in Waiting', s \in Objects' : x.fd # s.clientFd
  BY DEF Ledger
<1>8. \A g \in Fds : fdTable'[g] # None => \/ \E x \in Waiting' : x.fd = g
                                           \/ \E s \in Objects' : g = s.clientFd \/ g = s.upstreamFd
  BY <1>1, <1>4 DEF Ledger
<1>9. \A g, other \in Fds : fdTable'[g] = fdTable'[other] /\ fdTable'[g] # None => g = other
  BY <1>1 DEF Ledger
<1>10. ASSUME NEW g \in Fds, NEW d \in arriving'
       PROVE  fdTable'[g] # <<d, "client">> /\ fdTable'[g] # <<d, "upstream">>
  <2>1. <<d, "client">> # None /\ <<d, "upstream">> # None
    BY ConnOpen DEF Shape
  <2>2. fdTable[g] # <<d, "client">> /\ fdTable[g] # <<d, "upstream">>
    BY DEF Ledger
  <2> QED
    BY <1>1, <2>1, <2>2
<1> QED
  BY <1>5, <1>6, <1>7, <1>8, <1>9, <1>10 DEF Ledger

-----------------------------------------------------------------------------
(* How many clients are waiting.                                           *)
Total == Len(held) + Len(queue) + Len(local)

(* The nine effects a step can have. A client arrives at a free number.    *)
OpenStep(c, fd) ==
  /\ c \in arriving /\ fd \in Fds /\ fdTable[fd] = None
  /\ fdTable' = [fdTable EXCEPT ![fd] = <<c, "client">>]
  /\ arriving' = arriving \ {c}
  /\ Waiting' = Waiting \cup {[fd |-> fd, client |-> c]} /\ Total' = Total + 1
  /\ metrics' = onAccepted /\ Registering' = Registering
  /\ UNCHANGED <<sessions, detached, fdToSession, batch, activeSessions>>

(* A waiting client is closed, by whoever holds it.                        *)
DropStep(e) ==
  /\ e \in Waiting
  /\ fdTable' = Closed(fdTable, {e.fd})
  /\ Waiting' = Waiting \ {e} /\ Total' = Total - 1
  /\ metrics' = onRejected \/ metrics' = onConnectFailure \/ metrics' = onDropped
  /\ Registering' = Registering
  /\ UNCHANGED <<arriving, sessions, detached, fdToSession, batch, activeSessions>>

(* A session object is built for a waiting client.                         *)
ServeStep(e, fd) ==
  /\ e \in Waiting /\ fd \in Fds /\ fdTable[fd] = None
  /\ fdTable' = [fdTable EXCEPT ![fd] = <<e.client, "upstream">>]
  /\ Waiting' = Waiting \ {e} /\ Total' = Total - 1
  /\ detached = {} /\ Registering = {}
  /\ detached' = {[id |-> e.client, clientFd |-> e.fd, upstreamFd |-> fd]}
  /\ Registering' = detached'
  /\ UNCHANGED <<arriving, sessions, fdToSession, batch, activeSessions, metrics>>

(* It is given up.                                                         *)
RejectStep(s) ==
  /\ detached = {s} /\ Registering = {s} /\ Registering' = {}
  /\ metrics' = onRejected
  /\ Waiting' = Waiting /\ Total' = Total
  /\ UNCHANGED <<arriving, fdTable, sessions, detached, fdToSession, batch, activeSessions>>

(* It is published.                                                        *)
PublishStep(s) ==
  /\ detached = {s} /\ Registering = {s} /\ detached' = {} /\ Registering' = {}
  /\ sessions' = sessions \cup {s}
  /\ fdToSession' = [fdToSession EXCEPT ![s.clientFd] = s.id, ![s.upstreamFd] = s.id]
  /\ activeSessions' = activeSessions + 1
  /\ metrics' = onOpened
  /\ Waiting' = Waiting /\ Total' = Total
  /\ UNCHANGED <<arriving, fdTable, batch>>

(* Sessions are closed, with no event left to dispatch.                    *)
UnpublishStep(gone) ==
  /\ gone \subseteq sessions /\ batch = {} /\ detached = {}
  /\ CloseSessions(gone)
  /\ Waiting' = Waiting /\ Total' = Total /\ Registering = {} /\ Registering' = {}
  /\ UNCHANGED <<arriving, fdTable, batch>>

(* A session object is destroyed.                                          *)
EndStep(s) ==
  /\ s \in detached
  /\ fdTable' = Closed(fdTable, {s.clientFd, s.upstreamFd})
  /\ detached' = detached \ {s}
  /\ Waiting' = Waiting /\ Total' = Total /\ Registering = {} /\ Registering' = {}
  /\ UNCHANGED <<arriving, sessions, fdToSession, batch, activeSessions, metrics>>

(* A batch is fetched.                                                     *)
PollStep(ready) ==
  /\ ready \subseteq Fds /\ \A fd \in ready : fdToSession[fd] # None
  /\ batch' = {<<fd, fdTable[fd]>> : fd \in ready} \cup {e \in {WakeEvent} : wake}
  /\ Waiting' = Waiting /\ Total' = Total /\ Registering' = Registering
  /\ UNCHANGED <<arriving, fdTable, sessions, detached, fdToSession, activeSessions, metrics>>

(* Nothing changes but the place of a waiting client or the rest of a      *)
(* batch.                                                                  *)
KeepStep ==
  /\ batch' \subseteq batch
  /\ Waiting' = Waiting /\ Total' = Total /\ Registering' = Registering
  /\ UNCHANGED <<arriving, fdTable, sessions, detached, fdToSession, activeSessions, metrics>>

(* A step has one of these effects.                                        *)
Effect ==
  \/ \E c \in Clients, fd \in Fds : OpenStep(c, fd)
  \/ \E e \in Waiting : DropStep(e)
  \/ \E e \in Waiting, fd \in Fds : ServeStep(e, fd)
  \/ \E s \in detached : RejectStep(s) \/ PublishStep(s) \/ EndStep(s)
  \/ \E gone \in SUBSET sessions : UnpublishStep(gone)
  \/ \E ready \in SUBSET Fds : PollStep(ready)
  \/ KeepStep

(* The lengths of the queues are natural numbers.                          *)
LEMMA TotalTyped ==
  ASSUME Shape
  PROVE  Len(held) \in Nat /\ Len(queue) \in Nat /\ Len(local) \in Nat /\ Total \in Nat
<1>1. Len(held) \in Nat /\ Len(queue) \in Nat /\ Len(local) \in Nat
  BY LenProperties DEF Shape
<1> QED
  BY <1>1 DEF Total

(* Which sessions are being registered, by where the worker is.            *)
LEMMA RegisteringFacts ==
  /\ workerPc \in {"register", "publish"} => Registering = detached
  /\ workerPc \notin {"register", "publish"} => Registering = {}
  /\ workerPc' \in {"register", "publish"} => Registering' = detached'
  /\ workerPc' \notin {"register", "publish"} => Registering' = {}
BY DEF Registering

(* Each action of the main thread has one of the effects.                  *)
LEMMA EffectMain ==
  ASSUME ControlInv, Apart, Ledger, Main
  PROVE  Apart' /\ Effect
<1> USE DEF ControlInv
<1>1. ToSet(<< >>) = {} /\ Len(<< >>) = 0
  BY SetOfNothing, EmptySeq
<1>2. Registering' = Registering
  BY DEF Main, Accept, ConfigureFails, EnqueueRefused, RejectHeld, EnqueuePush, EnqueueSignal, StopFlag,
         StopSignal, Join, workerVars, Registering
<1>3. ASSUME NEW c \in Clients, NEW fd \in Fds, Accept(c, fd)
      PROVE  Apart' /\ OpenStep(c, fd)
  <2> DEFINE new == [fd |-> fd, client |-> c]
  <2>1. held = << >>
    BY <1>3, HeldNothing DEF Accept
  <2>2. held' = <<new>> /\ queue' = queue /\ local' = local
    BY <1>3 DEF Accept, workerVars
  <2>3. ToSet(held') = {new} /\ Len(held') = 1
    BY <2>2, SetOfOne
  <2>4. fdTable[fd] = None
    BY <1>3 DEF Accept, FreeFds
  <2>5. new \notin Waiting
    <3>1. new.fd = fd
      OBVIOUS
    <3> QED
      BY <2>4, <3>1, WaitingTyped, ConnOpen DEF Ledger
  <2> HIDE DEF new
  <2>6. Waiting' = Waiting \cup {new}
    BY <1>1, <2>1, <2>2, <2>3 DEF Waiting
  <2>7. Total' = Total + 1
    BY <1>1, <2>1, <2>2, <2>3, TotalTyped DEF Total
  <2>8. Apart'
    BY <2>2, <2>3, <2>5 DEF Apart, Waiting
  <2> QED
    BY <1>2, <1>3, <2>4, <2>6, <2>7, <2>8 DEF Accept, OpenStep, workerVars, published, new
<1>4. ASSUME RejectHeld, mainPc = "enqueue"
      PROVE  Apart' /\ DropStep(held[1])
  <2>1. ToSet(held) = {held[1]} /\ Len(held) = 1
    BY <1>4, HeldEntry DEF Control
  <2>2. held' = << >> /\ queue' = queue /\ local' = local
    BY <1>4 DEF RejectHeld, workerVars
  <2>3. Waiting' = Waiting \ {held[1]} /\ held[1] \in Waiting
    BY <1>1, <2>1, <2>2 DEF Waiting, Apart
  <2>4. Total' = Total - 1
    BY <1>1, <2>1, <2>2, TotalTyped DEF Total
  <2>5. Apart'
    BY <1>1, <2>2 DEF Apart
  <2> QED
    BY <1>2, <1>4, <2>3, <2>4, <2>5 DEF RejectHeld, DropStep, workerVars, published
<1>5. CASE EnqueuePush
  <2>1. ToSet(held) = {held[1]} /\ Len(held) = 1 /\ held[1] \in Entry /\ queue \in Seq(Entry)
    BY <1>5, HeldEntry DEF EnqueuePush, Control, Shape
  <2>2. held' = << >> /\ queue' = Append(queue, held[1]) /\ local' = local
    BY <1>5 DEF EnqueuePush, workerVars
  <2>3. ToSet(queue') = ToSet(queue) \cup {held[1]} /\ Len(queue') = Len(queue) + 1
    BY <2>1, <2>2, SetOfAppend, AppendProperties
  <2>4. Waiting' = Waiting
    BY <1>1, <2>1, <2>2, <2>3 DEF Waiting
  <2>5. Total' = Total
    BY <1>1, <2>1, <2>2, <2>3, TotalTyped DEF Total
  <2>6. IsOnceEach(queue')
    BY <2>1, <2>2, OnceEachAppend DEF Apart
  <2>7. Apart'
    BY <1>1, <2>1, <2>2, <2>3, <2>6 DEF Apart
  <2>8. KeepStep
    BY <1>2, <1>5, <2>4, <2>5 DEF EnqueuePush, KeepStep, workerVars, published
  <2> QED
    BY <2>7, <2>8 DEF Effect
<1>6. CASE EnqueueSignal \/ StopFlag \/ StopSignal \/ Join
  <2>1. held' = held /\ queue' = queue /\ local' = local
    BY <1>6 DEF EnqueueSignal, StopFlag, StopSignal, Join, workerVars
  <2>2. Waiting' = Waiting /\ Total' = Total /\ Apart'
    BY <2>1 DEF Waiting, Total, Apart
  <2>3. KeepStep
    BY <1>2, <1>6, <2>2 DEF EnqueueSignal, StopFlag, StopSignal, Join, KeepStep, workerVars, published
  <2> QED
    BY <2>2, <2>3 DEF Effect
<1>7. CASE \E c \in Clients, fd \in Fds : Accept(c, fd)
  BY <1>3, <1>7 DEF Effect
<1>8. CASE ConfigureFails \/ EnqueueRefused
  <2>1. RejectHeld /\ mainPc = "enqueue"
    BY <1>8 DEF ConfigureFails, EnqueueRefused
  <2>2. Apart' /\ DropStep(held[1])
    BY <1>4, <2>1
  <2> QED
    BY <2>2 DEF Effect, DropStep
<1> QED
  BY <1>5, <1>6, <1>7, <1>8 DEF Main

(* Each action of the worker has one of the effects.                       *)
LEMMA EffectWorker ==
  ASSUME ControlInv, Apart, Ledger, Watched, WorkerStep
  PROVE  Apart' /\ Effect
<1> USE DEF ControlInv
<1>1. ToSet(<< >>) = {} /\ Len(<< >>) = 0 /\ IsOnceEach(<< >>)
  BY SetOfNothing, EmptySeq
<1>2. ASSUME held' = held, queue' = queue, local' = local
      PROVE  Waiting' = Waiting /\ Total' = Total /\ Apart'
  BY <1>2 DEF Waiting, Total, Apart
<1>3. CASE \/ CheckRunning \/ DispatchWake \/ TakeUp \/ AcquireLease \/ FinishDrain \/ Released
           \/ \E s \in detached : RegisterClient(s)
  <2>1. Waiting' = Waiting /\ Total' = Total /\ Apart'
    BY <1>2, <1>3 DEF CheckRunning, DispatchWake, TakeUp, AcquireLease, FinishDrain, Released,
                      RegisterClient, mainVars
  <2>2. Registering' = Registering
    <3>1. detached' = detached
      BY <1>3 DEF CheckRunning, DispatchWake, TakeUp, AcquireLease, FinishDrain, Released, RegisterClient
    <3>2. workerPc \in {"register", "publish"} <=> workerPc' \in {"register", "publish"}
      BY <1>3 DEF CheckRunning, DispatchWake, TakeUp, AcquireLease, FinishDrain, Released, Releasing,
                  RegisterClient
    <3> QED
      BY <3>1, <3>2, RegisteringFacts
  <2>3. KeepStep
    BY <1>3, <2>1, <2>2 DEF CheckRunning, DispatchWake, TakeUp, AcquireLease, FinishDrain, Released,
                            RegisterClient, mainVars, published, KeepStep
  <2> QED
    BY <2>1, <2>3 DEF Effect
<1>4. ASSUME NEW ready \in SUBSET Fds, EpollWait(ready)
      PROVE  Apart' /\ Effect
  <2>1. Waiting' = Waiting /\ Total' = Total /\ Apart'
    BY <1>2, <1>4 DEF EpollWait, mainVars
  <2>2. Registering' = Registering
    BY <1>4, RegisteringFacts DEF EpollWait
  <2>3. \A fd \in ready : fdToSession[fd] # None
    BY <1>4 DEF EpollWait, Watched
  <2>4. PollStep(ready)
    BY <1>4, <2>1, <2>2, <2>3 DEF EpollWait, mainVars, published, PollStep
  <2> QED
    BY <2>1, <2>4 DEF Effect
<1>5. ASSUME NEW e \in batch, NEW alive \in BOOLEAN, DispatchSocket(e, alive)
      PROVE  Apart' /\ Effect
  <2>1. Waiting' = Waiting /\ Total' = Total /\ Apart'
    BY <1>2, <1>5 DEF DispatchSocket, mainVars
  <2>2. Registering' = Registering
    BY <1>5, RegisteringFacts DEF DispatchSocket
  <2>3. KeepStep
    BY <1>5, <2>1, <2>2 DEF DispatchSocket, RunHandler, mainVars, published, KeepStep
  <2> QED
    BY <2>1, <2>3 DEF Effect
<1>6. ASSUME NEW exiting \in BOOLEAN, SwapQueue(exiting)
      PROVE  Apart' /\ Effect
  <2>1. local = << >>
    BY <1>6 DEF SwapQueue, Control
  <2>2. local' = queue /\ queue' = << >> /\ held' = held
    BY <1>6 DEF SwapQueue, mainVars
  <2>3. Waiting' = Waiting
    BY <1>1, <2>1, <2>2 DEF Waiting
  <2>4. Total' = Total
    BY <1>1, <2>1, <2>2, TotalTyped DEF Total
  <2>5. Apart'
    BY <1>1, <2>1, <2>2 DEF Apart
  <2>6. Registering' = Registering
    BY <1>6, RegisteringFacts DEF SwapQueue
  <2>7. KeepStep
    BY <1>6, <2>3, <2>4, <2>6 DEF SwapQueue, KeepStep, mainVars, published
  <2> QED
    BY <2>5, <2>7 DEF Effect
<1>7. ASSUME local # << >>, held' = held, queue' = queue, local' = Tail(local)
      PROVE  /\ Head(local) \in Waiting
             /\ Waiting' = Waiting \ {Head(local)} /\ Total' = Total - 1 /\ Apart'
  <2>1. /\ Head(local) \in ToSet(local) /\ ToSet(Tail(local)) = ToSet(local) \ {Head(local)}
        /\ IsOnceEach(Tail(local))
    BY <1>7, SetOfTail DEF Shape, Apart
  <2>2. Len(Tail(local)) = Len(local) - 1
    BY <1>7, HeadTailProperties DEF Shape
  <2>3. Waiting' = Waiting \ {Head(local)}
    BY <1>7, <2>1 DEF Waiting, Apart
  <2>4. Total' = Total - 1
    BY <1>7, <2>2, TotalTyped DEF Total
  <2>5. Apart'
    BY <1>7, <2>1 DEF Apart
  <2> QED
    BY <2>1, <2>3, <2>4, <2>5 DEF Waiting
<1>8. CASE DropStopped \/ AcquireFails \/ ConnectFails
  <2>1. local # << >> /\ held' = held /\ queue' = queue /\ local' = Tail(local)
    BY <1>8 DEF DropStopped, Draining, AcquireFails, ConnectFails, CloseClient, Control, mainVars
  <2>2. Registering' = Registering
    BY <1>8, RegisteringFacts DEF DropStopped, Draining, AcquireFails, ConnectFails, CloseClient
  <2>3. DropStep(Head(local))
    BY <1>7, <1>8, <2>1, <2>2
    DEF DropStopped, AcquireFails, ConnectFails, CloseClient, DropStep, mainVars, published
  <2> QED
    BY <1>7, <2>1, <2>3 DEF Effect
<1>9. ASSUME NEW fd \in Fds, ConnectStarts(fd)
      PROVE  Apart' /\ Effect
  <2>1. local # << >> /\ held' = held /\ queue' = queue /\ local' = Tail(local)
    BY <1>9 DEF ConnectStarts, Control, mainVars
  <2>2. detached = {} /\ Registering = {} /\ Registering' = detached'
    BY <1>9, RegisteringFacts DEF ConnectStarts, Control
  <2>3. ServeStep(Head(local), fd)
    BY <1>7, <1>9, <2>1, <2>2 DEF ConnectStarts, FreeFds, ServeStep, mainVars, published
  <2> QED
    BY <1>7, <2>1, <2>3 DEF Effect
<1>10. ASSUME NEW s \in detached, RegisterFails(s) \/ PublishSession(s)
       PROVE  Apart' /\ Effect
  <2>1. Waiting' = Waiting /\ Total' = Total /\ Apart'
    BY <1>2, <1>10 DEF RegisterFails, PublishSession, mainVars
  <2>2. detached = {s} /\ Registering = {s} /\ Registering' = {}
    BY <1>10, RegisteringFacts DEF RegisterFails, PublishSession, Control
  <2>3. CASE RegisterFails(s)
    <3>1. RejectStep(s)
      BY <2>1, <2>2, <2>3 DEF RegisterFails, RejectStep, mainVars, published
    <3> QED
      BY <2>1, <3>1 DEF Effect
  <2>4. CASE PublishSession(s)
    <3>1. PublishStep(s)
      BY <2>1, <2>2, <2>4 DEF PublishSession, PublishStep, mainVars
    <3> QED
      BY <2>1, <3>1 DEF Effect
  <2> QED
    BY <1>10, <2>3, <2>4
<1>11. ASSUME NEW s \in detached, Destroy(s)
       PROVE  Apart' /\ Effect
  <2>1. Waiting' = Waiting /\ Total' = Total /\ Apart'
    BY <1>2, <1>11 DEF Destroy, mainVars
  <2>2. Registering = {} /\ Registering' = {}
    BY <1>11, RegisteringFacts DEF Destroy, Releasing
  <2>3. EndStep(s)
    BY <1>11, <2>1, <2>2 DEF Destroy, EndStep, mainVars, published
  <2> QED
    BY <2>1, <2>3 DEF Effect
<1>12. ASSUME NEW expired \in SUBSET sessions, EndBatch(expired)
       PROVE  Apart' /\ Effect
  <2> DEFINE gone == {s \in sessions : s.id \in closing} \cup expired
  <2>1. gone \in SUBSET sessions /\ CloseSessions(gone)
    BY <1>12 DEF EndBatch
  <2> HIDE DEF gone
  <2>2. Waiting' = Waiting /\ Total' = Total /\ Apart'
    BY <1>2, <1>12 DEF EndBatch, mainVars
  <2>3. detached = {} /\ Registering = {} /\ Registering' = {}
    BY <1>12, RegisteringFacts DEF EndBatch, Control
  <2>4. UnpublishStep(gone)
    BY <1>12, <2>1, <2>2, <2>3 DEF EndBatch, UnpublishStep, mainVars
  <2> QED
    BY <2>1, <2>2, <2>4 DEF Effect
<1>13. CASE Exit
  <2>1. Waiting' = Waiting /\ Total' = Total /\ Apart'
    BY <1>2, <1>13 DEF Exit, mainVars
  <2>2. detached = {} /\ Registering = {} /\ Registering' = {}
    BY <1>13, RegisteringFacts DEF Exit, Control
  <2>3. UnpublishStep(sessions)
    BY <1>13, <2>1, <2>2 DEF Exit, Remaining, Control, UnpublishStep, mainVars
  <2> QED
    BY <2>1, <2>3 DEF Effect
<1> QED
  BY <1>3, <1>4, <1>5, <1>6, <1>8, <1>9, <1>10, <1>11, <1>12, <1>13 DEF WorkerStep

(* What an effect does to the set of session objects.                      *)
LEMMA ObjectsStep ==
  ASSUME Split
  PROVE  /\ \A c, fd : OpenStep(c, fd) => Objects' = Objects
         /\ \A e : DropStep(e) => Objects' = Objects
         /\ \A e, fd : ServeStep(e, fd) =>
              Objects' = Objects \cup {[id |-> e.client, clientFd |-> e.fd, upstreamFd |-> fd]}
         /\ \A s : RejectStep(s) => Objects' = Objects
         /\ \A s : PublishStep(s) => Objects' = Objects
         /\ \A s : EndStep(s) => Objects' = Objects \ {s} /\ s \in Objects /\ s \notin sessions
         /\ \A gone : UnpublishStep(gone) => Objects' = Objects
         /\ \A ready : PollStep(ready) => Objects' = Objects
         /\ KeepStep => Objects' = Objects
<1>1. /\ \A c, fd : OpenStep(c, fd) => Objects' = Objects
      /\ \A e : DropStep(e) => Objects' = Objects
      /\ \A s : RejectStep(s) => Objects' = Objects
      /\ \A ready : PollStep(ready) => Objects' = Objects
      /\ KeepStep => Objects' = Objects
  BY DEF OpenStep, DropStep, RejectStep, PollStep, KeepStep, Objects
<1>2. ASSUME NEW e, NEW fd, ServeStep(e, fd)
      PROVE  Objects' = Objects \cup {[id |-> e.client, clientFd |-> e.fd, upstreamFd |-> fd]}
  BY <1>2 DEF ServeStep, Objects
<1>3. ASSUME NEW s, PublishStep(s)
      PROVE  Objects' = Objects
  BY <1>3 DEF PublishStep, Objects
<1>4. ASSUME NEW s, EndStep(s)
      PROVE  Objects' = Objects \ {s} /\ s \in Objects /\ s \notin sessions
  BY <1>4 DEF EndStep, Objects, Split
<1>5. ASSUME NEW gone, UnpublishStep(gone)
      PROVE  Objects' = Objects
  BY <1>5 DEF UnpublishStep, CloseSessions, Objects
<1> QED
  BY <1>1, <1>2, <1>3, <1>4, <1>5

(* Every effect keeps the ledger.                                          *)
LEMMA LedgerStep ==
  ASSUME Shape, Ledger, Split, Effect
  PROVE  Ledger'
<1>1. ASSUME NEW c \in Clients, NEW fd \in Fds, OpenStep(c, fd)
      PROVE  Ledger'
  <2>1. Objects' = Objects
    BY <1>1, ObjectsStep
  <2> QED
    BY <1>1, <2>1, LedgerOpen DEF OpenStep
<1>2. ASSUME NEW e \in Waiting, DropStep(e)
      PROVE  Ledger'
  <2>1. Objects' = Objects
    BY <1>2, ObjectsStep
  <2> QED
    BY <1>2, <2>1, LedgerDrop DEF DropStep
<1>3. ASSUME NEW e \in Waiting, NEW fd \in Fds, ServeStep(e, fd)
      PROVE  Ledger'
  <2>1. Objects' = Objects \cup {[id |-> e.client, clientFd |-> e.fd, upstreamFd |-> fd]}
    BY <1>3, ObjectsStep
  <2> QED
    BY <1>3, <2>1, LedgerServe DEF ServeStep
<1>4. ASSUME NEW s \in detached, EndStep(s)
      PROVE  Ledger'
  <2>1. Objects' = Objects \ {s} /\ {s} \in SUBSET Objects
    BY <1>4, ObjectsStep
  <2>2. Sockets({s}) = {s.clientFd, s.upstreamFd}
    BY DEF Sockets
  <2>3. fdTable' = Closed(fdTable, Sockets({s})) /\ arriving' = arriving /\ Waiting' = Waiting
    BY <1>4, <2>2 DEF EndStep
  <2> QED
    BY <2>1, <2>3, LedgerEnd
<1>5. ASSUME Objects' = Objects, Waiting' = Waiting, UNCHANGED <<fdTable, arriving>>
      PROVE  Ledger'
  BY <1>5 DEF Ledger
<1>6. ASSUME NEW s \in detached, RejectStep(s) \/ PublishStep(s)
      PROVE  Ledger'
  <2>1. Objects' = Objects
    BY <1>6, ObjectsStep
  <2> QED
    BY <1>5, <1>6, <2>1 DEF RejectStep, PublishStep
<1>7. ASSUME NEW gone \in SUBSET sessions, UnpublishStep(gone)
      PROVE  Ledger'
  <2>1. Objects' = Objects
    BY <1>7, ObjectsStep
  <2> QED
    BY <1>5, <1>7, <2>1 DEF UnpublishStep
<1>8. CASE KeepStep \/ \E ready \in SUBSET Fds : PollStep(ready)
  <2>1. Objects' = Objects
    BY <1>8, ObjectsStep
  <2> QED
    BY <1>5, <1>8, <2>1 DEF KeepStep, PollStep
<1> QED
  BY <1>1, <1>2, <1>3, <1>4, <1>6, <1>7, <1>8 DEF Effect

(* Every effect keeps published and other session objects apart.           *)
LEMMA SplitStep ==
  ASSUME Shape, Ledger, Split, Effect
  PROVE  Split'
<1>1. ASSUME NEW e \in Waiting, NEW fd \in Fds, ServeStep(e, fd)
      PROVE  Split'
  <2> DEFINE new == [id |-> e.client, clientFd |-> e.fd, upstreamFd |-> fd]
  <2>1. new.upstreamFd = fd /\ fdTable[fd] = None /\ detached' = {new} /\ sessions' = sessions
    BY <1>1 DEF ServeStep
  <2> HIDE DEF new
  <2>2. \A s \in sessions : s.upstreamFd # fd
    BY <2>1, FreeIsNoSocket DEF Objects
  <2> QED
    BY <2>1, <2>2 DEF Split
<1>2. ASSUME NEW s \in detached, RejectStep(s) \/ PublishStep(s) \/ EndStep(s)
      PROVE  Split'
  BY <1>2 DEF RejectStep, PublishStep, EndStep, Split
<1>3. ASSUME NEW gone \in SUBSET sessions, UnpublishStep(gone)
      PROVE  Split'
  BY <1>3 DEF UnpublishStep, CloseSessions, Split
<1>4. CASE UNCHANGED <<sessions, detached>>
  BY <1>4 DEF Split
<1> QED
  BY <1>1, <1>2, <1>3, <1>4 DEF Effect, OpenStep, DropStep, PollStep, KeepStep

(* The sockets of a session that is not published are nobody else's.       *)
LEMMA DetachedApart ==
  ASSUME Shape, Ledger, Split, NEW s \in detached, NEW t \in sessions
  PROVE  /\ s.clientFd # t.clientFd /\ s.clientFd # t.upstreamFd
         /\ s.upstreamFd # t.clientFd /\ s.upstreamFd # t.upstreamFd /\ s.id # t.id
<1>1. s \in Objects /\ t \in Objects /\ s # t
  BY DEF Objects, Split
<1> QED
  BY <1>1, SameSession, SocketsApart

(* Every effect keeps fdToSession_ and sessions_ in agreement.             *)
LEMMA IndexStep ==
  ASSUME Shape, Ledger, Split, IndexSound, Effect
  PROVE  IndexSound'
<1> USE DEF IndexSound
<1>1. fdToSession \in [Fds -> Clients \cup {None}]
  BY DEF Shape
<1>2. CASE UNCHANGED <<sessions, fdToSession>>
  BY <1>2
<1>3. ASSUME NEW new \in detached, PublishStep(new)
      PROVE  IndexSound'
  <2>1. new.id \in Clients /\ new.clientFd \in Fds /\ new.upstreamFd \in Fds
    BY SessionTyped DEF Objects
  <2>2. sessions' = sessions \cup {new}
    BY <1>3 DEF PublishStep
  <2>3. \A g \in Fds : fdToSession'[g] = IF g = new.clientFd \/ g = new.upstreamFd THEN new.id
                                                                                   ELSE fdToSession[g]
    BY <1>1, <1>3, <2>1 DEF PublishStep
  <2>4. \A s \in sessions : /\ new.clientFd # s.clientFd /\ new.clientFd # s.upstreamFd
                            /\ new.upstreamFd # s.clientFd /\ new.upstreamFd # s.upstreamFd
    BY DetachedApart
  <2> SUFFICES ASSUME NEW g \in Fds, NEW c \in Clients
               PROVE  fdToSession'[g] = c <=>
                        \E s \in sessions' : s.id = c /\ g \in {s.clientFd, s.upstreamFd}
    OBVIOUS
  <2>5. CASE g = new.clientFd \/ g = new.upstreamFd
    BY <2>2, <2>3, <2>4, <2>5
  <2>6. CASE ~(g = new.clientFd \/ g = new.upstreamFd)
    <3>1. fdToSession'[g] = fdToSession[g]
      BY <2>3, <2>6
    <3>2. (\E s \in sessions' : s.id = c /\ g \in {s.clientFd, s.upstreamFd})
            <=> \E s \in sessions : s.id = c /\ g \in {s.clientFd, s.upstreamFd}
      BY <2>2, <2>6
    <3> QED
      BY <3>1, <3>2
  <2> QED
    BY <2>5, <2>6
<1>4. ASSUME NEW gone \in SUBSET sessions, UnpublishStep(gone)
      PROVE  IndexSound'
  <2>1. sessions' = sessions \ gone /\ fdToSession' = Closed(fdToSession, Sockets(gone))
    BY <1>4 DEF UnpublishStep, CloseSessions
  <2> SUFFICES ASSUME NEW g \in Fds, NEW c \in Clients
               PROVE  fdToSession'[g] = c <=>
                        \E s \in sessions' : s.id = c /\ g \in {s.clientFd, s.upstreamFd}
    OBVIOUS
  <2>2. CASE g \in Sockets(gone)
    <3>1. fdToSession'[g] = None
      BY <2>1, <2>2 DEF Closed
    <3>2. PICK t \in gone : g = t.clientFd \/ g = t.upstreamFd
      BY <2>2 DEF Sockets
    <3>3. \A s \in sessions : g \in {s.clientFd, s.upstreamFd} => s = t
      BY <3>2, SameSession, SocketsApart DEF Objects
    <3> QED
      BY <2>1, <3>1, <3>3
  <2>3. CASE g \notin Sockets(gone)
    <3>1. fdToSession'[g] = fdToSession[g]
      BY <2>1, <2>3 DEF Closed
    <3>2. \A s \in gone : g \notin {s.clientFd, s.upstreamFd}
      BY <2>3 DEF Sockets
    <3> QED
      BY <2>1, <3>1, <3>2
  <2> QED
    BY <2>2, <2>3
<1>5. CASE (\E e \in Waiting, fd \in Fds : ServeStep(e, fd))
             \/ (\E s \in detached : RejectStep(s) \/ EndStep(s))
  BY <1>2, <1>5 DEF ServeStep, RejectStep, EndStep
<1> QED
  BY <1>2, <1>3, <1>4, <1>5 DEF Effect, OpenStep, DropStep, PollStep, KeepStep

(* An indexed descriptor is a socket of the session the index names, and   *)
(* open.                                                                   *)
LEMMA Indexed ==
  ASSUME Shape, Ledger, IndexSound, NEW fd \in Fds, fdToSession[fd] # None
  PROVE  \E s \in sessions : /\ fd = s.clientFd \/ fd = s.upstreamFd
                             /\ fdToSession[fd] = s.id
                             /\ fdTable[fd] = <<s.id, "client">> \/ fdTable[fd] = <<s.id, "upstream">>
<1>1. fdToSession[fd] \in Clients
  BY DEF Shape
<1>2. PICK s \in sessions : s.id = fdToSession[fd] /\ fd \in {s.clientFd, s.upstreamFd}
  BY <1>1 DEF IndexSound
<1>3. fdTable[s.clientFd] = <<s.id, "client">> /\ fdTable[s.upstreamFd] = <<s.id, "upstream">>
  BY DEF Ledger, Objects
<1> QED
  BY <1>2, <1>3

(* The types of a socket event's fields.                                   *)
LEMMA EventTyped ==
  ASSUME Shape, Pending, NEW e \in batch \ {WakeEvent}
  PROVE  e[1] \in Fds /\ e[2] \in Conn /\ e[2][1] \in Clients
<1>1. e \in Fds \X (Conn \cup {None})
  BY DEF Shape
<1>2. e[2] \in Conn
  BY <1>1 DEF Pending
<1> QED
  BY <1>1, <1>2 DEF Conn

(* Every effect leaves the events of the batch to the sockets they were    *)
(* reported for: in the middle of a batch only free numbers are opened and *)
(* only waiting clients and sessions that were given up are closed.        *)
LEMMA PendingStep ==
  ASSUME Shape, Ledger, Split, IndexSound, Pending, Effect
  PROVE  Pending'
<1>1. fdTable \in [Fds -> Conn \cup {None}] /\ fdToSession \in [Fds -> Clients \cup {None}]
  BY DEF Shape
<1>2. ASSUME batch' \subseteq batch,
             \A s \in sessions : /\ fdTable'[s.clientFd] = fdTable[s.clientFd]
                                 /\ fdTable'[s.upstreamFd] = fdTable[s.upstreamFd]
                                 /\ fdToSession'[s.clientFd] = fdToSession[s.clientFd]
                                 /\ fdToSession'[s.upstreamFd] = fdToSession[s.upstreamFd]
      PROVE  Pending'
  <2> SUFFICES ASSUME NEW e \in batch \ {WakeEvent}
               PROVE  e[2] = fdTable'[e[1]] /\ fdToSession'[e[1]] = e[2][1] /\ e[2] # None
    BY <1>2 DEF Pending, WakeEvent
  <2>1. e[2] = fdTable[e[1]] /\ fdToSession[e[1]] = e[2][1] /\ e[2] # None
    BY DEF Pending
  <2>2. e[1] \in Fds /\ fdToSession[e[1]] # None
    BY <2>1, EventTyped
  <2>3. PICK s \in sessions : e[1] = s.clientFd \/ e[1] = s.upstreamFd
    BY <2>2, Indexed
  <2> QED
    BY <1>2, <2>1, <2>3
<1>3. \A s \in sessions : s \in Objects /\ s.clientFd \in Fds /\ s.upstreamFd \in Fds
  BY SessionTyped DEF Objects
<1>4. ASSUME NEW c \in Clients, NEW fd \in Fds, OpenStep(c, fd)
      PROVE  Pending'
  <2>1. \A s \in sessions : s.clientFd # fd /\ s.upstreamFd # fd
    BY <1>3, <1>4, FreeIsNoSocket DEF OpenStep
  <2> QED
    BY <1>1, <1>2, <1>3, <1>4, <2>1 DEF OpenStep
<1>5. ASSUME NEW e \in Waiting, DropStep(e)
      PROVE  Pending'
  <2>1. \A s \in sessions : s.clientFd # e.fd /\ s.upstreamFd # e.fd
    BY <1>3, SocketsApart
  <2> QED
    BY <1>2, <1>3, <1>5, <2>1 DEF DropStep, Closed
<1>6. ASSUME NEW e \in Waiting, NEW fd \in Fds, ServeStep(e, fd)
      PROVE  Pending'
  <2>1. \A s \in sessions : s.clientFd # fd /\ s.upstreamFd # fd
    BY <1>3, <1>6, FreeIsNoSocket DEF ServeStep
  <2> QED
    BY <1>1, <1>2, <1>3, <1>6, <2>1 DEF ServeStep
<1>7. ASSUME NEW new \in detached, PublishStep(new)
      PROVE  Pending'
  <2>1. \A s \in sessions : /\ new.clientFd # s.clientFd /\ new.clientFd # s.upstreamFd
                            /\ new.upstreamFd # s.clientFd /\ new.upstreamFd # s.upstreamFd
    BY DetachedApart
  <2>2. \A s \in sessions : /\ fdToSession'[s.clientFd] = fdToSession[s.clientFd]
                            /\ fdToSession'[s.upstreamFd] = fdToSession[s.upstreamFd]
    BY <1>1, <1>3, <1>7, <2>1 DEF PublishStep
  <2> QED
    BY <1>2, <1>7, <2>2 DEF PublishStep
<1>8. ASSUME NEW gone \in detached, EndStep(gone)
      PROVE  Pending'
  <2>1. \A s \in sessions : /\ gone.clientFd # s.clientFd /\ gone.clientFd # s.upstreamFd
                            /\ gone.upstreamFd # s.clientFd /\ gone.upstreamFd # s.upstreamFd
    BY DetachedApart
  <2>2. \A s \in sessions : /\ fdTable'[s.clientFd] = fdTable[s.clientFd]
                            /\ fdTable'[s.upstreamFd] = fdTable[s.upstreamFd]
    BY <1>3, <1>8, <2>1 DEF EndStep, Closed
  <2> QED
    BY <1>2, <1>8, <2>2 DEF EndStep
<1>9. ASSUME NEW gone \in SUBSET sessions, UnpublishStep(gone)
      PROVE  Pending'
  BY <1>9 DEF UnpublishStep, Pending
<1>10. ASSUME NEW ready \in SUBSET Fds, PollStep(ready)
       PROVE  Pending'
  <2> SUFFICES ASSUME NEW e \in batch', e # WakeEvent
               PROVE  e[2] = fdTable'[e[1]] /\ fdToSession'[e[1]] = e[2][1] /\ e[2] # None
    BY DEF Pending, WakeEvent
  <2>1. PICK fd \in ready : e = <<fd, fdTable[fd]>>
    BY <1>10 DEF PollStep
  <2>2. e[1] = fd /\ e[2] = fdTable[fd] /\ fdToSession[fd] # None
    BY <1>10, <2>1 DEF PollStep
  <2>3. PICK s \in sessions : /\ fdToSession[fd] = s.id
                              /\ fdTable[fd] = <<s.id, "client">> \/ fdTable[fd] = <<s.id, "upstream">>
    BY <2>2, Indexed
  <2>4. s.id \in Clients
    BY SessionTyped DEF Objects
  <2> QED
    BY <1>10, <2>2, <2>3, <2>4, ConnOpen DEF PollStep
<1>11. CASE KeepStep \/ \E s \in detached : RejectStep(s)
  BY <1>2, <1>11 DEF KeepStep, RejectStep
<1> QED
  BY <1>4, <1>5, <1>6, <1>7, <1>8, <1>9, <1>10, <1>11 DEF Effect

(* A session that is not published is in no index entry.                   *)
LEMMA DetachedNotIndexed ==
  ASSUME Shape, Ledger, Split, IndexSound, NEW s \in detached
  PROVE  /\ s.clientFd \in Fds /\ fdToSession[s.clientFd] = None
         /\ s.upstreamFd \in Fds /\ fdToSession[s.upstreamFd] = None
<1>1. s.clientFd \in Fds /\ s.upstreamFd \in Fds
  BY SessionTyped DEF Objects
<1>2. fdToSession[s.clientFd] = None
  <2> SUFFICES ASSUME fdToSession[s.clientFd] # None PROVE FALSE
    OBVIOUS
  <2>1. PICK t \in sessions : s.clientFd = t.clientFd \/ s.clientFd = t.upstreamFd
    BY <1>1, Indexed
  <2> QED
    BY <2>1, DetachedApart
<1>3. fdToSession[s.upstreamFd] = None
  <2> SUFFICES ASSUME fdToSession[s.upstreamFd] # None PROVE FALSE
    OBVIOUS
  <2>1. PICK t \in sessions : s.upstreamFd = t.clientFd \/ s.upstreamFd = t.upstreamFd
    BY <1>1, Indexed
  <2> QED
    BY <2>1, DetachedApart
<1> QED
  BY <1>1, <1>2, <1>3

(* Every step keeps epoll and the index in agreement: a registration that  *)
(* fails half-way is undone, and a session leaves both together.           *)
LEMMA WatchedStep ==
  ASSUME ControlInv, Ledger, Split, IndexSound, Watched, [Next]_vars
  PROVE  Watched'
<1> USE DEF ControlInv
<1>1. fdToSession \in [Fds -> Clients \cup {None}]
  BY DEF Shape
<1>2. CASE UNCHANGED <<interest, fdToSession, workerPc, detached>>
  BY <1>2 DEF Watched
<1>3. ASSUME UNCHANGED <<interest, fdToSession>>, workerPc # "publish", workerPc' # "publish"
      PROVE  Watched'
  BY <1>3 DEF Watched
<1>4. CASE Main \/ Joined \/ UNCHANGED vars
  BY <1>2, <1>4
  DEF Main, Accept, ConfigureFails, EnqueueRefused, RejectHeld, EnqueuePush, EnqueueSignal, StopFlag,
      StopSignal, Join, Joined, workerVars, published, vars
<1>5. CASE \/ CheckRunning \/ DispatchWake \/ DropStopped \/ TakeUp \/ AcquireFails \/ AcquireLease
           \/ ConnectFails \/ FinishDrain \/ Released
  BY <1>3, <1>5
  DEF CheckRunning, DispatchWake, DropStopped, Draining, TakeUp, AcquireFails, AcquireLease, ConnectFails,
      CloseClient, FinishDrain, Released, Releasing, published
<1>6. CASE \/ \E ready \in SUBSET Fds : EpollWait(ready)
           \/ \E e \in batch, alive \in BOOLEAN : DispatchSocket(e, alive)
           \/ \E exiting \in BOOLEAN : SwapQueue(exiting)
           \/ \E fd \in Fds : ConnectStarts(fd)
  BY <1>3, <1>6 DEF EpollWait, DispatchSocket, RunHandler, SwapQueue, ConnectStarts, published
<1>7. ASSUME NEW s \in detached, RegisterClient(s)
      PROVE  Watched'
  <2>1. detached = {s} /\ workerPc = "register" /\ workerPc' = "publish"
    BY <1>7 DEF RegisterClient, Control
  <2>2. /\ interest' = interest \cup {s.clientFd} /\ detached' = detached
        /\ fdToSession' = fdToSession
    BY <1>7 DEF RegisterClient, published
  <2> QED
    BY <2>1, <2>2 DEF Watched
<1>8. ASSUME NEW s \in detached, RegisterFails(s)
      PROVE  Watched'
  <2>1. detached = {s} /\ workerPc' = "discard" /\ fdToSession' = fdToSession
    BY <1>8 DEF RegisterFails, Control, published
  <2>2. interest' = interest \ {s.clientFd, s.upstreamFd}
    BY <1>8 DEF RegisterFails, Sockets
  <2> QED
    BY <2>1, <2>2, DetachedNotIndexed DEF Watched
<1>9. ASSUME NEW s \in detached, PublishSession(s)
      PROVE  Watched'
  <2>1. detached = {s} /\ workerPc = "publish" /\ workerPc' = "drain"
    BY <1>9 DEF PublishSession, Control
  <2>2. s.id \in Clients /\ s.clientFd \in Fds /\ s.upstreamFd \in Fds /\ s.id # None
    BY SessionTyped DEF Objects
  <2>3. \A g \in Fds : fdToSession'[g] = IF g = s.clientFd \/ g = s.upstreamFd THEN s.id ELSE fdToSession[g]
    BY <1>1, <1>9, <2>2 DEF PublishSession
  <2>4. interest' = interest \cup {s.upstreamFd}
    BY <1>9 DEF PublishSession
  <2> QED
    BY <2>1, <2>2, <2>3, <2>4 DEF Watched
<1>10. ASSUME NEW s \in detached, Destroy(s)
       PROVE  Watched'
  <2>1. workerPc # "publish" /\ workerPc' # "publish" /\ fdToSession' = fdToSession
    BY <1>10 DEF Destroy, Releasing, published
  <2>2. interest' = interest \ {s.clientFd, s.upstreamFd}
    BY <1>10 DEF Destroy
  <2> QED
    BY <2>1, <2>2, DetachedNotIndexed DEF Watched
<1>11. ASSUME NEW gone, CloseSessions(gone), workerPc # "publish", workerPc' # "publish"
       PROVE  Watched'
  <2>1. interest' = interest \ Sockets(gone)
    BY <1>11 DEF CloseSessions
  <2>2. \A g \in Fds : fdToSession'[g] = IF g \in Sockets(gone) THEN None ELSE fdToSession[g]
    BY <1>11 DEF CloseSessions, Closed
  <2> QED
    BY <1>11, <2>1, <2>2 DEF Watched
<1>12. CASE Exit \/ \E expired \in SUBSET sessions : EndBatch(expired)
  BY <1>11, <1>12 DEF Exit, EndBatch
<1> QED
  BY <1>4, <1>5, <1>6, <1>7, <1>8, <1>9, <1>10, <1>12 DEF Next, WorkerStep

(* Who holds a lease: the session objects, and createSession() while it    *)
(* tries to connect.                                                       *)
LeaseInv == leases = {s.id : s \in Objects} \cup Connecting

(* Every step keeps it: each failure path and each destructor gives back   *)
(* the lease of its own client and of no other.                            *)
LEMMA LeaseStep ==
  ASSUME ControlInv, Ledger, Split, LeaseInv, [Next]_vars
  PROVE  LeaseInv'
<1> USE DEF ControlInv
<1>1. ASSUME UNCHANGED leases, Objects' = Objects, Connecting' = Connecting
      PROVE  LeaseInv'
  BY <1>1 DEF LeaseInv
<1>2. /\ workerPc # "connect" => Connecting = {}
      /\ workerPc' # "connect" => Connecting' = {}
      /\ workerPc = "connect" => Connecting = {Head(local).client}
      /\ workerPc' = "connect" => Connecting' = {Head(local').client}
  BY DEF Connecting
<1>3. CASE Main \/ Joined \/ UNCHANGED vars
  <2>1. UNCHANGED <<leases, sessions, detached, workerPc, local>>
    BY <1>3
    DEF Main, Accept, ConfigureFails, EnqueueRefused, RejectHeld, EnqueuePush, EnqueueSignal, StopFlag,
        StopSignal, Join, Joined, workerVars, published, vars
  <2> QED
    BY <1>1, <2>1 DEF Objects, Connecting
<1>4. CASE \/ CheckRunning \/ DispatchWake \/ DropStopped \/ TakeUp \/ AcquireFails \/ FinishDrain \/ Released
           \/ \E ready \in SUBSET Fds : EpollWait(ready)
           \/ \E e \in batch, alive \in BOOLEAN : DispatchSocket(e, alive)
           \/ \E exiting \in BOOLEAN : SwapQueue(exiting)
           \/ \E s \in detached : RegisterClient(s) \/ RegisterFails(s)
  <2>1. UNCHANGED <<leases, sessions, detached>>
    BY <1>4
    DEF CheckRunning, DispatchWake, DropStopped, TakeUp, AcquireFails, CloseClient, FinishDrain, Released,
        EpollWait, DispatchSocket, RunHandler, SwapQueue, RegisterClient, RegisterFails, published
  <2>2. workerPc # "connect" /\ workerPc' # "connect"
    BY <1>4
    DEF CheckRunning, DispatchWake, DropStopped, Draining, TakeUp, AcquireFails, CloseClient, FinishDrain,
        Released, Releasing, EpollWait, DispatchSocket, SwapQueue, RegisterClient, RegisterFails
  <2> QED
    BY <1>1, <1>2, <2>1, <2>2 DEF Objects
<1>5. CASE AcquireLease
  <2>1. /\ workerPc = "create" /\ workerPc' = "connect" /\ local' = local
        /\ leases' = leases \cup {Head(local).client} /\ UNCHANGED <<sessions, detached>>
    BY <1>5 DEF AcquireLease, published
  <2> QED
    BY <1>2, <2>1 DEF LeaseInv, Objects
<1>6. CASE ConnectFails
  <2>1. /\ workerPc = "connect" /\ workerPc' = "drain" /\ local # << >>
        /\ leases' = leases \ {Head(local).client} /\ UNCHANGED <<sessions, detached>>
    BY <1>6 DEF ConnectFails, CloseClient, Control, published
  <2>2. Head(local) \in Waiting
    BY <2>1, HeadTailProperties, LenProperties DEF Shape, Waiting, ToSet
  <2>3. \A s \in Objects : s.id # Head(local).client
    BY <2>2, SocketsApart
  <2>4. Objects' = Objects
    BY <2>1 DEF Objects
  <2> QED
    BY <1>2, <2>1, <2>3, <2>4 DEF LeaseInv
<1>7. ASSUME NEW fd \in Fds, ConnectStarts(fd)
      PROVE  LeaseInv'
  <2> DEFINE new == [id |-> Head(local).client, clientFd |-> Head(local).fd, upstreamFd |-> fd]
  <2>1. /\ workerPc = "connect" /\ workerPc' = "register" /\ detached' = {new} /\ detached = {}
        /\ sessions' = sessions /\ leases' = leases /\ new.id = Head(local).client
    BY <1>7 DEF ConnectStarts, Control, published
  <2> HIDE DEF new
  <2>2. Objects' = Objects \cup {new}
    BY <2>1 DEF Objects
  <2> QED
    BY <1>2, <2>1, <2>2 DEF LeaseInv
<1>8. ASSUME NEW s \in detached, PublishSession(s)
      PROVE  LeaseInv'
  <2>1. detached = {s} /\ detached' = {} /\ sessions' = sessions \cup {s} /\ leases' = leases
    BY <1>8 DEF PublishSession, Control
  <2>2. workerPc # "connect" /\ workerPc' # "connect"
    BY <1>8 DEF PublishSession
  <2> QED
    BY <1>1, <1>2, <2>1, <2>2 DEF Objects
<1>9. CASE Exit \/ \E expired \in SUBSET sessions : EndBatch(expired)
  <2>1. PICK gone \in SUBSET sessions : CloseSessions(gone)
    BY <1>9 DEF Exit, Remaining, EndBatch
  <2>2. workerPc # "connect" /\ workerPc' # "connect" /\ leases' = leases
    BY <1>9 DEF Exit, EndBatch
  <2>3. Objects' = Objects
    BY <2>1 DEF CloseSessions, Objects
  <2> QED
    BY <1>1, <1>2, <2>2, <2>3
<1>10. ASSUME NEW s \in detached, Destroy(s)
       PROVE  LeaseInv'
  <2>1. /\ workerPc # "connect" /\ workerPc' # "connect" /\ leases' = leases \ {s.id}
        /\ detached' = detached \ {s} /\ sessions' = sessions
    BY <1>10 DEF Destroy, Releasing, published
  <2>2. Objects' = Objects \ {s} /\ s \in Objects
    BY <2>1 DEF Objects, Split
  <2>3. \A t \in Objects : t.id = s.id => t = s
    BY <2>2, SameSession
  <2> QED
    BY <1>2, <2>1, <2>2, <2>3 DEF LeaseInv
<1> QED
  BY <1>3, <1>4, <1>5, <1>6, <1>7, <1>8, <1>9, <1>10 DEF Next, WorkerStep

(* A stuttering step has the effect of a step that keeps everything.       *)
LEMMA EffectStutter ==
  ASSUME UNCHANGED vars, Apart
  PROVE  Apart' /\ Effect
<1>1. Apart' /\ KeepStep
  BY DEF vars, Apart, KeepStep, Waiting, Total, Registering
<1> QED
  BY <1>1 DEF Effect

(* Every step has one of the nine effects.                                 *)
LEMMA EffectNext ==
  ASSUME ControlInv, Apart, Ledger, Watched, [Next]_vars
  PROVE  Apart' /\ Effect
BY EffectMain, EffectWorker, EffectStutter DEF Next, Joined

(* The second layer.                                                       *)
OwnerInv == Apart /\ Ledger /\ Split /\ IndexSound /\ Watched /\ Pending /\ LeaseInv

(* It holds initially.                                                     *)
LEMMA OwnerInit == Init => OwnerInv
<1> SUFFICES ASSUME Init PROVE OwnerInv
  OBVIOUS
<1>1. held = << >> /\ queue = << >> /\ local = << >> /\ Waiting = {} /\ Apart
  BY SetOfNothing DEF Init, Waiting, Apart
<1>2. \A fd \in Fds : fdTable[fd] = None /\ fdToSession[fd] = None
  BY DEF Init
<1>3. Objects = {} /\ Connecting = {}
  BY DEF Init, Objects, Connecting
<1>4. Ledger
  BY <1>1, <1>2, <1>3, ConnOpen DEF Init, Ledger
<1>5. IndexSound /\ Pending /\ Split /\ Watched
  BY <1>2 DEF Init, IndexSound, Pending, Split, Watched
<1>6. LeaseInv
  BY <1>3 DEF Init, LeaseInv
<1> QED
  BY <1>1, <1>4, <1>5, <1>6 DEF OwnerInv

-----------------------------------------------------------------------------
(* The descriptors in use.                                                 *)
OpenFds == Fds \ FreeFds

(* The third layer: activeSessions_ and the active metric count the        *)
(* published sessions, every accepted client is accounted for, and the     *)
(* open descriptors are one for each waiting client and two for each       *)
(* session object.                                                         *)
CountInv ==
  /\ activeSessions = Cardinality(sessions) /\ metrics.active = activeSessions
  /\ metrics.accepted = Total + Cardinality(Registering)
                          + metrics.rejected + metrics.dropped + metrics.opened
  /\ metrics.connectFailures <= metrics.rejected
  /\ Total + 2 * Cardinality(Objects) = Cardinality(OpenFds)

(* The descriptors in use are finitely many.                               *)
LEMMA OpenFdsTyped ==
  /\ IsFiniteSet(OpenFds) /\ Cardinality(OpenFds) \in Nat
  /\ \A fd : fd \in OpenFds <=> fd \in Fds /\ fdTable[fd] # None
<1>1. OpenFds \subseteq Fds
  BY DEF OpenFds
<1> QED
  BY <1>1, FS_Subset, FS_CardinalityType DEF OpenFds, FreeFds

(* The same after a step.                                                  *)
LEMMA OpenFdsTypedNext ==
  \A fd : fd \in OpenFds' <=> fd \in Fds /\ fdTable'[fd] # None
BY DEF OpenFds, FreeFds

(* The sets that are counted are finite.                                   *)
LEMMA CountsTyped ==
  ASSUME Shape
  PROVE  /\ IsFiniteSet(sessions) /\ Cardinality(sessions) \in Nat
         /\ IsFiniteSet(Objects) /\ Cardinality(Objects) \in Nat
         /\ IsFiniteSet(Registering) /\ Cardinality(Registering) \in Nat
         /\ Total \in Nat /\ metrics \in Counters
         /\ metrics.rejected \in Nat /\ metrics.dropped \in Nat /\ metrics.opened \in Nat
         /\ metrics.accepted \in Nat /\ metrics.active \in Nat /\ metrics.connectFailures \in Nat
<1>1. IsFiniteSet(sessions) /\ IsFiniteSet(detached) /\ metrics \in Counters
  BY DEF Shape
<1>2. IsFiniteSet(Objects)
  BY <1>1, FS_Union DEF Objects
<1>3. IsFiniteSet(Registering)
  <2>1. Registering \subseteq detached
    BY DEF Registering
  <2> QED
    BY <1>1, <2>1, FS_Subset
<1>4. /\ metrics.rejected \in Nat /\ metrics.dropped \in Nat /\ metrics.opened \in Nat
      /\ metrics.accepted \in Nat /\ metrics.active \in Nat /\ metrics.connectFailures \in Nat
  BY <1>1 DEF Counters
<1> QED
  BY <1>1, <1>2, <1>3, <1>4, FS_CardinalityType, TotalTyped

(* Every effect keeps the counts. In particular onClosed() never meets a   *)
(* counter that is too small.                                              *)
LEMMA CountStep ==
  ASSUME Shape, Ledger, Split, CountInv, Effect
  PROVE  CountInv'
<1>1. Cardinality({}) = 0 /\ \A s : Cardinality({s}) = 1
  BY FS_EmptySet, FS_Singleton
<1>2. fdTable \in [Fds -> Conn \cup {None}]
  BY DEF Shape
<1>3. ASSUME NEW c \in Clients, NEW fd \in Fds, OpenStep(c, fd)
      PROVE  CountInv'
  <2>1. \A g : g \in OpenFds' <=> g \in OpenFds \cup {fd}
    BY <1>2, <1>3, ConnOpen, OpenFdsTyped, OpenFdsTypedNext DEF OpenStep
  <2>2. OpenFds' = OpenFds \cup {fd} /\ fd \notin OpenFds
    BY <1>3, <2>1, OpenFdsTyped DEF OpenStep
  <2>3. Cardinality(OpenFds') = Cardinality(OpenFds) + 1
    BY <2>2, OpenFdsTyped, FS_AddElement
  <2>4. Objects' = Objects
    BY <1>3, ObjectsStep
  <2>5. /\ Total' = Total + 1 /\ UNCHANGED <<sessions, activeSessions>> /\ Registering' = Registering
        /\ metrics'.active = metrics.active /\ metrics'.accepted = metrics.accepted + 1
        /\ metrics'.opened = metrics.opened /\ metrics'.rejected = metrics.rejected
        /\ metrics'.dropped = metrics.dropped /\ metrics'.connectFailures = metrics.connectFailures
    BY <1>3, CountsTyped, CountsAccepted DEF OpenStep
  <2> QED
    BY <2>3, <2>4, <2>5, CountsTyped, OpenFdsTyped DEF CountInv
<1>4. ASSUME NEW e \in Waiting, DropStep(e)
      PROVE  CountInv'
  <2>1. e.fd \in OpenFds
    <3>1. e.fd \in Fds /\ e.client \in Clients /\ fdTable[e.fd] = <<e.client, "client">>
      BY WaitingTyped DEF Ledger
    <3> QED
      BY <3>1, OpenFdsTyped, ConnOpen
  <2>2. \A g : g \in OpenFds' <=> g \in OpenFds \ {e.fd}
    BY <1>4, OpenFdsTyped, OpenFdsTypedNext DEF DropStep, Closed
  <2>3. OpenFds' = OpenFds \ {e.fd}
    BY <2>2
  <2>4. Cardinality(OpenFds') = Cardinality(OpenFds) - 1
    BY <2>1, <2>3, OpenFdsTyped, FS_RemoveElement
  <2>5. Objects' = Objects
    BY <1>4, ObjectsStep
  <2>6. Total' = Total - 1 /\ UNCHANGED <<sessions, activeSessions>> /\ Registering' = Registering
    BY <1>4 DEF DropStep
  <2>7. /\ metrics'.active = metrics.active /\ metrics'.accepted = metrics.accepted
        /\ metrics'.opened = metrics.opened
        /\ \/ /\ metrics'.rejected = metrics.rejected + 1 /\ metrics'.dropped = metrics.dropped
              /\ \/ metrics'.connectFailures = metrics.connectFailures
                 \/ metrics'.connectFailures = metrics.connectFailures + 1
           \/ /\ metrics'.rejected = metrics.rejected /\ metrics'.dropped = metrics.dropped + 1
              /\ metrics'.connectFailures = metrics.connectFailures
    BY <1>4, CountsTyped, CountsRejected, CountsConnectFailure, CountsDropped DEF DropStep
  <2> QED
    BY <2>4, <2>5, <2>6, <2>7, CountsTyped, OpenFdsTyped DEF CountInv
<1>5. ASSUME NEW e \in Waiting, NEW fd \in Fds, ServeStep(e, fd)
      PROVE  CountInv'
  <2> DEFINE new == [id |-> e.client, clientFd |-> e.fd, upstreamFd |-> fd]
  <2>1. \A g : g \in OpenFds' <=> g \in OpenFds \cup {fd}
    BY <1>2, <1>5, WaitingTyped, ConnOpen, OpenFdsTyped, OpenFdsTypedNext DEF ServeStep
  <2>2. OpenFds' = OpenFds \cup {fd} /\ fd \notin OpenFds
    BY <1>5, <2>1, OpenFdsTyped DEF ServeStep
  <2>3. Cardinality(OpenFds') = Cardinality(OpenFds) + 1
    BY <2>2, OpenFdsTyped, FS_AddElement
  <2>4. new \notin Objects
    <3>1. new.upstreamFd = fd
      OBVIOUS
    <3> QED
      BY <1>5, <3>1, FreeIsNoSocket DEF ServeStep
  <2>5. Objects' = Objects \cup {new}
    BY <1>5, ObjectsStep
  <2>6. Registering = {} /\ Registering' = {new}
    BY <1>5 DEF ServeStep
  <2> HIDE DEF new
  <2>7. Cardinality(Objects') = Cardinality(Objects) + 1
    BY <2>4, <2>5, CountsTyped, FS_AddElement
  <2>8. Cardinality(Registering) = 0 /\ Cardinality(Registering') = 1
    BY <1>1, <2>6
  <2>9. Total' = Total - 1 /\ UNCHANGED <<sessions, activeSessions, metrics>>
    BY <1>5 DEF ServeStep
  <2>10. Total' + 2 * Cardinality(Objects') = Cardinality(OpenFds')
    BY <2>3, <2>7, <2>9, CountsTyped, OpenFdsTyped DEF CountInv
  <2>11. Total' + Cardinality(Registering') = Total + Cardinality(Registering)
    BY <2>8, <2>9, CountsTyped
  <2>12. metrics.accepted = Total' + Cardinality(Registering')
                              + metrics.rejected + metrics.dropped + metrics.opened
    BY <2>11 DEF CountInv
  <2> QED
    BY <2>9, <2>10, <2>12 DEF CountInv
<1>6. ASSUME NEW s \in detached, RejectStep(s)
      PROVE  CountInv'
  <2>1. Objects' = Objects
    BY <1>6, ObjectsStep
  <2>2. Cardinality(Registering) = 1 /\ Cardinality(Registering') = 0
    BY <1>1, <1>6 DEF RejectStep
  <2>3. /\ Total' = Total /\ UNCHANGED <<sessions, activeSessions, fdTable>>
        /\ metrics'.active = metrics.active /\ metrics'.accepted = metrics.accepted
        /\ metrics'.opened = metrics.opened /\ metrics'.rejected = metrics.rejected + 1
        /\ metrics'.dropped = metrics.dropped /\ metrics'.connectFailures = metrics.connectFailures
    BY <1>6, CountsTyped, CountsRejected DEF RejectStep
  <2>4. OpenFds' = OpenFds
    BY <2>3 DEF OpenFds, FreeFds
  <2> QED
    BY <2>1, <2>2, <2>3, <2>4, CountsTyped DEF CountInv
<1>7. ASSUME NEW s \in detached, PublishStep(s)
      PROVE  CountInv'
  <2>1. Objects' = Objects
    BY <1>7, ObjectsStep
  <2>2. Cardinality(Registering) = 1 /\ Cardinality(Registering') = 0
    BY <1>1, <1>7 DEF PublishStep
  <2>3. /\ Total' = Total /\ activeSessions' = activeSessions + 1 /\ fdTable' = fdTable
        /\ metrics'.active = metrics.active + 1 /\ metrics'.accepted = metrics.accepted
        /\ metrics'.opened = metrics.opened + 1 /\ metrics'.rejected = metrics.rejected
        /\ metrics'.dropped = metrics.dropped /\ metrics'.connectFailures = metrics.connectFailures
    BY <1>7, CountsTyped, CountsOpened DEF PublishStep
  <2>4. sessions' = sessions \cup {s} /\ s \notin sessions
    BY <1>7 DEF PublishStep, Split
  <2>5. Cardinality(sessions') = Cardinality(sessions) + 1
    BY <2>4, CountsTyped, FS_AddElement
  <2>6. OpenFds' = OpenFds
    BY <2>3 DEF OpenFds, FreeFds
  <2> QED
    BY <2>1, <2>2, <2>3, <2>5, <2>6, CountsTyped DEF CountInv
<1>8. ASSUME NEW s \in detached, EndStep(s)
      PROVE  CountInv'
  <2>1. Objects' = Objects \ {s} /\ s \in Objects
    BY <1>8, ObjectsStep
  <2>2. Cardinality(Objects') = Cardinality(Objects) - 1
    BY <2>1, CountsTyped, FS_RemoveElement
  <2>3. s.clientFd \in OpenFds /\ s.upstreamFd \in OpenFds /\ s.clientFd # s.upstreamFd
    <3>1. fdTable[s.clientFd] = <<s.id, "client">> /\ fdTable[s.upstreamFd] = <<s.id, "upstream">>
      BY <2>1 DEF Ledger
    <3> QED
      BY <2>1, <3>1, OpenFdsTyped, SessionTyped, ConnOpen, SocketsApart
  <2>4. \A g : g \in OpenFds' <=> g \in (OpenFds \ {s.clientFd}) \ {s.upstreamFd}
    BY <1>8, OpenFdsTyped, OpenFdsTypedNext DEF EndStep, Closed
  <2>5. OpenFds' = (OpenFds \ {s.clientFd}) \ {s.upstreamFd}
    BY <2>4
  <2>6. /\ IsFiniteSet(OpenFds \ {s.clientFd})
        /\ Cardinality(OpenFds \ {s.clientFd}) = Cardinality(OpenFds) - 1
    BY <2>3, OpenFdsTyped, FS_RemoveElement
  <2>7. Cardinality((OpenFds \ {s.clientFd}) \ {s.upstreamFd}) = Cardinality(OpenFds \ {s.clientFd}) - 1
    BY <2>3, <2>6, FS_RemoveElement
  <2>8. Cardinality(OpenFds') = Cardinality(OpenFds) - 2
    BY <2>5, <2>6, <2>7, OpenFdsTyped
  <2>9. /\ Total' = Total /\ UNCHANGED <<sessions, activeSessions, metrics>>
        /\ Registering' = Registering
    BY <1>8 DEF EndStep
  <2> QED
    BY <2>2, <2>8, <2>9, CountsTyped, OpenFdsTyped DEF CountInv
<1>9. ASSUME NEW gone \in SUBSET sessions, UnpublishStep(gone)
      PROVE  CountInv'
  <2>1. /\ sessions' = sessions \ gone /\ activeSessions' = activeSessions - Cardinality(gone)
        /\ metrics' = onClosed(Cardinality(gone)) /\ fdTable' = fdTable /\ Total' = Total
        /\ Registering' = Registering
    BY <1>9 DEF UnpublishStep, CloseSessions
  <2>2. IsFiniteSet(gone) /\ Cardinality(gone) \in Nat /\ Cardinality(gone) <= Cardinality(sessions)
    BY CountsTyped, FS_Subset, FS_CardinalityType
  <2>3. Cardinality(sessions') = Cardinality(sessions) - Cardinality(gone)
    <3>1. sessions \cap gone = gone
      OBVIOUS
    <3> QED
      BY <2>1, <3>1, CountsTyped, FS_Difference
  <2>4. Objects' = Objects
    BY <1>9, ObjectsStep
  <2>5. OpenFds' = OpenFds
    BY <2>1 DEF OpenFds, FreeFds
  <2>6. /\ metrics'.active = metrics.active - Cardinality(gone)
        /\ metrics'.accepted = metrics.accepted /\ metrics'.rejected = metrics.rejected
        /\ metrics'.opened = metrics.opened /\ metrics'.dropped = metrics.dropped
        /\ metrics'.connectFailures = metrics.connectFailures
    BY <2>1, <2>2, CountsTyped, CountsClosed DEF CountInv
  <2> QED
    BY <2>1, <2>2, <2>3, <2>4, <2>5, <2>6, CountsTyped DEF CountInv
<1>10. CASE KeepStep \/ \E ready \in SUBSET Fds : PollStep(ready)
  <2>1. /\ UNCHANGED <<fdTable, sessions, activeSessions, metrics>> /\ Total' = Total
        /\ Registering' = Registering
    BY <1>10 DEF KeepStep, PollStep
  <2>2. Objects' = Objects
    BY <1>10, ObjectsStep
  <2> QED
    BY <2>1, <2>2 DEF CountInv, OpenFds, FreeFds
<1> QED
  BY <1>3, <1>4, <1>5, <1>6, <1>7, <1>8, <1>9, <1>10 DEF Effect

(* The inductive invariant.                                                *)
WorkerInv == ControlInv /\ OwnerInv /\ CountInv

(* It holds initially.                                                     *)
LEMMA WorkerInit == Init => WorkerInv
<1> SUFFICES ASSUME Init PROVE WorkerInv
  OBVIOUS
<1>1. ControlInv
  BY ShapeInit
<1>2. OwnerInv
  BY OwnerInit
<1>3. Total = 0
  BY EmptySeq DEF Init, Total
<1>4. OpenFds = {}
  BY OpenFdsTyped DEF Init
<1>5. Cardinality({}) = 0
  BY FS_EmptySet
<1>6. /\ metrics.active = 0 /\ metrics.accepted = 0 /\ metrics.rejected = 0
      /\ metrics.opened = 0 /\ metrics.dropped = 0 /\ metrics.connectFailures = 0
  BY DEF Init
<1>7. Objects = {} /\ Registering = {}
  BY DEF Init, Objects, Registering
<1>8. CountInv
  BY <1>3, <1>4, <1>5, <1>6, <1>7 DEF Init, CountInv
<1> QED
  BY <1>1, <1>2, <1>8 DEF WorkerInv

(* Every step preserves it.                                                *)
LEMMA WorkerNext ==
  ASSUME WorkerInv, [Next]_vars
  PROVE  WorkerInv'
<1>1. ControlInv'
  BY ControlNext DEF WorkerInv
<1>2. Apart' /\ Effect
  BY EffectNext DEF WorkerInv, OwnerInv
<1>3. Ledger' /\ Split' /\ IndexSound' /\ Pending'
  BY <1>2, LedgerStep, SplitStep, IndexStep, PendingStep DEF WorkerInv, OwnerInv, ControlInv
<1>4. Watched' /\ LeaseInv'
  BY WatchedStep, LeaseStep DEF WorkerInv, OwnerInv
<1>5. CountInv'
  BY <1>2, CountStep DEF WorkerInv, OwnerInv, ControlInv
<1> QED
  BY <1>1, <1>2, <1>3, <1>4, <1>5 DEF WorkerInv, OwnerInv

(* The inductive invariant holds in every reachable state.                 *)
THEOREM Invariance == Spec => []WorkerInv
BY WorkerInit, WorkerNext, PTL DEF Spec

(* TypeOK always holds: in particular activeSessions_ never goes below     *)
(* zero, and the queue never exceeds its limit.                            *)
THEOREM TypeCorrect == Spec => []TypeOK
<1>1. ASSUME WorkerInv
      PROVE  TypeOK
  <2> USE <1>1 DEF WorkerInv, ControlInv, OwnerInv
  <2>1. Len(held) <= 1
    BY DEF Control
  <2>2. batch \subseteq (Fds \X Conn) \cup {WakeEvent}
    <3> SUFFICES ASSUME NEW e \in batch, e # WakeEvent
                 PROVE  e \in Fds \X Conn
      OBVIOUS
    <3>1. e \in Fds \X (Conn \cup {None})
      BY DEF Shape
    <3>2. e[2] # None
      BY DEF Pending
    <3> QED
      BY <3>1, <3>2
  <2>3. activeSessions \in Nat
    BY FS_CardinalityType DEF CountInv, Shape
  <2> QED
    BY <2>1, <2>2, <2>3 DEF Shape, Counters, TypeOK
<1> QED
  BY <1>1, Invariance, PTL

(* NoLostWakeup always holds: a worker that waits in epoll_wait() with a   *)
(* client queued or a stop requested will find the eventfd readable.       *)
THEOREM WakeupsArrive == Spec => []NoLostWakeup
<1>1. WorkerInv => NoLostWakeup
  BY DEF WorkerInv, ControlInv, Wakeups, NoLostWakeup
<1> QED
  BY <1>1, Invariance, PTL

(* IndexMatchesSessions always holds: fdToSession_ and sessions_ describe  *)
(* the same sessions, and a waiting worker watches exactly their sockets,  *)
(* through creation, failed registration, expiry and closing.              *)
THEOREM IndexCorrect == Spec => []IndexMatchesSessions
<1>1. WorkerInv => IndexMatchesSessions
  BY DEF WorkerInv, OwnerInv, IndexSound, Watched, IndexMatchesSessions
<1> QED
  BY <1>1, Invariance, PTL

(* EventsKeepTheirSocket always holds: no event of a batch is dispatched   *)
(* to a socket that took over a closed number.                             *)
THEOREM EventsCorrect == Spec => []EventsKeepTheirSocket
<1>1. WorkerInv => EventsKeepTheirSocket
  BY DEF WorkerInv, OwnerInv, Pending, EventsKeepTheirSocket
<1> QED
  BY <1>1, Invariance, PTL

(* The sequence InFlight and the set of waiting clients.                   *)
LEMMA InFlightIsWaiting ==
  ASSUME Shape
  PROVE  /\ ToSet(InFlight) = Waiting /\ Len(InFlight) = Total
         /\ ToSet(queue \o local) = ToSet(queue) \cup ToSet(local)
         /\ ToSet(queue \o local) \subseteq Waiting
<1> DEFINE front == held \o queue
<1>1. held \in Seq(Entry) /\ queue \in Seq(Entry) /\ local \in Seq(Entry)
  BY DEF Shape
<1>2. /\ held \o queue \in Seq(Entry) /\ Len(held \o queue) = Len(held) + Len(queue)
      /\ ToSet(held \o queue) = ToSet(held) \cup ToSet(queue)
  BY <1>1, ConcatProperties, SetOfConcat
<1>3. /\ front \in Seq(Entry) /\ Len(front) = Len(held) + Len(queue)
      /\ ToSet(front) = ToSet(held) \cup ToSet(queue)
      /\ InFlight = front \o local
  BY <1>2 DEF InFlight
<1> HIDE DEF front
<1>4. Len(front \o local) = Len(front) + Len(local)
  BY <1>1, <1>3, ConcatProperties
<1>5. ToSet(front \o local) = ToSet(front) \cup ToSet(local)
  BY <1>1, <1>3, SetOfConcat
<1>6. ToSet(queue \o local) = ToSet(queue) \cup ToSet(local)
  BY <1>1, SetOfConcat
<1> QED
  BY <1>3, <1>6, <1>4, <1>5 DEF Waiting, Total

(* CountsAgree always holds: no path of accepting, rejecting, dropping or  *)
(* serving a client counts it twice or not at all, and each lease taken is *)
(* held by a session object or by a connect that is being tried, whichever *)
(* of the three ways createSession() fails and whoever drops the session.  *)
THEOREM CountsCorrect == Spec => []CountsAgree
<1>1. ASSUME WorkerInv
      PROVE  CountsAgree
  <2>1. Shape /\ CountInv /\ LeaseInv
    BY <1>1 DEF WorkerInv, ControlInv, OwnerInv
  <2>2. Len(InFlight) = Total
    BY <2>1, InFlightIsWaiting
  <2> QED
    BY <2>1, <2>2 DEF CountInv, LeaseInv, CountsAgree
<1> QED
  BY <1>1, Invariance, PTL

(* OneOwnerPerFd always holds: no descriptor is leaked, closed twice or    *)
(* used after its number went to somebody else, whether main, a failing    *)
(* createSession() or the session's destructor closes it.                  *)
THEOREM OwnersCorrect == Spec => []OneOwnerPerFd
<1>1. ASSUME WorkerInv
      PROVE  OneOwnerPerFd
  <2> USE <1>1 DEF WorkerInv, ControlInv, OwnerInv
  <2>1. Len(InFlight) + 2 * Cardinality(Objects) = Cardinality(Fds \ FreeFds)
    BY InFlightIsWaiting DEF CountInv, OpenFds
  <2>2. ASSUME NEW o \in Owned
        PROVE  o \in {<<fd, fdTable[fd]>> : fd \in Fds \ FreeFds}
    <3>1. CASE \E x \in Waiting : o = <<x.fd, <<x.client, "client">>>>
      <4>1. PICK x \in Waiting : o = <<x.fd, <<x.client, "client">>>>
        BY <3>1
      <4>2. x.fd \in Fds /\ fdTable[x.fd] = <<x.client, "client">> /\ fdTable[x.fd] # None
        BY WaitingTyped, ConnOpen DEF Ledger
      <4> QED
        BY <4>1, <4>2 DEF FreeFds
    <3>2. CASE \E s \in Objects : \/ o = <<s.clientFd, <<s.id, "client">>>>
                                  \/ o = <<s.upstreamFd, <<s.id, "upstream">>>>
      <4>1. PICK s \in Objects : \/ o = <<s.clientFd, <<s.id, "client">>>>
                                 \/ o = <<s.upstreamFd, <<s.id, "upstream">>>>
        BY <3>2
      <4>2. /\ s.clientFd \in Fds /\ fdTable[s.clientFd] = <<s.id, "client">> /\ fdTable[s.clientFd] # None
            /\ s.upstreamFd \in Fds /\ fdTable[s.upstreamFd] = <<s.id, "upstream">> /\ fdTable[s.upstreamFd] # None
        <5>1. fdTable[s.clientFd] = <<s.id, "client">> /\ fdTable[s.upstreamFd] = <<s.id, "upstream">>
          BY DEF Ledger
        <5> QED
          BY <5>1, SessionTyped, ConnOpen
      <4> QED
        BY <4>1, <4>2 DEF FreeFds
    <3> QED
      BY <2>2, <3>1, <3>2, InFlightIsWaiting DEF Owned
  <2>3. ASSUME NEW fd \in Fds \ FreeFds
        PROVE  <<fd, fdTable[fd]>> \in Owned
    <3>1. fdTable[fd] # None
      BY DEF FreeFds
    <3>2. CASE \E x \in Waiting : x.fd = fd
      <4>1. PICK x \in Waiting : x.fd = fd
        BY <3>2
      <4>2. fdTable[fd] = <<x.client, "client">> /\ x \in ToSet(InFlight)
        BY <4>1, InFlightIsWaiting DEF Ledger
      <4>3. <<x.fd, <<x.client, "client">>>> \in Owned
        BY <4>2 DEF Owned
      <4> QED
        BY <4>1, <4>2, <4>3
    <3>3. CASE \E s \in Objects : fd = s.clientFd \/ fd = s.upstreamFd
      <4>1. PICK s \in Objects : fd = s.clientFd \/ fd = s.upstreamFd
        BY <3>3
      <4>2. fdTable[s.clientFd] = <<s.id, "client">> /\ fdTable[s.upstreamFd] = <<s.id, "upstream">>
        BY DEF Ledger
      <4>3. <<s.clientFd, <<s.id, "client">>>> \in Owned /\ <<s.upstreamFd, <<s.id, "upstream">>>> \in Owned
        BY DEF Owned
      <4> QED
        BY <4>1, <4>2, <4>3
    <3> QED
      BY <3>1, <3>2, <3>3 DEF Ledger
  <2> QED
    BY <2>1, <2>2, <2>3 DEF OneOwnerPerFd
<1> QED
  BY <1>1, Invariance, PTL

-----------------------------------------------------------------------------
(* The refinement mapping: the clients in the two queues, who are all of   *)
(* Queued but for the one being registered.                                *)
Fed == {x.client : x \in ToSet(queue \o local)}

(* The clients with a session.                                             *)
Open == {s.id : s \in sessions}

(* Queued and its parts, before and after a step.                          *)
LEMMA QueuedParts ==
  /\ Queued = Fed \cup {s.id : s \in Registering}
  /\ Queued' = Fed' \cup {s.id : s \in Registering'}
BY DEF Queued, Fed

(* There are never more clients in the queues than places.                 *)
LEMMA FedBound ==
  ASSUME Shape
  PROVE  IsFiniteSet(Fed) /\ Cardinality(Fed) <= Len(queue) + Len(local)
<1> DEFINE q == queue \o local
           f == [i \in 1..Len(q) |-> q[i].client]
<1>1. q \in Seq(Entry) /\ Len(q) = Len(queue) + Len(local) /\ Len(q) \in Nat
  BY ConcatProperties, LenProperties DEF Shape
<1>2. Fed = {x.client : x \in ToSet(q)}
  BY DEF Fed
<1> HIDE DEF q
<1>3. DOMAIN q = 1..Len(q)
  BY <1>1, LenProperties
<1>4. f \in Surjection(1..Len(q), Fed)
  BY <1>1, <1>2, <1>3 DEF Surjection, ToSet
<1>5. IsFiniteSet(1..Len(q)) /\ Cardinality(1..Len(q)) = Len(q)
  BY <1>1, FS_Interval
<1> HIDE DEF f
<1>6. IsFiniteSet(Fed) /\ Cardinality(Fed) <= Cardinality(1..Len(q))
  BY <1>4, <1>5, FS_Surjection
<1> QED
  BY <1>1, <1>5, <1>6

(* The client being registered has left its place in the drained queue, so *)
(* that enqueue() finds fewer than two queues full.                        *)
LEMMA QueuedBound ==
  ASSUME Shape, Control, Len(queue) < QueueLimit
  PROVE  Cardinality(Queued) < 2 * QueueLimit
<1>1. /\ IsFiniteSet(Fed) /\ Cardinality(Fed) <= Len(queue) + Len(local) /\ Cardinality(Fed) \in Nat
      /\ Len(queue) \in Nat /\ Len(local) \in Nat /\ Len(local) <= QueueLimit
  BY FedBound, FS_CardinalityType, TotalTyped DEF Shape
<1>2. CASE workerPc \in {"register", "publish"}
  <2>1. PICK s \in Session : detached = {s}
    BY <1>2 DEF Control
  <2>2. Registering = {s} /\ Len(local) < QueueLimit
    BY <1>2, <2>1, RegisteringFacts DEF Control
  <2>3. Queued = Fed \cup {s.id}
    BY <2>2, QueuedParts
  <2>4. Cardinality(Fed \cup {s.id}) <= Cardinality(Fed) + 1
    <3>1. CASE s.id \in Fed
      <4>1. Fed \cup {s.id} = Fed
        BY <3>1
      <4>2. Cardinality(Fed \cup {s.id}) = Cardinality(Fed)
        BY <4>1, Zenon
      <4> QED
        BY <1>1, <4>2
    <3>2. CASE s.id \notin Fed
      <4>1. Cardinality(Fed \cup {s.id}) = Cardinality(Fed) + 1
        BY <1>1, <3>2, FS_AddElement
      <4> QED
        BY <1>1, <4>1
    <3> QED
      BY <3>1, <3>2
  <2>5. IsFiniteSet(Fed \cup {s.id}) /\ Cardinality(Fed \cup {s.id}) \in Nat
    BY <1>1, FS_AddElement, FS_CardinalityType
  <2> QED
    BY <1>1, <2>2, <2>3, <2>4, <2>5
<1>3. CASE workerPc \notin {"register", "publish"}
  <2>1. Queued = Fed
    BY <1>3, QueuedParts, RegisteringFacts
  <2> QED
    BY <1>1, <2>1
<1> QED
  BY <1>2, <1>3

(* A step of the main thread is a step of the service or a stutter.        *)
LEMMA ServiceMain ==
  ASSUME WorkerInv, Main
  PROVE  Service!Next \/ UNCHANGED <<Life, Queued, Open>>
<1> USE DEF WorkerInv, ControlInv, OwnerInv
<1>1. Registering' = Registering
  BY DEF Main, Accept, ConfigureFails, EnqueueRefused, RejectHeld, EnqueuePush, EnqueueSignal, StopFlag,
         StopSignal, Join, workerVars, Registering
<1>2. CASE EnqueuePush
  <2>1. /\ queue' = Append(queue, held[1]) /\ local' = local /\ sessions' = sessions
        /\ running /\ running' = running /\ workerPc' = workerPc /\ Len(queue) < QueueLimit
        /\ mainPc = "enqueue"
    BY <1>2 DEF EnqueuePush, HasRoom, workerVars, published
  <2>2. held[1] \in Entry /\ queue \in Seq(Entry) /\ local \in Seq(Entry) /\ queue' \in Seq(Entry)
    BY <2>1, HeldEntry, AppendProperties DEF Shape
  <2>3. /\ ToSet(queue' \o local') = ToSet(queue \o local) \cup {held[1]}
    <3>1. ToSet(queue') = ToSet(queue) \cup {held[1]}
      BY <2>1, <2>2, SetOfAppend
    <3>2. ToSet(queue \o local) = ToSet(queue) \cup ToSet(local)
      BY <2>2, SetOfConcat
    <3>3. ToSet(queue' \o local) = ToSet(queue') \cup ToSet(local)
      BY <2>2, SetOfConcat
    <3> QED
      BY <2>1, <3>1, <3>2, <3>3
  <2>4. PICK c \in Clients : c = held[1].client
    BY <2>2 DEF Entry
  <2>5. Fed' = Fed \cup {c}
    BY <2>2, <2>3, <2>4 DEF Fed
  <2>6. Queued' = Queued \cup {c}
    BY <1>1, <2>5, QueuedParts
  <2>7. Life = "running" /\ Life' = "running" /\ Open' = Open
    BY <2>1 DEF Life, Control, Open
  <2>8. Cardinality(Queued) < 2 * QueueLimit
    BY <2>1, QueuedBound
  <2>9. Service!Cardinality(Queued) = Cardinality(Queued)
    BY DEF Service!Cardinality, Cardinality
  <2>10. Service!Enqueue(c)
    BY <2>6, <2>7, <2>8, <2>9 DEF Service!Enqueue, Open
  <2> QED
    BY <2>10 DEF Service!Next
<1>3. CASE StopFlag
  <2>1. running /\ running' = FALSE /\ UNCHANGED <<queue, local, sessions, workerPc>>
    BY <1>3 DEF StopFlag, workerVars, published, Control
  <2>2. Life = "running" /\ Life' = "stopping" /\ Queued' = Queued /\ Open' = Open
    BY <1>1, <2>1 DEF Life, Control, Queued, Open
  <2>3. Service!Stop
    BY <2>2 DEF Service!Stop, Open
  <2> QED
    BY <2>3 DEF Service!Next
<1>4. CASE ~(EnqueuePush \/ StopFlag)
  <2>1. UNCHANGED <<running, queue, local, sessions, workerPc>>
    BY <1>4 DEF Main, Accept, ConfigureFails, EnqueueRefused, RejectHeld, EnqueueSignal, StopSignal, Join,
                workerVars, published
  <2> QED
    BY <1>1, <2>1 DEF Life, Queued, Open
<1> QED
  BY <1>2, <1>3, <1>4

(* A step of the worker is a step of the service or a stutter.             *)
LEMMA ServiceWorker ==
  ASSUME WorkerInv, WorkerStep
  PROVE  Service!Next \/ UNCHANGED <<Life, Queued, Open>>
<1> USE DEF WorkerInv, ControlInv, OwnerInv
<1>1. ASSUME UNCHANGED <<running, queue, local, sessions>>, Registering' = Registering,
             workerPc # "exited", workerPc' # "exited"
      PROVE  UNCHANGED <<Life, Queued, Open>>
  BY <1>1 DEF Life, Queued, Open
<1>2. CASE \/ CheckRunning \/ DispatchWake \/ TakeUp \/ AcquireLease \/ FinishDrain
           \/ \E ready \in SUBSET Fds : EpollWait(ready)
           \/ \E e \in batch, alive \in BOOLEAN : DispatchSocket(e, alive)
           \/ \E s \in detached : RegisterClient(s) \/ Destroy(s)
           \/ (Released /\ workerPc # "exitRelease")
  <2>1. UNCHANGED <<running, queue, local, sessions>>
    BY <1>2
    DEF CheckRunning, DispatchWake, TakeUp, AcquireLease, FinishDrain, EpollWait, DispatchSocket,
        RunHandler, RegisterClient, Destroy, Released, published
  <2>2. workerPc # "exited" /\ workerPc' # "exited"
    BY <1>2
    DEF CheckRunning, DispatchWake, TakeUp, AcquireLease, FinishDrain, EpollWait, DispatchSocket,
        RegisterClient, Destroy, Released, Releasing
  <2>3. \/ detached' = detached /\ workerPc' \in {"register", "publish"} /\ workerPc \in {"register", "publish"}
        \/ workerPc' \notin {"register", "publish"} /\ workerPc \notin {"register", "publish"}
    BY <1>2
    DEF CheckRunning, DispatchWake, TakeUp, AcquireLease, FinishDrain, EpollWait, DispatchSocket,
        RegisterClient, Destroy, Released, Releasing
  <2>4. Registering' = Registering
    BY <2>3, RegisteringFacts
  <2> QED
    BY <1>1, <2>1, <2>2, <2>4
<1>3. ASSUME NEW exiting \in BOOLEAN, SwapQueue(exiting)
      PROVE  UNCHANGED <<Life, Queued, Open>>
  <2>1. /\ local = << >> /\ local' = queue /\ queue' = << >> /\ UNCHANGED <<running, sessions>>
        /\ workerPc # "exited" /\ workerPc' # "exited" /\ queue \in Seq(Entry)
        /\ workerPc \notin {"register", "publish"} /\ workerPc' \notin {"register", "publish"}
    BY <1>3 DEF SwapQueue, Control, Shape, published
  <2>2. queue \o local = queue /\ queue' \o local' = queue
    BY <2>1, ConcatEmptySeq
  <2>3. Registering' = Registering
    BY <2>1, RegisteringFacts
  <2> QED
    BY <2>1, <2>2, <2>3 DEF Life, Queued, Open
<1>4. ASSUME local # << >>, local' = Tail(local), queue' = queue
      PROVE  /\ Fed' = Fed \ {Head(local).client}
             /\ Head(local).client \in Fed /\ Head(local).client \in Clients
  <2>1. /\ Head(local) \in ToSet(local) /\ ToSet(Tail(local)) = ToSet(local) \ {Head(local)}
    BY <1>4, SetOfTail DEF Shape, Apart
  <2>2. local \in Seq(Entry) /\ local' \in Seq(Entry) /\ queue \in Seq(Entry) /\ Head(local).client \in Clients
    BY <1>4, HeadOfLocal DEF Shape
  <2>3. ToSet(queue' \o local') = ToSet(queue \o local) \ {Head(local)}
    <3>1. ToSet(queue \o local) = ToSet(queue) \cup ToSet(local)
      BY <2>2, SetOfConcat
    <3>2. ToSet(queue \o local') = ToSet(queue) \cup ToSet(local')
      BY <2>2, SetOfConcat
    <3> QED
      BY <1>4, <2>1, <3>1, <3>2 DEF Apart
  <2>4. Head(local) \in ToSet(queue \o local) /\ ToSet(queue \o local) \subseteq Waiting
    BY <2>1, InFlightIsWaiting
  <2>5. \A x \in ToSet(queue \o local) : x.client = Head(local).client => x = Head(local)
    BY <2>4, SameClient
  <2> QED
    BY <2>2, <2>3, <2>4, <2>5 DEF Fed
<1>5. CASE DropStopped \/ AcquireFails \/ ConnectFails
  <2>1. /\ local # << >> /\ local' = Tail(local) /\ queue' = queue /\ UNCHANGED <<running, sessions>>
        /\ workerPc # "exited" /\ workerPc' # "exited"
        /\ workerPc \notin {"register", "publish"} /\ workerPc' \notin {"register", "publish"}
    BY <1>5 DEF DropStopped, Draining, AcquireFails, ConnectFails, CloseClient, Control, mainVars, published
  <2>2. Life' = Life /\ Open' = Open
    BY <2>1 DEF Life, Open
  <2>3. PICK c \in Clients : c = Head(local).client
    BY <1>4, <2>1
  <2>4. Queued = Fed /\ Queued' = Fed'
    BY <2>1, QueuedParts, RegisteringFacts
  <2>5. c \in Queued /\ Queued' = Queued \ {c}
    BY <1>4, <2>1, <2>3, <2>4
  <2>6. Service!Drop(c)
    BY <2>2, <2>5 DEF Service!Drop, Open
  <2> QED
    BY <2>6 DEF Service!Next
<1>6. ASSUME NEW fd \in Fds, ConnectStarts(fd)
      PROVE  UNCHANGED <<Life, Queued, Open>>
  <2> DEFINE new == [id |-> Head(local).client, clientFd |-> Head(local).fd, upstreamFd |-> fd]
  <2>1. /\ local # << >> /\ local' = Tail(local) /\ queue' = queue /\ UNCHANGED <<running, sessions>>
        /\ workerPc = "connect" /\ workerPc' = "register"
    BY <1>6 DEF ConnectStarts, Control, mainVars, published
  <2>2. detached' = {new} /\ new.id = Head(local).client
    BY <1>6 DEF ConnectStarts
  <2> HIDE DEF new
  <2>3. Registering = {} /\ Registering' = {new}
    BY <2>1, <2>2, RegisteringFacts
  <2>4. Queued = Fed /\ Queued' = Fed' \cup {Head(local).client}
    BY <2>2, <2>3, QueuedParts
  <2>5. Queued' = Queued
    BY <1>4, <2>1, <2>4
  <2> QED
    BY <2>1, <2>5 DEF Life, Open
<1>7. ASSUME NEW s \in detached, RegisterFails(s) \/ PublishSession(s)
      PROVE  Service!Next
  <2>1. /\ UNCHANGED <<running, queue, local>> /\ workerPc # "exited" /\ workerPc' # "exited"
        /\ workerPc \in {"register", "publish"} /\ workerPc' \notin {"register", "publish"}
    BY <1>7 DEF RegisterFails, PublishSession
  <2>2. detached = {s}
    BY <2>1 DEF Control
  <2>3. Registering = {s} /\ Registering' = {}
    BY <2>1, <2>2, RegisteringFacts
  <2>4. Fed' = Fed /\ Life' = Life /\ Life \in {"running", "stopping"}
    BY <2>1 DEF Fed, Life
  <2>5. \A x \in Waiting : x.client # s.id
    BY SocketsApart DEF Objects
  <2>6. s.id \notin Fed
    BY <2>5, InFlightIsWaiting DEF Fed
  <2>7. PICK c \in Clients : c = s.id
    BY SessionTyped DEF Objects
  <2>8. c \in Queued /\ Queued' = Queued \ {c}
    BY <2>3, <2>4, <2>6, <2>7, QueuedParts
  <2>9. CASE RegisterFails(s)
    <3>1. Open' = Open
      BY <2>9 DEF RegisterFails, Open, published
    <3>2. Service!Drop(c)
      BY <2>4, <2>8, <3>1 DEF Service!Drop, Open
    <3> QED
      BY <3>2 DEF Service!Next
  <2>10. CASE PublishSession(s)
    <3>1. Open' = Open \cup {c}
      BY <2>7, <2>10 DEF PublishSession, Open
    <3>2. Service!Serve(c)
      BY <2>4, <2>8, <3>1 DEF Service!Serve, Open
    <3> QED
      BY <3>2 DEF Service!Next
  <2> QED
    BY <1>7, <2>9, <2>10
<1>8. ASSUME NEW gone \in SUBSET sessions, CloseSessions(gone), UNCHANGED <<running, queue, local>>,
             workerPc \notin {"register", "publish", "exited"},
             workerPc' \notin {"register", "publish", "exited"}
      PROVE  Service!Next
  <2> DEFINE ids == {s.id : s \in gone}
  <2>1. sessions' = sessions \ gone
    BY <1>8 DEF CloseSessions
  <2>2. \A s, t \in sessions : s.id = t.id => s = t
    BY SameSession DEF Objects
  <2>3. Open' = Open \ ids /\ ids \in SUBSET Open
    BY <2>1, <2>2 DEF Open
  <2>4. Registering = {} /\ Registering' = {}
    BY <1>8, RegisteringFacts
  <2>5. Life' = Life /\ Queued' = Queued
    BY <1>8, <2>4 DEF Life, Queued
  <2> HIDE DEF ids
  <2>6. PICK left \in SUBSET {s.id : s \in sessions} : left = ids
    BY <2>3 DEF Open
  <2>7. Service!Close(left)
    BY <2>3, <2>5, <2>6 DEF Service!Close, Open
  <2> QED
    BY <2>7 DEF Service!Next
<1>9. ASSUME NEW expired \in SUBSET sessions, EndBatch(expired)
      PROVE  Service!Next
  <2> DEFINE gone == {s \in sessions : s.id \in closing} \cup expired
  <2>1. gone \in SUBSET sessions /\ CloseSessions(gone)
    BY <1>9 DEF EndBatch
  <2> HIDE DEF gone
  <2> QED
    BY <1>8, <1>9, <2>1 DEF EndBatch
<1>10. CASE Exit
  BY <1>8, <1>10 DEF Exit, Remaining
<1>11. CASE Released /\ workerPc = "exitRelease"
  <2>1. /\ sessions = {} /\ local = << >> /\ queue = << >> /\ ~running
        /\ UNCHANGED <<running, queue, local, sessions>> /\ workerPc' = "exited" /\ workerPc = "exitRelease"
    BY <1>11 DEF Released, Control, published
  <2>2. ToSet(queue \o local) = {}
    BY <2>1, SetOfNothing, SetOfConcat DEF Shape
  <2>3. Registering = {} /\ Registering' = {}
    BY <2>1, RegisteringFacts
  <2>4. Life = "stopping" /\ Life' = "exited" /\ Queued = {} /\ Queued' = Queued /\ Open' = {}
    BY <2>1, <2>2, <2>3 DEF Life, Queued, Open
  <2>5. Service!Exit
    BY <2>4 DEF Service!Exit, Open
  <2> QED
    BY <2>5 DEF Service!Next
<1> QED
  BY <1>2, <1>3, <1>5, <1>6, <1>7, <1>9, <1>10, <1>11 DEF WorkerStep

(* ImplementsService: every behaviour of queue, wakeups, batches and       *)
(* descriptors is one of WorkerService. A client handed over is served or  *)
(* closed exactly once, nobody is handed over after stop(), and the thread *)
(* ends only with its queue empty and every session closed.                *)
THEOREM Refinement == Spec => ImplementsService
<1>1. Init => Service!Init
  <2> SUFFICES ASSUME Init PROVE Service!Init
    OBVIOUS
  <2>1. ToSet(queue \o local) = {}
    BY SetOfNothing, EmptySeq, SetOfConcat DEF Init
  <2>2. Registering = {}
    BY DEF Init, Registering
  <2> QED
    BY <2>1, <2>2 DEF Init, Service!Init, Life, Queued
<1>2. ASSUME WorkerInv, [Next]_vars
      PROVE  [Service!Next]_(Service!vars)
  <2>1. CASE Main \/ WorkerStep
    BY <1>2, <2>1, ServiceMain, ServiceWorker DEF Service!vars, Open
  <2>2. CASE UNCHANGED vars
    BY <2>2 DEF vars, Service!vars, Life, Queued, Registering
  <2> QED
    BY <1>2, <2>1, <2>2 DEF Next, Joined
<1> QED
  BY <1>1, <1>2, Invariance, PTL DEF Spec, ImplementsService, Service!Spec

=============================================================================
