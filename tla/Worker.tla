------------------------------- MODULE Worker -------------------------------
(***************************************************************************)
(* A fluxgate::Worker and the main thread that feeds it: clients are       *)
(* accepted, pushed into queue_ under queueMutex_ and announced through    *)
(* the eventfd; the worker drains the queue, creates sessions, dispatches  *)
(* epoll batches, deletes sessions at the end of a batch, and on stop()    *)
(* releases everything it still owns.                                      *)
(*                                                                         *)
(* Descriptor numbers are the kernel's: a closed number is handed out      *)
(* again by the next accept4() or socket(). What a session does with an    *)
(* event is ProxySession.tla; here it stays open or starts closing.        *)
(* Only the main thread calls enqueue() and stop(), in that order.         *)
(***************************************************************************)
EXTENDS Integers, Sequences, FiniteSets, SequencesExt

CONSTANTS Clients,      \* the connections that arrive at the listening socket
          Fds,          \* descriptor numbers available for sockets
          QueueLimit,   \* config_.backlog * 4
          None          \* no connection, no session

(* A connection: a client's own, or the one opened upstream on its behalf. *)
Conn == Clients \X {"client", "upstream"}

ASSUME WorkerAssumption ==
  /\ IsFiniteSet(Clients) /\ IsFiniteSet(Fds)
  /\ QueueLimit \in Nat \ {0}
  /\ None \notin Clients \cup Fds \cup Conn

Entry == [fd : Fds, client : Clients]           \* AcceptedClient
Session == [id : Clients, clientFd : Fds, upstreamFd : Fds]
WakeEvent == <<None, None>>                     \* the eventfd in a batch

VARIABLES
  mainPc,           \* "accept", "enqueue", "signal", "stop", "join", "joined"
  held,             \* the client main has accepted and not handed over yet
  arriving,         \* clients not accepted yet
  fdTable,          \* the process's descriptor table
  running,          \* running_
  wake,             \* the eventfd counter is nonzero
  queue,            \* queue_
  local,            \* drainQueue()'s local queue
  workerPc,         \* where the worker thread is
  batch,            \* events of this epoll_wait() still to be handled
  interest,         \* the sockets registered with epoll
  sessions,         \* sessions_
  detached,         \* sessions that only a local shared_ptr or vector holds
  fdToSession,      \* fdToSession_
  closing,          \* ids of the sessions with closing_ set
  activeSessions,   \* activeSessions_
  leases,           \* clients for whom a BackendLease is alive
  metrics           \* accepted_, active_, rejected_, connect failures of
                    \* createSession(), and the sessions ever opened

mainVars   == <<mainPc, held, arriving>>
published  == <<sessions, fdToSession, closing, activeSessions>>
workerVars == <<local, workerPc, batch, interest, detached, published, leases>>
vars == <<mainPc, held, arriving, fdTable, running, wake, queue, local, workerPc, batch,
          interest, sessions, detached, fdToSession, closing, activeSessions, leases, metrics>>

TypeOK ==
  /\ mainPc \in {"accept", "enqueue", "signal", "stop", "join", "joined"}
  /\ held \in Seq(Entry) /\ Len(held) <= 1
  /\ arriving \subseteq Clients
  /\ fdTable \in [Fds -> Conn \cup {None}]
  /\ running \in BOOLEAN /\ wake \in BOOLEAN
  /\ queue \in Seq(Entry) /\ Len(queue) <= QueueLimit
  /\ local \in Seq(Entry)
  /\ workerPc \in {"top", "wait", "dispatch", "swap", "drain", "create", "connect", "register", "publish",
                   "discard", "release", "exitSwap", "exitDrain", "exitRelease", "exited"}
  /\ batch \subseteq (Fds \X Conn) \cup {WakeEvent}
  /\ interest \subseteq Fds
  /\ sessions \subseteq Session /\ detached \subseteq Session
  /\ fdToSession \in [Fds -> Clients \cup {None}]
  /\ closing \subseteq Clients
  /\ activeSessions \in Nat /\ leases \subseteq Clients
  /\ metrics \in [accepted : Nat, active : Nat, rejected : Nat, connectFailures : Nat,
                  opened : Nat, dropped : Nat]

Init ==
  /\ mainPc = "accept" /\ held = << >> /\ arriving = Clients
  /\ fdTable = [fd \in Fds |-> None]
  /\ running = TRUE /\ wake = FALSE
  /\ queue = << >> /\ local = << >>
  /\ workerPc = "top" /\ batch = {} /\ interest = {}
  /\ sessions = {} /\ detached = {} /\ fdToSession = [fd \in Fds |-> None] /\ closing = {}
  /\ activeSessions = 0 /\ leases = {}
  /\ metrics = [accepted |-> 0, active |-> 0, rejected |-> 0, connectFailures |-> 0,
                opened |-> 0, dropped |-> 0]

FreeFds == {fd \in Fds : fdTable[fd] = None}

Closed(table, fds) == [fd \in Fds |-> IF fd \in fds THEN None ELSE table[fd]]

(* The counters of Metrics; onClosed() never goes below zero.              *)
onAccepted  == [metrics EXCEPT !.accepted = @ + 1]
onOpened    == [metrics EXCEPT !.active = @ + 1, !.opened = @ + 1]
onClosed(n) == [metrics EXCEPT !.active = IF @ >= n THEN @ - n ELSE 0]
onRejected  == [metrics EXCEPT !.rejected = @ + 1]
onConnectFailure == [metrics EXCEPT !.connectFailures = @ + 1, !.rejected = @ + 1]

(* A client closed after stop() is in none of them; the model counts it.   *)
onDropped == [metrics EXCEPT !.dropped = @ + 1]

-----------------------------------------------------------------------------
(* The main thread.                                                        *)

Accept(c, fd) ==
  /\ mainPc = "accept" /\ c \in arriving /\ fd \in FreeFds
  /\ arriving' = arriving \ {c}
  /\ fdTable' = [fdTable EXCEPT ![fd] = <<c, "client">>]
  /\ held' = <<[fd |-> fd, client |-> c]>>
  /\ metrics' = onAccepted
  /\ mainPc' = "enqueue"
  /\ UNCHANGED <<running, wake, queue, workerVars>>

(* The main thread closes a client it could not configure or hand over.    *)
RejectHeld ==
  /\ fdTable' = Closed(fdTable, {held[1].fd})
  /\ held' = << >>
  /\ metrics' = onRejected
  /\ mainPc' = "accept"
  /\ UNCHANGED <<arriving, running, wake, queue, workerVars>>

(* setTcpNoDelay() throws: the client is already gone.                     *)
ConfigureFails == mainPc = "enqueue" /\ RejectHeld

(* Mutant: the queue limit is off by one.                                  *)
RoomForOneMore == Len(queue) <= QueueLimit

HasRoom == Len(queue) < QueueLimit

EnqueueRefused ==
  /\ mainPc = "enqueue"
  /\ ~running \/ ~HasRoom
  /\ RejectHeld

(* The critical section of enqueue(): ownership moves to the queue.        *)
EnqueuePush ==
  /\ mainPc = "enqueue"
  /\ running /\ HasRoom
  /\ queue' = Append(queue, held[1])
  /\ held' = << >>
  /\ mainPc' = "signal"
  /\ UNCHANGED <<arriving, fdTable, running, wake, workerVars, metrics>>

(* Mutant: enqueue() returns without writing the eventfd.                  *)
EnqueueForgetsSignal ==
  /\ mainPc = "signal"
  /\ mainPc' = "accept"
  /\ UNCHANGED <<held, arriving, fdTable, running, wake, queue, workerVars, metrics>>

(* The eventfd write after the unlock.                                     *)
EnqueueSignal ==
  /\ mainPc = "signal"
  /\ wake' = TRUE
  /\ mainPc' = "accept"
  /\ UNCHANGED <<held, arriving, fdTable, running, queue, workerVars, metrics>>

(* stop(): running_.exchange(false), then the eventfd write.               *)
StopFlag ==
  /\ mainPc = "accept"
  /\ running' = FALSE
  /\ mainPc' = "stop"
  /\ UNCHANGED <<held, arriving, fdTable, wake, queue, workerVars, metrics>>

StopSignal ==
  /\ mainPc = "stop"
  /\ wake' = TRUE
  /\ mainPc' = "join"
  /\ UNCHANGED <<held, arriving, fdTable, running, queue, workerVars, metrics>>

Join ==
  /\ mainPc = "join" /\ workerPc = "exited"
  /\ mainPc' = "joined"
  /\ UNCHANGED <<held, arriving, fdTable, running, wake, queue, workerVars, metrics>>

Main ==
  \/ \E c \in Clients, fd \in Fds : Accept(c, fd)
  \/ ConfigureFails \/ EnqueueRefused \/ EnqueuePush \/ EnqueueSignal
  \/ StopFlag \/ StopSignal \/ Join

-----------------------------------------------------------------------------
(* Mutant: closeSession() keeps the index entry of the upstream socket.    *)
ClientSockets(gone) == {s.clientFd : s \in gone}

Sockets(gone) == {s.clientFd : s \in gone} \cup {s.upstreamFd : s \in gone}

(* closeSession() for each of a set of sessions: out of epoll, of both     *)
(* maps and of the counters. The caller's vector still holds them.         *)
CloseSessions(gone) ==
  /\ interest' = interest \ Sockets(gone)
  /\ fdToSession' = Closed(fdToSession, Sockets(gone))
  /\ sessions' = sessions \ gone
  /\ closing' = closing \ {s.id : s \in gone}
  /\ activeSessions' = activeSessions - Cardinality(gone)
  /\ metrics' = onClosed(Cardinality(gone))
  /\ detached' = detached \cup gone

-----------------------------------------------------------------------------
(* The worker thread: waiting and dispatching.                             *)

(* Mutant: the loop condition is lost.                                     *)
LoopsForEver == TRUE

LoopGoesOn == running

(* The loop condition reads running_; a stop() after it meets a worker     *)
(* that is about to block.                                                 *)
CheckRunning ==
  /\ workerPc = "top"
  /\ workerPc' = IF LoopGoesOn THEN "wait" ELSE "exitSwap"
  /\ UNCHANGED <<mainVars, fdTable, running, wake, queue, local, batch, interest, detached,
                 published, leases, metrics>>

(* epoll_wait() returns: any of the registered sockets may be ready, and   *)
(* none of them when it times out. maxEvents is at least 16, so a pending  *)
(* wakeup is reported with them.                                           *)
EpollWait(ready) ==
  /\ workerPc = "wait"
  /\ ready \subseteq interest
  /\ batch' = {<<fd, fdTable[fd]>> : fd \in ready} \cup {e \in {WakeEvent} : wake}
  /\ workerPc' = "dispatch"
  /\ UNCHANGED <<mainVars, fdTable, running, wake, queue, local, interest, detached, published,
                 leases, metrics>>

(* The eventfd is read down to zero before the queue is drained.           *)
DispatchWake ==
  /\ workerPc = "dispatch" /\ WakeEvent \in batch
  /\ batch' = batch \ {WakeEvent}
  /\ wake' = FALSE
  /\ workerPc' = "swap"
  /\ UNCHANGED <<mainVars, fdTable, running, queue, local, interest, detached, published,
                 leases, metrics>>

Owner(id) == CHOOSE session \in sessions : session.id = id

(* Mutant: a session that is done is taken out of the maps and destroyed   *)
(* while the rest of the batch still holds events for its other socket.    *)
CloseAtOnce(e, alive) ==
  LET gone == IF alive THEN {} ELSE {Owner(fdToSession[e[1]])}
  IN  CloseSessions(gone)

(* handleEvent() says whether the session lives on; if not it is marked,   *)
(* and later events of the batch skip it.                                  *)
RunHandler(e, alive) ==
  /\ closing' = IF alive THEN closing ELSE closing \cup {fdToSession[e[1]]}
  /\ UNCHANGED <<interest, sessions, detached, fdToSession, activeSessions, metrics>>

DispatchSocket(e, alive) ==
  /\ workerPc = "dispatch" /\ e \in batch /\ e # WakeEvent
  /\ batch' = batch \ {e}
  /\ IF fdToSession[e[1]] = None \/ fdToSession[e[1]] \in closing
     THEN UNCHANGED <<interest, detached, published, metrics>>
     ELSE RunHandler(e, alive)
  /\ UNCHANGED <<mainVars, fdTable, running, wake, queue, local, workerPc, leases>>

-----------------------------------------------------------------------------
(* drainQueue() and createSession().                                       *)

(* The swap under queueMutex_.                                             *)
SwapQueue(exiting) ==
  /\ workerPc = IF exiting THEN "exitSwap" ELSE "swap"
  /\ local' = queue
  /\ queue' = << >>
  /\ workerPc' = IF exiting THEN "exitDrain" ELSE "drain"
  /\ UNCHANGED <<mainVars, fdTable, running, wake, batch, interest, detached, published, leases,
                 metrics>>

Draining == workerPc \in {"drain", "exitDrain"} /\ local # << >>

(* A client drained after stop() is closed without a session.              *)
DropStopped ==
  /\ Draining /\ ~running
  /\ fdTable' = Closed(fdTable, {Head(local).fd})
  /\ local' = Tail(local)
  /\ metrics' = onDropped
  /\ UNCHANGED <<mainVars, running, wake, queue, workerPc, batch, interest, detached, published,
                 leases>>

(* Otherwise createSession() is called; a stop() during it comes too late  *)
(* for this client.                                                        *)
TakeUp ==
  /\ workerPc = "drain" /\ local # << >> /\ running
  /\ workerPc' = "create"
  /\ UNCHANGED <<mainVars, fdTable, running, wake, queue, local, batch, interest, detached,
                 published, leases, metrics>>

(* The two paths on which createSession() closes the client itself.        *)
CloseClient ==
  /\ fdTable' = Closed(fdTable, {Head(local).fd})
  /\ local' = Tail(local)
  /\ workerPc' = "drain"
  /\ UNCHANGED <<mainVars, running, wake, queue, batch, interest, detached, published>>

(* BackendPool::acquire() finds no healthy backend: no lease.              *)
AcquireFails ==
  /\ workerPc = "create" /\ CloseClient
  /\ metrics' = onRejected
  /\ UNCHANGED leases

AcquireLease ==
  /\ workerPc = "create"
  /\ leases' = leases \cup {Head(local).client}
  /\ workerPc' = "connect"
  /\ UNCHANGED <<mainVars, fdTable, running, wake, queue, local, batch, interest, detached,
                 published, metrics>>

(* Mutant: the lease of a failed connect is not given back.                *)
ConnectFailsKeepsLease ==
  /\ workerPc = "connect" /\ CloseClient
  /\ metrics' = onConnectFailure
  /\ UNCHANGED leases

(* connectNonBlocking() throws, leaving no socket behind: the destructor   *)
(* of the local lease gives it back.                                       *)
ConnectFails ==
  /\ workerPc = "connect" /\ CloseClient
  /\ metrics' = onConnectFailure
  /\ leases' = leases \ {Head(local).client}

(* The session object takes over both sockets and the lease.               *)
ConnectStarts(upstreamFd) ==
  LET client == Head(local)
  IN  /\ workerPc = "connect" /\ upstreamFd \in FreeFds
      /\ fdTable' = [fdTable EXCEPT ![upstreamFd] = <<client.client, "upstream">>]
      /\ detached' = {[id |-> client.client, clientFd |-> client.fd, upstreamFd |-> upstreamFd]}
      /\ local' = Tail(local)
      /\ workerPc' = "register"
      /\ UNCHANGED <<mainVars, running, wake, queue, batch, interest, published, leases, metrics>>

RegisterClient(session) ==
  /\ workerPc = "register"
  /\ interest' = interest \cup {session.clientFd}
  /\ workerPc' = "publish"
  /\ UNCHANGED <<mainVars, fdTable, running, wake, queue, local, batch, detached, published, leases,
                 metrics>>

(* Mutant: the handler closes the client, as the other failure paths do.   *)
RegisterFailsCloses(session) ==
  /\ workerPc \in {"register", "publish"}
  /\ interest' = interest \ Sockets({session})
  /\ fdTable' = Closed(fdTable, {session.clientFd})
  /\ metrics' = onRejected
  /\ workerPc' = "discard"
  /\ UNCHANGED <<mainVars, running, wake, queue, local, batch, detached, published, leases>>

(* One of the two registrations throws: nothing is closed here, both       *)
(* sockets and the lease go with the session object.                       *)
RegisterFails(session) ==
  /\ workerPc \in {"register", "publish"}
  /\ interest' = interest \ Sockets({session})
  /\ metrics' = onRejected
  /\ workerPc' = "discard"
  /\ UNCHANGED <<mainVars, fdTable, running, wake, queue, local, batch, detached, published, leases>>

(* The upstream socket is registered too: the session is published.        *)
PublishSession(session) ==
  /\ workerPc = "publish"
  /\ interest' = interest \cup {session.upstreamFd}
  /\ fdToSession' = [fdToSession EXCEPT ![session.clientFd] = session.id,
                                        ![session.upstreamFd] = session.id]
  /\ sessions' = sessions \cup {session}
  /\ detached' = {}
  /\ activeSessions' = activeSessions + 1
  /\ metrics' = onOpened
  /\ workerPc' = "drain"
  /\ UNCHANGED <<mainVars, fdTable, running, wake, queue, local, batch, closing, leases>>

(* Mutant: the eventfd is read down to zero once more after the drain.     *)
FinishDrainReadsWake ==
  /\ workerPc = "drain" /\ local = << >>
  /\ workerPc' = "dispatch"
  /\ wake' = FALSE
  /\ UNCHANGED <<mainVars, fdTable, running, queue, local, batch, interest, detached,
                 published, leases, metrics>>

FinishDrain ==
  /\ workerPc = "drain" /\ local = << >>
  /\ workerPc' = "dispatch"
  /\ UNCHANGED <<mainVars, fdTable, running, wake, queue, local, batch, interest, detached,
                 published, leases, metrics>>

-----------------------------------------------------------------------------
(* The end of a batch and of the thread.                                   *)

(* The closing sessions, and those that the sweep finds expired.           *)
EndBatch(expired) ==
  /\ workerPc = "dispatch" /\ batch = {}
  /\ expired \subseteq {s \in sessions : s.id \notin closing}
  /\ CloseSessions({s \in sessions : s.id \in closing} \cup expired)
  /\ workerPc' = "release"
  /\ UNCHANGED <<mainVars, fdTable, running, wake, queue, local, batch, leases>>

(* Mutant: the thread ends with its sessions still open.                   *)
NoneRemain == {}

Remaining == sessions

(* All drained: the sessions that are left are closed.                     *)
Exit ==
  /\ workerPc = "exitDrain" /\ local = << >>
  /\ CloseSessions(Remaining)
  /\ workerPc' = "exitRelease"
  /\ UNCHANGED <<mainVars, fdTable, running, wake, queue, local, batch, leases>>

(* Where a local shared_ptr, or a vector of them, goes out of scope.       *)
Releasing == workerPc \in {"discard", "release", "exitRelease"}

(* The last reference to a session goes: ~ProxySession() closes its two    *)
(* sockets and returns its lease. A closed socket leaves epoll.            *)
Destroy(session) ==
  /\ Releasing
  /\ fdTable' = Closed(fdTable, {session.clientFd, session.upstreamFd})
  /\ interest' = interest \ {session.clientFd, session.upstreamFd}
  /\ leases' = leases \ {session.id}
  /\ detached' = detached \ {session}
  /\ UNCHANGED <<mainVars, running, wake, queue, local, workerPc, batch, published, metrics>>

Released ==
  /\ Releasing /\ detached = {}
  /\ workerPc' = CASE workerPc = "discard" -> "drain"
                   [] workerPc = "release" -> "top"
                   [] workerPc = "exitRelease" -> "exited"
  /\ UNCHANGED <<mainVars, fdTable, running, wake, queue, local, batch, interest, detached,
                 published, leases, metrics>>

WorkerStep ==
  \/ CheckRunning
  \/ \E ready \in SUBSET Fds : EpollWait(ready)
  \/ DispatchWake
  \/ \E e \in batch, alive \in BOOLEAN : DispatchSocket(e, alive)
  \/ \E exiting \in BOOLEAN : SwapQueue(exiting)
  \/ DropStopped \/ TakeUp \/ AcquireFails \/ AcquireLease \/ ConnectFails
  \/ \E fd \in Fds : ConnectStarts(fd)
  \/ \E session \in detached : \/ RegisterClient(session) \/ RegisterFails(session)
                              \/ PublishSession(session) \/ Destroy(session)
  \/ FinishDrain
  \/ \E expired \in SUBSET sessions : EndBatch(expired)
  \/ Exit \/ Released

(* Main has joined the thread: the worker's life is over.                  *)
Joined ==
  /\ mainPc = "joined"
  /\ UNCHANGED vars

Next == Main \/ WorkerStep \/ Joined

Spec == Init /\ [][Next]_vars

(* Both threads keep being scheduled; whether a client arrives and when    *)
(* stop() is called is left open.                                          *)
Fairness ==
  /\ WF_vars(WorkerStep)
  /\ WF_vars(EnqueuePush \/ EnqueueRefused) /\ WF_vars(EnqueueSignal)
  /\ WF_vars(StopSignal) /\ WF_vars(Join)

FairSpec == Spec /\ Fairness

-----------------------------------------------------------------------------
InFlight == held \o queue \o local

(* The session objects, in the maps or not.                                *)
Objects == sessions \cup detached

(* The session createSession() has built and not published or given up.    *)
Registering == {s \in detached : workerPc \in {"register", "publish"}}

(* Whom createSession() holds a lease for before there is a session.       *)
Connecting == IF workerPc = "connect" THEN {Head(local).client} ELSE {}

(* What each owner believes its descriptors refer to.                      *)
Owned == {<<x.fd, <<x.client, "client">>>> : x \in ToSet(InFlight)}
           \cup {<<s.clientFd, <<s.id, "client">>>> : s \in Objects}
           \cup {<<s.upstreamFd, <<s.id, "upstream">>>> : s \in Objects}

(* Every open descriptor has exactly one owner (the main thread, queue_,   *)
(* the drained queue, or a session object), and no owner holds a number    *)
(* that was closed or reused: no leak and no double close on any of the    *)
(* three failure paths of createSession(), two of which close the client   *)
(* themselves while the third leaves both sockets to the destructor.       *)
OneOwnerPerFd ==
  /\ Owned = {<<fd, fdTable[fd]>> : fd \in Fds \ FreeFds}
  /\ Len(InFlight) + 2 * Cardinality(Objects) = Cardinality(Fds \ FreeFds)

(* The events still to be dispatched belong to the sockets they were       *)
(* reported for, and the index leads to their session, although the queue  *)
(* is drained and descriptors are opened in the middle of a batch.         *)
EventsKeepTheirSocket ==
  \A e \in batch \ {WakeEvent} :
    e[2] = fdTable[e[1]] /\ fdToSession[e[1]] = e[2][1]

(* fdToSession_ and sessions_ describe the same sessions, and the worker   *)
(* waits for events of exactly their sockets: a failed registration leaves *)
(* nothing behind in epoll and a published session is watched on both      *)
(* sides.                                                                  *)
IndexMatchesSessions ==
  /\ \A fd \in Fds, c \in Clients :
       fdToSession[fd] = c <=> \E s \in sessions : s.id = c /\ fd \in {s.clientFd, s.upstreamFd}
  /\ workerPc = "wait" => interest = {fd \in Fds : fdToSession[fd] # None}

(* Whoever waits in epoll_wait() will be woken: a queued client or a       *)
(* requested stop has its eventfd write done or about to be done.          *)
NoLostWakeup ==
  workerPc = "wait" =>
    /\ queue # << >> => wake \/ mainPc = "signal"
    /\ ~running => wake \/ mainPc = "stop"

(* activeSessions_ and the active metric count the published sessions;     *)
(* leases are held by the session objects, published or not, and by the    *)
(* client whose connect is being tried, and by nobody else: a failure path *)
(* loses none. Every accepted client is in flight, being registered,       *)
(* rejected, dropped at stop, or was published: no path counts a client    *)
(* twice or not at all.                                                    *)
CountsAgree ==
  /\ activeSessions = Cardinality(sessions) /\ metrics.active = activeSessions
  /\ leases = {s.id : s \in Objects} \cup Connecting
  /\ metrics.accepted = Len(InFlight) + Cardinality(Registering)
                          + metrics.rejected + metrics.dropped + metrics.opened
  /\ metrics.connectFailures <= metrics.rejected

Life == IF workerPc = "exited" THEN "exited" ELSE IF running THEN "running" ELSE "stopping"

(* The clients handed over of whom it is not decided yet what becomes.     *)
Queued == {x.client : x \in ToSet(queue \o local)} \cup {s.id : s \in Registering}

Service == INSTANCE WorkerService WITH
             life <- Life,
             queued <- Queued,
             open <- {s.id : s \in sessions}

(* Queue, wakeups, batches and descriptors together give the service that  *)
(* the gateway relies on: a client handed over is served or closed exactly *)
(* once, nobody is handed over after stop(), and the thread ends only with *)
(* its queue empty and every session closed.                               *)
ImplementsService == Service!Spec

(* A queued client gets a session or is closed; it never waits for the     *)
(* next client's wakeup.                                                   *)
QueuedClientIsServed ==
  \A c \in Clients : (\E x \in ToSet(queue) : x.client = c) ~> c \notin Queued

(* stop() ends the thread, from any point of its loop.                     *)
StopCompletes == ~running ~> mainPc = "joined"

=============================================================================
