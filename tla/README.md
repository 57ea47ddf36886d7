# A verification of FluxGate

FluxGate is a TCP gateway: a main thread accepts clients, worker threads each run an epoll loop and
forward bytes between a client and a chosen backend, and a health checker decides which backends may
be chosen. This directory models the parts that carry that behaviour in TLA+, model-checks them with
TLC on small instances and proves their safety with TLAPS for every size.

`PROJECT.json` maps every definition to its lines of the source, lists the runs, the mutants that
show each property can fail, the hazards of the code and the theorems.

## The system

| Part | State | Operations | Interacts with |
|---|---|---|---|
| `ByteBuffer` | storage, read and write cursor | `hasWritten`, `consume`, `makeWritable` | owned twice by each session |
| `ProxySession` | connecting flag, two buffers, read-closed and write-shutdown flag per side, closing flag, two clocks | `handleEvent` (finish connect, read, write, half-close, complete), `clientEvents`, `upstreamEvents` | called by its worker; the kernel's sockets; counters of `Backend` and `Metrics` |
| `Worker` | hand-over queue with its mutex, eventfd, sessions, index from descriptor to session, `running_` | `enqueue`, `stop`, `join` (main thread); the loop, `drainQueue`, `createSession`, `closeSession`, `sweepIdleSessions` (its own thread) | main thread through queue and eventfd; `BackendPool`; kernel descriptors |
| `BackendPool`, `BackendLease`, `Backend` | health flag and active count per backend, rotation start, selection mutex | `acquire`, lease `reset`, `setHealthy` | every worker and the health checker concurrently |
| `HealthChecker` | two streak counters per backend, `running_`, condition variable | `checkOnce`, `run`, `stop`, `join` | sets `Backend::healthy_` |
| `main` | stop flag, dispatch cursor, statistics thread | start of all threads, poll and accept loop, `selectWorker`, signals, ordered shutdown, unwinding | feeds and stops all of the above |
| `ConfigLoader` | current section, the backend being read, its two flags | `load` | gives every part its parameters |
| `Net` | none | `connectNonBlocking`, `waitForConnect`, resolution, listening socket | used by workers, checker and `main` |
| `Metrics`, `Logger`, `UniqueFd` | atomic counters; a mutex; one descriptor | | used by all |

What is hard in it, and what makes each part correct:

* **Session.** The events of an epoll batch are a snapshot: peers send, close, reset and stall while
  earlier events of the batch are handled. Correct means: no byte lost or repeated, no data towards a
  socket that was shut down, nothing on the upstream before its connect is confirmed, interests that
  never park a direction that can move, ends of stream that propagate, and every session reclaimed.
* **Worker.** Two threads meet in a queue, an eventfd and a flag, each used in several steps;
  descriptor numbers are reused within a batch; session creation can fail half way. Correct means:
  every descriptor has one owner, events reach the session they were meant for, wakeups are not
  lost, counts agree, and a stopped worker leaves nothing behind.
* **Pool.** Counts and health flags change between the loads of a scan. Correct means: counts equal
  leases, and an undisturbed scan returns the best backend in rotation order.
* **Health checker.** Correct means hysteresis: the flag flips exactly on whole streaks, follows a
  backend that stays up or down (also after probes failed for want of descriptors), and `stop()` ends
  the thread.
* **Gateway.** The main thread reads session counts that workers change, accepts until the backlog is
  empty, runs out of descriptors, is signalled anywhere and may be left by an exception. Correct means:
  even dispatch, no connection forgotten in the backlog, a stop that releases the workers first, and no
  thread that outlives the objects it uses.
* **Configuration.** A section is committed later than it is read. Correct means: what is loaded is
  what the file says as a whole, and what is accepted can be run.

## Modules

| Module | Models |
|---|---|
| `ByteCursors` | cursor arithmetic of `ByteBuffer` |
| `ByteBuffer` | the buffer with its storage; refines `ByteFifo`, a bounded FIFO |
| `ProxySession` | one session with the part of `Worker::run` that drives it, the kernel and both peers |
| `WorkerService` | what a worker promises: a client handed over waits, is served or closed, and after `stop()` everything is closed and the thread ends |
| `Worker` | a worker in detail, the main thread's accept and stop, and the descriptor table; refines `WorkerService` |
| `Gateway` | `main()` composed with N workers of `WorkerService` and the two other threads |
| `BackendPool` | selection, one load per step, against unlocked releases and health changes |
| `HealthChecker` | the probing thread with each probe's connect and poll, its condition variable and `stop()` |
| `ConfigLoader` | the parser of the configuration file and the check of the log level |
| `MC*` | instances for TLC |
| `ByteBufferProofs`, `ProxySessionProofs`, `WorkerProofs`, `BackendPoolProofs`, `HealthCheckerProofs`, `GatewayProofs`, `ConfigLoaderProofs` | theorems and proofs about the module they are named after |
| `RotationLemmas` | arithmetic of walking round n members from a rotating start, shared by the pool's and the gateway's proofs |

**ProxySession.** `buf[s]` is the buffer filled from side `s`; bytes are counted, since
`ByteBuffer.tla` settles their order. An iteration of the loop is `EpollWait` (snapshot of the ready
events of both sockets), one `HandleEvent` per socket with events, and `EndBatch` (close or sweep).
`handleEvent` is one action per way of leaving it: `SkipClosing`, `ConnectFails`, `SocketError`,
`IoFails`, `Forward`. A handler is atomic for its own socket: `readInto` receives what the kernel
holds at that moment as far as it fits, `writeFrom` has the kernel accept any nonempty part.
Readiness is what `tcp_poll()` computes, level-triggered, with errors and hang-ups unmasked. The early
return for an event of a connecting socket that carries none of OUT, ERR and HUP has no action: no
such event is ever reported, and if one were it could not be handled and `EventuallyReclaimed` would
fail. Clocks are flags: `sweepDue`, `connectExpired`, `idleExpired`; `touch` clears the last.

**Worker.** Descriptor numbers are handed out nondeterministically from the free ones, so every reuse
the kernel could make occurs. A batch holds pairs of number and the connection it stood for. What a
handler does is abstracted to "goes on" or "starts closing". The queue's critical sections, the
eventfd operations, the test of `running_` in `drainQueue()` and each call of `createSession()` are
separate steps, between which the main thread accepts, enqueues or stops:

| Step of `createSession()` | Place | What it holds afterwards |
|---|---|---|
| `AcquireFails` | `create` | nothing: the client is closed explicitly, no lease was taken |
| `AcquireLease` | `create` | the client and a lease (`Connecting`) |
| `ConnectFails` | `connect` | nothing: the connect failure is counted, the client is closed explicitly, the local lease is returned by its destructor |
| `ConnectStarts` | `connect` | a session object with both sockets and the lease, known only to a local `shared_ptr` (`detached`) |
| `RegisterClient` | `register` | the same, the client socket registered with epoll (`interest`) |
| `RegisterFails` | `register`, `publish` | the same, both sockets unregistered; nothing is closed here |
| `PublishSession` | `publish` | a published session: in both maps, counted, both sockets registered |

`closeSession()` is `CloseSessions`: it takes sessions out of epoll, the maps and the counters, and
leaves them to the vector of its caller (`EndBatch`, `Exit`). Only where that vector, or the local
`shared_ptr` of a session that was given up, goes out of scope (`discard`, `release`, `exitRelease`) does
`Destroy` run the destructor, one session at a time: both sockets are closed and the lease is returned.
So counters, descriptors and leases move at different moments, as in the code, and the properties are
about all of the session objects (`Objects`), published or not. The vectors of the closing and of the
expired sessions are released in one phase, although the second goes a little earlier: no step of the
worker in between opens or reads anything. `metrics.opened` and `metrics.dropped` are bookkeeping of the
model: the code has no counter for clients it closes because it is stopping; `metrics.connectFailures`
counts those of `createSession()`, the others are `ProxySession`'s. The refinement maps `queue_`, the
drained queue and the session being registered to the clients that wait, publication to being served,
and `running_` and the end of the thread to the life of the abstract worker.

**Gateway.** `pc` names the place of the main thread; a loop over the workers is one step per worker
(`next`). The order of the shutdown is the sequence `Shutdown`. `selectWorker` is one step per load of
a session count, between which sessions open and end; `disturbed` records that one did, and `picks`
the choices made since the counts last changed. Descriptors are counted (`Used`, `MaxFds`): one for a
client that waits, two for a session, so `accept4()` and `connectNonBlocking()` fail when sessions hold
them all. `dispatchCursor` is kept modulo N. `Throw` stands for every exception `main` can meet: a
constructor, `std::thread`, a failing `poll()`, memory. Unwinding runs the destructors of `main`'s
locals, last one first; the client that `main` has in hand (`held`) is a plain `int` and no destructor
closes it. A worker's steps are those of `WorkerService`; `UsesWorkerService` shows that
`main` calls it as `Worker` expects, which is what joins the two levels.

**ConfigLoader.** A line is a section, a pair, blank or malformed, after comments, blanks and letter
case are removed. Any line may follow any other, so every file up to `MaxLines` is read. The reference
(`PrefixOK`, `WholeOK`, `Setting`, `Described`) says what a file means without reading it in order.
The code's branch for an empty backend name has no action: `[backend ]` is trimmed to `backend`, which
is an unknown section.

**BackendPool.** `acquire()` is cut at every atomic load; `release()` at its load and its
subtraction. `disturbed` records that a release or a health change fell into the running scan.
`tieBreaker_` is kept modulo the pool size.

**HealthChecker.** A probe is answered at once (connected, refused, or no descriptor) or is polled
until it is decided; `exhausted` is the state of the descriptor table. The counters wrap at `Modulus`, which stands for 2^64. `wait_for` is three steps:
predicate, block, wake; a notification is heard only by a blocked
thread. Spurious wakeups, which only evaluate the predicate again, are left out.

## Runs

| Run | Result | Shows |
|---|---|---|
| `byte_buffer` | pass | bounded FIFO, rewound when drained, compaction frees the head; capacity 4 |
| `proxy_session` | pass | safety with faults and deadlines, and every session ends; capacity 2, three bytes from the client, one from the upstream |
| `session_flow` | pass | data and ends of stream keep moving; capacity 3, no faults, before the deadlines |
| `session_half_close` | violation | see the first finding |
| `session_spin` | violation | see the second finding |
| `worker` | pass | one owner per descriptor and holder per lease on every failure path, `WorkerService`, no client left waiting, `stop()` ends the thread; three clients, four descriptors, queue limit 2 (770,000 states, about two minutes) |
| `backend_pool` | pass | three backends of weight 1, 2, 1; two threads, three leases |
| `health_checker` | pass | two backends, thresholds 3 and 2, counters modulo 5 |
| `health_stop` | violation | see the third finding |
| `gateway` | pass | even dispatch, no connection forgotten, ordered end; three workers, three clients, queue limit 1, four descriptors |
| `gateway_unwind` | violation | see the fourth finding |
| `config_loader` | pass | every file of up to seven of twenty lines |

*Bounds.* A peer that sends one byte more than the buffer holds makes the buffer fill, push back,
drain partly, compact and refill, which is every case the cursor arithmetic distinguishes; the
theorems remove this bound. `proxy_session` lets the client overfill its buffer (so that the connect is
still pending when it is full), `session_flow` the upstream. Four descriptors hold two sessions, or one
session and two waiting clients, so a number is freed and reused while a batch is being dispatched, by a
client closed on a failure path or by a session whose registration failed; a connect may fail with a
descriptor free or because there is none.
Three backends are the fewest for a scan whose
winner changes twice; two threads the fewest to contend. Counters modulo 5 let streaks longer than a
threshold pass through zero. Three workers are the fewest for which the choice of a
scan changes twice; four descriptors let two sessions exhaust the process while a third client
waits in the backlog. Seven lines hold two complete backends and one more line, or one backend and both
health settings with their section. `maxEvents` is at least 16, so both sockets, or the eventfd and all
sockets of the instance, fit in one batch.

*Fairness.* `LoopSpec`: the worker thread keeps being scheduled (`epoll_wait` has a one-second
timeout), seconds and the idle deadline pass. `FlowSpec` adds that a pending connect settles and that
peers read what they are sent; it is used only with faults and deadlines switched off, which asks what
happens before the idle deadline. `Worker`: both threads are scheduled; whether clients arrive and
when `stop()` is called is left open. `HealthChecker`: the thread is scheduled, intervals end, a begun
`stop()` finishes; backends change at will. `Gateway`: the main, worker and statistics threads are
scheduled and sessions end (`EventuallyReclaimed` of the session); nothing is assumed of the health
checker, of clients, signals or exceptions. `WorkersReleased` and `ShutdownCompletes` state as a
condition that the accept loop is left again and again: it ends only when the backlog is empty, so
clients that connect faster than it accepts can hold it.

### Where the repository says something else

1. *Half-close* (`session_half_close`). `updateHalfClose()` is documented to act after EOF. A hang-up
   event that finds the buffer of its direction full makes `readInto()` return `WouldBlock` before
   any `recv()`, and `handleEvent` takes that for the end of the stream. Bytes that the peer sent
   before its FIN stay in the kernel and the other side gets a clean end of a truncated stream.
2. *Busy loop* (`session_spin`). `EPOLLRDHUP` stays armed after the end of a direction was seen; being
   level-triggered it makes every `epoll_wait()` return at once while the session waits for its other
   side. `EventuallyReclaimed` still holds, since such an event is no activity.
3. *Lost notification* (`health_stop`). `stop()` changes the flag and notifies without `mutex_`, so
   both may fall between the predicate and the block of `wait_for`, and the thread sleeps a whole
   interval. `StopCompletes` still holds.
4. *Unwinding* (`gateway_unwind`). The architecture asks for exception-safe descriptors and thread
   lifetimes, and `main` has a catch block that returns 1. `statsThread` is a plain `std::thread`: once it runs, any exception
   destroys it joinable and the process ends in `std::terminate`. Without the statistics thread
   (`stats_interval_seconds = 0`, or an exception before its start) unwinding stops and joins all
   others, which `NoThreadOutlivesMain` shows, and every client that was handed to a worker is closed.
   The one in `main`'s hand is not: an exception at `enqueue()` leaves `clientFd`, a plain `int`, open.
   `ExceptionSafe` states both; TLC reports the shorter violation, and with its first conjunct alone
   removed it reports the second (`Throw` at `enqueue` before the statistics thread exists, ending in
   `failed` with `held` a client).

## Proofs

Every safety invariant, action property and refinement that a passing run checks is also a theorem. A run shows it on one instance, the theorem for every value of the constants.

*Assumptions on the constants* (the `ASSUME` of each module, evaluated by TLC on every run):

| Module | Assumed | Why the code justifies it |
|---|---|---|
| `ByteCursors`, `ByteBuffer` | a positive capacity; the fill value is a byte | `buffer_size` is at least 4096 |
| `ProxySession` | the peers send natural numbers of bytes | |
| `Worker` | finitely many clients and descriptors, a positive queue limit, `None` is neither | descriptors are limited by the process; the queue limit is four times `backlog`, which is at least 16 |
| `BackendPool` | at least one backend, positive weights, finitely many leases and threads | `ConfigLoader` refuses an empty list and weights below 1 (`Usability`) |
| `HealthChecker` | at least one backend, thresholds from 1 to below the wrap of the counters | both are 1 to 100, the counters have 64 bits |
| `Gateway` | at least one worker, a positive queue limit, finitely many clients | `workers` is 1 to 128 |
| `ConfigLoader` | every line is of one of the four kinds, and a pair has a value | an empty key or value is the malformed kind |

Integers are unbounded in the proofs, except the streak counters, which wrap. The products that
`acquire()` compares are of an active count, bounded by the descriptors of the process, and a weight of
at most 1000, so their 64 bits do not overflow.

*The arguments:*

* `ByteBufferProofs`: type correctness; an empty buffer is rewound; `makeWritable` frees the head; and
  the refinement `Spec => ImplementsFifo`. The inductive part is the order of the cursors and the
  rewinding; the refinement shows, per action, that the readable window of the storage is appended to,
  shortened at its head, or (compaction) unchanged.
* `ProxySessionProofs`: `SessionInv` is inductive, and type correctness, `ByteConservation`,
  `NoDataAfterShutdown`, `NothingBeforeConnect`, `ConnectCountedOnce` and `ArmedWhileWaiting` follow.
  The strengthening is needed because `ArmedWhileWaiting` depends on interests being those of the
  current state whenever the session is not closing (`InterestsCurrent`) and on empty buffers being
  rewound (`BuffersRewound`), and `ConnectCountedOnce` on a counted failure ending the session before
  the sweep could see it (`OutcomeCounted`). Lemmas on the cursors (`ReadCursor`: receiving `n` bytes
  that fit, with compaction on the way, adds `n` readable bytes) carry the arithmetic; there is one
  lemma per action.
* `WorkerProofs`: `WorkerInv` has three layers. `ControlInv` says where the two threads can be, what
  is empty at each place, and which wakeup is still to come; `NoLostWakeup` alone is not inductive, since
  it depends on the main thread writing the eventfd after each push and after clearing `running_`.
  `OwnerInv` says that a waiting client is in one place (`Apart`), that the descriptor table records
  exactly the waiting clients and the sockets of the session objects (`Ledger`), that an object is
  published or not (`Split`), that the index matches the published ones (`IndexSound`) and epoll the index,
  but for the client socket of a registration half done (`Watched`), that every event left in the batch
  stands for a connection that is still open under its number and indexed (`Pending`, which holds because
  in the middle of a batch only waiting clients and sessions never published are closed), and that the
  leases are those of the objects and of the connect being tried (`LeaseInv`). The properties alone
  are not inductive: that `RegisterFails` leaves no index entry behind and `ConnectFails` returns nobody
  else's lease needs the sockets and clients of different owners to be different, which is `Ledger`.
  `CountInv` is the arithmetic on top: open descriptors are the waiting clients plus two for each session
  object. All actions are first reduced to the nine effects they can have on ownership (open, drop, serve,
  reject, publish, unpublish, end, poll, keep), so that `Ledger`, `Split`, `IndexSound`, `Pending` and
  `CountInv` are shown for nine cases and not for every action; `Watched` and `LeaseInv` go by action.
  `TypeOK`, `NoLostWakeup`, `IndexMatchesSessions`, `EventsKeepTheirSocket`, `CountsAgree`,
  `OneOwnerPerFd` and the refinement `ImplementsService` follow.
* `BackendPoolProofs`: `CountInv` (one selector at a time; the active count of a backend is the number
  of leases it has given out and that are not yet subtracted; hence the test of `release()` never skips)
  is inductive by itself. `ScanInv` says what a scan knows half way when nothing disturbed it: the candidate
  beats every healthy backend already visited, strictly for those earlier in the rotation. That needs
  the comparison of cross products to be transitive (`CrossStrict`, `Chain`), which is nonlinear and
  proved by hand, and the rotation to visit every backend once (`RotationLemmas`). `BestInRotation`
  follows at the end of the scan. `MutualExclusion` states that only the holder of the mutex selects.
* `HealthCheckerProofs`: the counters and the remembered results bound each other.
  `CountedIsSeen`: a counter never claims more equal results than were seen, also after it has wrapped.
  `SeenIsCounted`: the one counter that can still change the flag is exact and below its threshold.
  `HealthFollowsProbes` and the action property `FlipsNeedStreaks` follow from both.
* `GatewayProofs`: `StageInv` says, for each place of `main()`, which workers and threads have been
  started, stopped and joined, and that a worker that is not alive holds no client; from it follow
  `NoThreadOutlivesMain` (also while an exception unwinds; that a normal end leaves no client in hand is
  part of `StageInv`) and that every step is a step of each of the N
  workers' `WorkerService` or leaves it alone (`UsesWorkerService`). `DispatchInv` adds what `selectWorker`
  knows half way and that the latest choices are consecutive in the rotation; `FairDispatch` follows.
* `ConfigLoaderProofs`: `UsableInv` says that every value ever stored passed its range check, that
  `hasHost` and `hasPort` tell the truth about the section being read (the flags are reset with the
  section, so a committed backend has its own host and port), and what the final checks established;
  `DistinctNames` shows that comparing the number of names with the number of backends finds every
  duplicate. `ReadyIsUsable` follows. `MeaningInv` relates the loader half way to the reference: `section`
  is the key of the last section line, `config` what the assignments so far say, `currentBackend` and
  its flags what the section being read has given so far (`Draft`), and `backends` lists the other backends
  of the prefix, each at the place the reference gives it (`ListsAll`). `LoadsWhatIsWritten` alone says
  nothing of `section`, the draft or an unfinished list, so it is not inductive. The reference speaks of
  largest line numbers and of cardinalities; appending a line adds at most its own number to each set and
  makes it the largest (`MaxOfNew`), so one lemma per operator of the reference says how a line
  changes it, and one per kind of line that the loader changes in the same way. That a set of line numbers
  has a largest one (`MaxFacts`) comes from the library's well-foundedness of the naturals, by a least
  counterexample, which needs no induction scheme.

*Only model-checked:*

* Liveness, since reasoning about fairness and `ENABLED` is out of the prover's reach: `EventuallyReclaimed`,
  `DataKeepsMoving`, `EndOfStreamPropagates`, `QueuedClientIsServed`, `StopCompletes`,
  `EventuallyAccurate`, `BacklogIsServed`, `WorkersReleased`, `ShutdownCompletes`.
* The four violations.

## Not modelled

* `Net`: address resolution, the listening socket and the text of addresses; they run once before any
  thread exists, or only format.
* `Logger` apart from `parseLevel`, the statistics text, the command line (`--check`, `--version`), tools
  and scripts.
* Decimal syntax and overflow of `std::stol`, `trim()` and `lower()`: a value is in its range or not.
* `epoll_wait` errors other than EINTR and failing eventfd writes: the kernel does not produce them on
  valid descriptors. `send()` returning 0 for a nonempty buffer likewise. A socket failing between two
  `send()` calls of one handler is seen as failing before or after the handler.
* `std::bad_alloc` in a worker (for one at `make_shared` in `createSession()`, where both descriptors are
  unowned for a moment): nothing catches it in the thread, and the process ends by `std::terminate`.
* Durations: a deadline has passed or not. That `waitForConnect()` restarts its whole timeout after
  EINTR is therefore not visible.
* `Metrics::onClosed()` called by several workers: the same two atomic steps as `Backend::release()`,
  which `BackendPool` covers.
* What the kernel does with unread data at `close()` (it resets the connection).

## Plan

1. A composition of pool and health checker (eventually no lease on a backend that stays down).
2. Proofs of the safety steps that the liveness arguments rest on, so that fairness is all they are left
   with (for example: a session that is closing stays closing until it is reclaimed).
