------------------------------- MODULE Gateway ------------------------------
(***************************************************************************)
(* main(): it starts the workers, the health checker and the statistics    *)
(* thread, polls the listening socket, accepts clients and hands each to   *)
(* the worker with the fewest sessions, and after SIGINT or SIGTERM stops  *)
(* and joins everything; an exception unwinds instead. The workers are     *)
(* those of WorkerService.tla, run by threads of their own, and the other  *)
(* two threads end some time after they are told to.                       *)
(*                                                                         *)
(* Descriptors are counted: one for a client that waits, two for one with  *)
(* a session. A client that is gone may connect again.                     *)
(***************************************************************************)
EXTENDS Integers, Sequences, FiniteSets, SequencesExt

CONSTANTS N,            \* config.workers
          Clients,      \* client connections that exist at one time
          QueueLimit,   \* config_.backlog * 4
          MaxFds,       \* descriptors the process may open for connections
          None

ASSUME GatewayAssumption ==
  /\ N \in Nat \ {0} /\ QueueLimit \in Nat \ {0} /\ MaxFds \in Nat
  /\ IsFiniteSet(Clients) /\ None \notin Clients

Workers == 0 .. N - 1

VARIABLES
  pc,             \* where the main thread is
  next,           \* the worker its current loop has come to
  stopRequested,
  backlog,        \* completed connections of the listening socket
  held,           \* the client accepted and not handed over yet
  cursor,         \* dispatchCursor modulo the number of workers
  scan,           \* locals of selectWorker()
  disturbed,      \* a session count changed since the scan began
  picks,          \* the latest choices since the counts last changed
  life, queued, open,   \* each worker's state, see WorkerService
  health, stats   \* the other threads: "none", "running", "stopping", "exited"

workerVars == <<life, queued, open>>
scanVars   == <<cursor, scan, disturbed, picks>>
threadVars == <<workerVars, health, stats>>
vars == <<pc, next, stopRequested, backlog, held, scanVars, threadVars>>

(* Mutant: the health checker is joined before the workers are stopped.    *)
JoinHealthFirst == <<"stopHealth", "joinHealth", "stopWorkers", "joinWorkers",
                     "stopStats", "joinStats", "exited">>

(* The order of the shutdown after the loop.                               *)
Shutdown == <<"stopHealth", "stopWorkers", "joinHealth", "joinWorkers",
              "stopStats", "joinStats", "exited">>
AcceptLoop == {"accept", "configure", "select", "enqueue"}
Failure == {"unwind", "unwindWorkers", "unwindHealth", "failed", "terminated"}
Outcomes == {"exited", "failed", "terminated"}
Ended == pc \in Outcomes        \* main() has returned, or std::terminate()

Scan == [start : Workers, offset : 0 .. N, selected : Workers, minimum : Nat]
NoScan == [start |-> 0, offset |-> 0, selected |-> 0, minimum |-> 0]

TypeOK ==
  /\ pc \in {"start", "startHealth", "startStats", "loop", "poll"}
              \cup AcceptLoop \cup ToSet(Shutdown) \cup Failure
  /\ next \in Workers
  /\ stopRequested \in BOOLEAN
  /\ backlog \in Seq(Clients)
  /\ held \in Clients \cup {None}
  /\ cursor \in Workers /\ scan \in Scan /\ disturbed \in BOOLEAN
  /\ picks \in Seq(Workers)
  /\ life \in [Workers -> {"new", "running", "stopping", "exited"}]
  /\ queued \in [Workers -> SUBSET Clients] /\ open \in [Workers -> SUBSET Clients]
  /\ {health, stats} \subseteq {"none", "running", "stopping", "exited"}

(* Configuration read, signals installed, the listening socket open.       *)
Init ==
  /\ pc = "start" /\ next = 0 /\ stopRequested = FALSE
  /\ backlog = << >> /\ held = None
  /\ cursor = 0 /\ scan = NoScan /\ disturbed = FALSE /\ picks = << >>
  /\ life = [w \in Workers |-> "new"]
  /\ queued = [w \in Workers |-> {}] /\ open = [w \in Workers |-> {}]
  /\ health = "none" /\ stats = "none"

Connected == ToSet(backlog) \cup {held} \cup UNION {queued[w] \cup open[w] : w \in Workers}
Used == Cardinality(UNION {queued[w] : w \in Workers} \cup ({held} \ {None}))
          + 2 * Cardinality(UNION {open[w] : w \in Workers})
activeSessions(w) == Cardinality(open[w])

(* The main thread goes on elsewhere; a loop over the workers begins at 0. *)
Goto(place) == pc' = place /\ next' = 0

(* One round of a loop over the workers; the last one leads to `after'.    *)
NextWorker(after) ==
  IF next = N - 1 THEN Goto(after) ELSE next' = next + 1 /\ UNCHANGED pc

-----------------------------------------------------------------------------
(* Starting. A constructor or std::thread may throw at any of these.       *)

StartWorker ==
  /\ pc = "start"
  /\ life' = [life EXCEPT ![next] = "running"]
  /\ NextWorker("startHealth")
  /\ UNCHANGED <<stopRequested, backlog, held, scanVars, queued, open, health, stats>>

StartHealth ==
  /\ pc = "startHealth"
  /\ health' = "running"
  /\ Goto("startStats")
  /\ UNCHANGED <<stopRequested, backlog, held, scanVars, workerVars, stats>>

(* stats_interval_seconds may be 0, which means no statistics thread.      *)
StartStats(enabled) ==
  /\ pc = "startStats"
  /\ stats' = IF enabled THEN "running" ELSE "none"
  /\ Goto("loop")
  /\ UNCHANGED <<stopRequested, backlog, held, scanVars, workerVars, health>>

(* poll() failing, peerAddress() or enqueue() out of memory.               *)
Throw ==
  /\ pc \in {"start", "startHealth", "startStats", "poll", "enqueue"}
  /\ Goto("unwind")
  /\ UNCHANGED <<stopRequested, backlog, held, scanVars, threadVars>>

-----------------------------------------------------------------------------
(* The poll loop.                                                          *)

CheckStop ==
  /\ pc = "loop"
  /\ Goto(IF stopRequested THEN Shutdown[1] ELSE "poll")
  /\ UNCHANGED <<stopRequested, backlog, held, scanVars, threadVars>>

PollReady ==
  /\ pc = "poll" /\ backlog # << >>
  /\ Goto("accept")
  /\ UNCHANGED <<stopRequested, backlog, held, scanVars, threadVars>>

(* Mutant: poll() without a timeout.                                       *)
PollForEver == FALSE /\ UNCHANGED vars

(* Half a second without a connection.                                     *)
PollTimeout ==
  /\ pc = "poll" /\ backlog = << >>
  /\ Goto("loop")
  /\ UNCHANGED <<stopRequested, backlog, held, scanVars, threadVars>>

(* signalHandler() runs in any thread; only in main does it end the poll().*)
Signal(inMain) ==
  /\ ~Ended /\ ~stopRequested
  /\ stopRequested' = TRUE
  /\ pc' = IF inMain /\ pc = "poll" THEN "loop" ELSE pc
  /\ UNCHANGED <<next, backlog, held, scanVars, threadVars>>

Arrive(c) ==
  /\ ~Ended /\ c \notin Connected
  /\ backlog' = Append(backlog, c)
  /\ UNCHANGED <<pc, next, stopRequested, held, scanVars, threadVars>>

Accept ==
  /\ pc = "accept" /\ backlog # << >> /\ Used < MaxFds
  /\ held' = Head(backlog) /\ backlog' = Tail(backlog)
  /\ Goto("configure")
  /\ UNCHANGED <<stopRequested, scanVars, threadVars>>

(* EAGAIN: the backlog is empty.                                           *)
AcceptEmpty ==
  /\ pc = "accept" /\ backlog = << >>
  /\ Goto("loop")
  /\ UNCHANGED <<stopRequested, backlog, held, scanVars, threadVars>>

(* Mutant: an error of accept4() leaves the outer loop too.                *)
LeaveBothLoops == Shutdown[1]

AfterAcceptError == "loop"

(* EMFILE leaves the connection where it is, ECONNABORTED takes it out.    *)
AcceptFails(aborted) ==
  /\ pc = "accept" /\ backlog # << >>
  /\ aborted \/ Used >= MaxFds
  /\ backlog' = IF aborted THEN Tail(backlog) ELSE backlog
  /\ Goto(AfterAcceptError)
  /\ UNCHANGED <<stopRequested, held, scanVars, threadVars>>

(* setTcpNoDelay() throws: the client is closed and counted as rejected.   *)
ConfigureFails ==
  /\ pc = "configure"
  /\ held' = None
  /\ Goto("accept")
  /\ UNCHANGED <<stopRequested, backlog, scanVars, threadVars>>

-----------------------------------------------------------------------------
(* selectWorker(), one load of a session count at a time.                  *)

(* Mutant: the cursor is not taken modulo the number of workers.           *)
CursorRunsAway == cursor + 1

NextCursor == (cursor + 1) % N

SelectFirst ==
  /\ pc = "configure"
  /\ scan' = [start |-> cursor, offset |-> 1, selected |-> cursor, minimum |-> activeSessions(cursor)]
  /\ cursor' = NextCursor
  /\ disturbed' = FALSE
  /\ Goto("select")
  /\ UNCHANGED <<stopRequested, backlog, held, picks, threadVars>>

(* Mutant: a tie goes to the later worker.                                 *)
LaterWins(w) == activeSessions(w) <= scan.minimum

Wins(w) == activeSessions(w) < scan.minimum

SelectNext ==
  LET w == (scan.start + scan.offset) % N
  IN  /\ pc = "select" /\ scan.offset < N
      /\ scan' = IF Wins(w) THEN [scan EXCEPT !.offset = @ + 1, !.selected = w, !.minimum = activeSessions(w)]
                 ELSE [scan EXCEPT !.offset = @ + 1]
      /\ UNCHANGED <<pc, next, stopRequested, backlog, held, cursor, disturbed, picks, threadVars>>

Selected ==
  /\ pc = "select" /\ scan.offset = N
  /\ Goto("enqueue")
  /\ UNCHANGED <<stopRequested, backlog, held, scanVars, threadVars>>

EqualCounts == \A v, w \in Workers : activeSessions(v) = activeSessions(w)

(* The client is out of main's hands; the choice is remembered.            *)
HandOver ==
  /\ pc = "enqueue"
  /\ held' = None /\ scan' = NoScan /\ disturbed' = FALSE
  /\ picks' = IF disturbed \/ ~EqualCounts THEN << >>
              ELSE LET all == Append(picks, scan.selected)
                   IN  IF Len(all) < N THEN all ELSE Tail(all)
  /\ Goto("accept")
  /\ UNCHANGED <<stopRequested, backlog, cursor, life, open, health, stats>>

(* Mutant: a queue without a limit.                                        *)
AlwaysRoom(w) == TRUE

MayHaveRoom(w) == Cardinality(queued[w]) < 2 * QueueLimit

Enqueue ==
  LET w == scan.selected
  IN  /\ HandOver /\ life[w] = "running" /\ MayHaveRoom(w)
      /\ queued' = [queued EXCEPT ![w] = @ \cup {held}]

(* queue_ is full: main closes the client.                                 *)
Refused ==
  /\ HandOver
  /\ life[scan.selected] # "running" \/ Cardinality(queued[scan.selected]) >= QueueLimit
  /\ UNCHANGED queued

-----------------------------------------------------------------------------
(* Shutdown and unwinding.                                                 *)

Following == Shutdown[1 + CHOOSE i \in 1 .. Len(Shutdown) - 1 : Shutdown[i] = pc]

StopHealth ==
  /\ pc = "stopHealth"
  /\ health' = "stopping"
  /\ Goto(Following)
  /\ UNCHANGED <<stopRequested, backlog, held, scanVars, workerVars, stats>>

StopWorker ==
  /\ pc = "stopWorkers"
  /\ life' = [life EXCEPT ![next] = "stopping"]
  /\ NextWorker(Following)
  /\ UNCHANGED <<stopRequested, backlog, held, scanVars, queued, open, health, stats>>

JoinHealth ==
  /\ pc = "joinHealth" /\ health = "exited"
  /\ Goto(Following)
  /\ UNCHANGED <<stopRequested, backlog, held, scanVars, threadVars>>

JoinWorker ==
  /\ pc = "joinWorkers" /\ life[next] = "exited"
  /\ NextWorker(Following)
  /\ UNCHANGED <<stopRequested, backlog, held, scanVars, threadVars>>

StopStats ==
  /\ pc = "stopStats"
  /\ stats' = IF stats = "running" THEN "stopping" ELSE stats
  /\ Goto(Following)
  /\ UNCHANGED <<stopRequested, backlog, held, scanVars, workerVars, health>>

(* Mutant: the statistics thread is detached.                              *)
StatsDetached == TRUE

StatsJoined == stats \in {"none", "exited"}

JoinStats ==
  /\ pc = "joinStats" /\ StatsJoined
  /\ Goto(Following)
  /\ UNCHANGED <<stopRequested, backlog, held, scanVars, threadVars>>

(* The destructors of main()'s locals, last one first. That of a joinable  *)
(* std::thread is std::terminate(); Worker and HealthChecker stop and join.*)
UnwindStats ==
  /\ pc = "unwind"
  /\ Goto(IF stats = "none" THEN "unwindWorkers" ELSE "terminated")
  /\ UNCHANGED <<stopRequested, backlog, held, scanVars, threadVars>>

UnwindWorker ==
  /\ pc = "unwindWorkers"
  /\ \/ /\ life[next] = "running"
        /\ life' = [life EXCEPT ![next] = "stopping"]
        /\ UNCHANGED <<pc, next>>
     \/ /\ life[next] \in {"new", "exited"}
        /\ NextWorker("unwindHealth")
        /\ UNCHANGED life
  /\ UNCHANGED <<stopRequested, backlog, held, scanVars, queued, open, health, stats>>

UnwindHealth ==
  /\ pc = "unwindHealth"
  /\ \/ health = "running" /\ health' = "stopping" /\ UNCHANGED <<pc, next>>
     \/ health \in {"none", "exited"} /\ Goto("failed") /\ UNCHANGED health
  /\ UNCHANGED <<stopRequested, backlog, held, scanVars, workerVars, stats>>

Main ==
  \/ StartWorker \/ StartHealth \/ \E enabled \in BOOLEAN : StartStats(enabled)
  \/ CheckStop \/ PollReady \/ PollTimeout
  \/ Accept \/ AcceptEmpty \/ \E aborted \in BOOLEAN : AcceptFails(aborted)
  \/ ConfigureFails \/ SelectFirst \/ SelectNext \/ Selected \/ Enqueue \/ Refused
  \/ StopHealth \/ StopWorker \/ JoinHealth \/ JoinWorker \/ StopStats \/ JoinStats
  \/ UnwindStats \/ UnwindWorker \/ UnwindHealth

-----------------------------------------------------------------------------
(* The other threads, while the process lives.                             *)

CountChanges == disturbed' = (pc \in {"select", "enqueue"}) /\ picks' = << >>

Serve(w, c) ==
  /\ ~Ended /\ life[w] \in {"running", "stopping"} /\ c \in queued[w] /\ Used < MaxFds
  /\ queued' = [queued EXCEPT ![w] = @ \ {c}]
  /\ open' = [open EXCEPT ![w] = @ \cup {c}]
  /\ CountChanges
  /\ UNCHANGED <<pc, next, stopRequested, backlog, held, cursor, scan, life, health, stats>>

(* createSession() fails, or the worker is stopping.                       *)
Drop(w, c) ==
  /\ ~Ended /\ c \in queued[w]
  /\ queued' = [queued EXCEPT ![w] = @ \ {c}]
  /\ UNCHANGED <<pc, next, stopRequested, backlog, held, scanVars, life, open, health, stats>>

SessionEnds(w, c) ==
  /\ ~Ended /\ c \in open[w]
  /\ open' = [open EXCEPT ![w] = @ \ {c}]
  /\ CountChanges
  /\ UNCHANGED <<pc, next, stopRequested, backlog, held, cursor, scan, life, queued, health, stats>>

WorkerExits(w) ==
  /\ ~Ended /\ life[w] = "stopping" /\ queued[w] = {}
  /\ life' = [life EXCEPT ![w] = "exited"]
  /\ open' = [open EXCEPT ![w] = {}]
  /\ CountChanges
  /\ UNCHANGED <<pc, next, stopRequested, backlog, held, cursor, scan, queued, health, stats>>

HealthExits ==
  /\ ~Ended /\ health = "stopping" /\ health' = "exited"
  /\ UNCHANGED <<pc, next, stopRequested, backlog, held, scanVars, workerVars, stats>>

StatsExits ==
  /\ ~Ended /\ stats = "stopping" /\ stats' = "exited"
  /\ UNCHANGED <<pc, next, stopRequested, backlog, held, scanVars, workerVars, health>>

WorkerStep(w) == WorkerExits(w) \/ \E c \in Clients : Serve(w, c) \/ Drop(w, c)

Over == Ended /\ UNCHANGED vars

Next ==
  \/ Main \/ Throw
  \/ \E inMain \in BOOLEAN : Signal(inMain)
  \/ \E c \in Clients : Arrive(c)
  \/ \E w \in Workers : WorkerStep(w) \/ \E c \in Clients : SessionEnds(w, c)
  \/ HealthExits \/ StatsExits
  \/ Over

Spec == Init /\ [][Next]_vars

(* Threads are scheduled and sessions end (ProxySession!EventuallyReclaimed).*)
(* Nothing is assumed of the health checker, whose probes may take long.   *)
Fairness ==
  /\ WF_vars(Main)
  /\ \A w \in Workers : WF_vars(WorkerStep(w)) /\ \A c \in Clients : WF_vars(SessionEnds(w, c))
  /\ WF_vars(StatsExits)

FairSpec == Spec /\ Fairness

-----------------------------------------------------------------------------
(* If no session opens or ends during a scan, the chosen worker has the    *)
(* fewest sessions and is the first such in rotation order; and as long as *)
(* the counts stay equal, N clients in a row go to N different workers,    *)
(* although clients still queued are not in the counts.                    *)
FairDispatch ==
  pc = "enqueue" /\ ~disturbed =>
    /\ \A i \in 0 .. N - 1 :
         LET w == (scan.start + i) % N
             s == scan.selected
         IN  /\ activeSessions(s) <= activeSessions(w)
             /\ i < (s - scan.start + N) % N => activeSessions(s) < activeSessions(w)
    /\ EqualCounts => scan.selected \notin ToSet(picks)

(* main() returns, normally or with an error, only after every thread it   *)
(* started has ended: none runs on over destroyed metrics or backends, and *)
(* every client handed to a worker is closed. After a normal end main()    *)
(* has none in hand either; after an exception it may (ExceptionSafe).     *)
NoThreadOutlivesMain ==
  /\ pc \in {"exited", "failed"} =>
       /\ \A w \in Workers : life[w] \in {"new", "exited"} /\ queued[w] = {} /\ open[w] = {}
       /\ health # "running" /\ health # "stopping"
       /\ stats # "running" /\ stats # "stopping"
  /\ pc = "exited" => held = None

(* "Descriptors and thread life cycles must be exception safe": an         *)
(* exception ends in the catch block of main(), with return code 1, and    *)
(* the client being handed over is not left open.                          *)
ExceptionSafe == pc # "terminated" /\ (pc = "failed" => held = None)

(* A connection in the backlog is accepted, however often accept4() runs   *)
(* out of descriptors, unless the gateway is stopped or fails.             *)
BacklogIsServed ==
  \A c \in Clients :
    c \in ToSet(backlog) ~> \/ c \notin ToSet(backlog)
                            \/ stopRequested \/ pc \in Failure

WorkersDone == \A w \in Workers : life[w] \in {"new", "exited"}

(* A stop request ends every worker without waiting for the health checker *)
(* to finish its round, as long as the accept loop finds the backlog empty *)
(* now and then (it does not look at stopRequested).                       *)
WorkersReleased == []<>(pc \notin AcceptLoop) => (stopRequested ~> WorkersDone \/ Ended)

(* The same for the whole process, if the health checker's thread ends.    *)
ShutdownCompletes ==
  []<>(pc \notin AcceptLoop) /\ []<>(health # "stopping") => (stopRequested ~> Ended)

Service(w) == INSTANCE WorkerService WITH life <- life[w], queued <- queued[w], open <- open[w]

(* Main and the other threads use each worker as WorkerService describes.  *)
UsesWorkerService ==
  /\ \A w \in Workers : Service(w)!Init
  /\ [][\A w \in Workers : [Service(w)!Next]_(Service(w)!vars)]_vars

=============================================================================
