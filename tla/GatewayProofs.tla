---------------------------- MODULE GatewayProofs ---------------------------
(***************************************************************************)
(* main() is correct for every number of workers, clients, queue places    *)
(* and descriptors: it returns only when every thread it started has       *)
(* ended, it uses each worker as WorkerService describes, and it deals     *)
(* connections out fairly. StageInv says how far starting, shutting down   *)
(* or unwinding has come at each place of main(); DispatchInv adds what    *)
(* selectWorker() knows half way and the order of the latest choices.      *)
(***************************************************************************)
EXTENDS Gateway, RotationLemmas, FiniteSetTheorems, TLAPS

(* The seven places of the shutdown.                                       *)
LEMMA ShutdownFacts ==
  /\ Len(Shutdown) = 7
  /\ ToSet(Shutdown) = {"stopHealth", "stopWorkers", "joinHealth", "joinWorkers",
                        "stopStats", "joinStats", "exited"}
  /\ Shutdown[1] = "stopHealth" /\ Shutdown[2] = "stopWorkers" /\ Shutdown[3] = "joinHealth"
  /\ Shutdown[4] = "joinWorkers" /\ Shutdown[5] = "stopStats" /\ Shutdown[6] = "joinStats"
  /\ Shutdown[7] = "exited"
BY DEF Shutdown, ToSet

(* Which place of the shutdown follows which.                              *)
LEMMA FollowingFacts ==
  /\ pc = "stopHealth" => Following = "stopWorkers"
  /\ pc = "stopWorkers" => Following = "joinHealth"
  /\ pc = "joinHealth" => Following = "joinWorkers"
  /\ pc = "joinWorkers" => Following = "stopStats"
  /\ pc = "stopStats" => Following = "joinStats"
  /\ pc = "joinStats" => Following = "exited"
<1> DEFINE place == CHOOSE i \in 1 .. Len(Shutdown) - 1 : Shutdown[i] = pc
<1>1. ASSUME NEW n \in 1 .. 6, pc = Shutdown[n]
      PROVE  place = n
  <2>1. \A i \in 1 .. Len(Shutdown) - 1 : Shutdown[i] = pc <=> i = n
    BY <1>1, ShutdownFacts
  <2>2. n \in 1 .. Len(Shutdown) - 1
    BY ShutdownFacts
  <2> QED
    BY <2>1, <2>2
<1>2. Following = Shutdown[1 + place]
  BY DEF Following
<1> HIDE DEF place
<1> QED
  BY <1>1, <1>2, ShutdownFacts

-----------------------------------------------------------------------------
(* Between accept4() and the hand-over there is a client in hand; outside  *)
(* it, only an exception can have left one behind.                         *)
Holding ==
  /\ pc \in {"configure", "select", "enqueue"} => held # None
  /\ pc \notin {"configure", "select", "enqueue"} \cup Failure => held = None

(* A worker that is not running has no clients.                            *)
IdleIsEmpty == \A w \in Workers : life[w] \in {"new", "exited"} => queued[w] = {} /\ open[w] = {}

(* The places of main() at which every worker runs.                        *)
Serving == {"startHealth", "startStats", "loop", "poll", "stopHealth"} \cup AcceptLoop

(* How far the loop over the workers has come: started, stopped, joined,   *)
(* or destroyed by unwinding.                                              *)
WorkerStages ==
  \A w \in Workers :
    /\ pc = "start" => life[w] = IF w < next THEN "running" ELSE "new"
    /\ pc \in Serving => life[w] = "running"
    /\ pc = "stopWorkers" /\ w >= next => life[w] = "running"
    /\ pc = "joinWorkers" /\ w < next => life[w] = "exited"
    /\ pc \in {"stopStats", "joinStats", "exited"} => life[w] = "exited"
    /\ pc = "unwindWorkers" /\ w < next => life[w] \in {"new", "exited"}
    /\ pc \in {"unwindHealth", "failed"} => life[w] \in {"new", "exited"}

(* The other two threads: joined before main() goes on; when main()        *)
(* unwinds past it there is no statistics thread.                          *)
ThreadStages ==
  /\ pc \in {"joinWorkers", "stopStats", "joinStats", "exited"} => health = "exited"
  /\ pc = "failed" => health \in {"none", "exited"}
  /\ pc \in {"unwindWorkers", "unwindHealth", "failed"} => stats = "none"
  /\ pc = "exited" => stats \in {"none", "exited"}

(* The inductive invariant of the life of main() and its threads.          *)
StageInv == TypeOK /\ Holding /\ IdleIsEmpty /\ WorkerStages /\ ThreadStages

(* The worker that selectWorker() meets i places after its start.          *)
Visited(i) == (scan.start + i) % N

(* The selected worker was met at place k and has the fewest sessions of   *)
(* those met so far, the first of them.                                    *)
FewestSoFar(k) ==
  /\ scan.selected = Visited(k)
  /\ \A i \in 0 .. scan.offset - 1 :
       /\ scan.minimum <= activeSessions(Visited(i))
       /\ i < k => scan.minimum < activeSessions(Visited(i))

(* What selectWorker() knows half way, unless a session has opened or      *)
(* ended since it began; the cursor is one ahead of its start.             *)
ScanSound ==
  pc \in {"select", "enqueue"} =>
    /\ pc = "enqueue" => scan.offset = N
    /\ cursor = (scan.start + 1) % N
    /\ ~disturbed => /\ scan.minimum = activeSessions(scan.selected)
                     /\ \E k \in 0 .. scan.offset - 1 : FewestSoFar(k)

(* The worker whose turn it is to be met first.                            *)
Turn == IF pc \in {"select", "enqueue"} THEN scan.start ELSE cursor

(* The worker whose turn was d choices ago.                                *)
Before(d) == IF d <= Turn THEN Turn - d ELSE Turn - d + N

(* While the counts stay equal the choices follow the cursor: the          *)
(* remembered ones are the workers before the one whose turn it is, in     *)
(* order.                                                                  *)
PicksInOrder ==
  /\ Len(picks) < N
  /\ picks # << >> => EqualCounts
  /\ pc \notin Failure => \A j \in 1 .. Len(picks) : picks[j] = Before(Len(picks) - j + 1)

(* The inductive invariant of dispatching.                                 *)
DispatchInv == StageInv /\ ScanSound /\ PicksInOrder

-----------------------------------------------------------------------------
(* The workers are numbered 0 to N - 1.                                    *)
LEMMA WorkersFacts ==
  /\ N \in Nat \ {0} /\ 0 \in Workers /\ N - 1 \in Workers
  /\ \A w \in Workers : w \in Nat /\ (w # N - 1 => w + 1 \in Workers)
  /\ \A w \in Workers : w < N
BY GatewayAssumption DEF Workers

(* The places of main().                                                   *)
Places == {"start", "startHealth", "startStats", "loop", "poll"}
            \cup {"accept", "configure", "select", "enqueue"}
            \cup {"stopHealth", "stopWorkers", "joinHealth", "joinWorkers",
                  "stopStats", "joinStats", "exited"}
            \cup {"unwind", "unwindWorkers", "unwindHealth", "failed", "terminated"}

(* pc is one of them.                                                      *)
LEMMA PcType == TypeOK => pc \in Places
BY ShutdownFacts DEF TypeOK, AcceptLoop, Failure, Places

(* They are those of TypeOK.                                               *)
LEMMA PlaceType ==
  Places = {"start", "startHealth", "startStats", "loop", "poll"}
             \cup AcceptLoop \cup ToSet(Shutdown) \cup Failure
BY ShutdownFacts DEF AcceptLoop, Failure, Places

(* The steps of main() that only take it to another place.                 *)
MainMoves ==
  \/ CheckStop \/ PollReady \/ PollTimeout \/ AcceptEmpty \/ Selected
  \/ JoinHealth \/ JoinStats \/ UnwindStats \/ Throw

(* A step that only moves main() on keeps StageInv.                        *)
LEMMA MainMovesStage ==
  ASSUME StageInv, MainMoves
  PROVE  StageInv'
<1> USE DEF StageInv
<1>1. UNCHANGED <<stopRequested, backlog, held, scanVars, threadVars>> /\ next' = 0
  BY DEF MainMoves, CheckStop, PollReady, PollTimeout, AcceptEmpty, Selected,
     JoinHealth, JoinStats, UnwindStats, Throw, Goto
<1>2. \/ pc = "loop" /\ pc' \in {"stopHealth", "poll"}
      \/ pc = "poll" /\ pc' \in {"accept", "loop"}
      \/ pc = "accept" /\ pc' = "loop"
      \/ pc = "select" /\ pc' = "enqueue"
      \/ pc = "joinHealth" /\ pc' = "joinWorkers" /\ health = "exited"
      \/ pc = "joinStats" /\ pc' = "exited" /\ stats \in {"none", "exited"}
      \/ pc = "unwind" /\ pc' = "unwindWorkers" /\ stats = "none"
      \/ pc = "unwind" /\ pc' = "terminated"
      \/ pc' = "unwind"
  BY ShutdownFacts, FollowingFacts DEF MainMoves, CheckStop, PollReady, PollTimeout, AcceptEmpty, Selected,
     JoinHealth, JoinStats, StatsJoined, UnwindStats, Throw, Goto
<1>3. TypeOK'
  <2>1. pc' \in Places
    BY <1>2 DEF Places
  <2> QED
    BY <1>1, <2>1, PlaceType, WorkersFacts DEF TypeOK, scanVars, threadVars, workerVars
<1>4. Holding' /\ IdleIsEmpty'
  BY <1>1, <1>2 DEF Holding, Failure, IdleIsEmpty, threadVars, workerVars
<1>5. WorkerStages'
  BY <1>1, <1>2, WorkersFacts DEF WorkerStages, threadVars, workerVars, Serving, AcceptLoop
<1>6. ThreadStages'
  BY <1>1, <1>2 DEF ThreadStages, threadVars, workerVars
<1> QED BY <1>3, <1>4, <1>5, <1>6

(* Starting a worker, the health checker or the statistics keeps StageInv. *)
LEMMA StartStage ==
  ASSUME StageInv, StartWorker \/ StartHealth \/ \E enabled \in BOOLEAN : StartStats(enabled)
  PROVE  StageInv'
<1> USE DEF StageInv
<1>1. CASE StartWorker
  <2>1. /\ pc = "start" /\ next \in Workers /\ life' = [life EXCEPT ![next] = "running"]
        /\ \/ next = N - 1 /\ pc' = "startHealth" /\ next' = 0
           \/ next # N - 1 /\ pc' = "start" /\ next' = next + 1
        /\ UNCHANGED <<stopRequested, backlog, held, scanVars, queued, open, health, stats>>
    BY <1>1 DEF StartWorker, NextWorker, Goto, TypeOK
  <2>2. TypeOK'
    BY <2>1, WorkersFacts DEF TypeOK, scanVars
  <2>3. Holding' /\ IdleIsEmpty' /\ ThreadStages'
    BY <2>1 DEF Holding, Failure, IdleIsEmpty, ThreadStages, TypeOK
  <2>4. WorkerStages'
    BY <2>1, WorkersFacts DEF WorkerStages, Serving, AcceptLoop, TypeOK
  <2> QED BY <2>2, <2>3, <2>4
<1>2. CASE StartHealth \/ \E enabled \in BOOLEAN : StartStats(enabled)
  <2>1. /\ \/ pc = "startHealth" /\ pc' = "startStats" /\ health' = "running" /\ stats' = stats
           \/ pc = "startStats" /\ pc' = "loop" /\ health' = health /\ stats' \in {"none", "running"}
        /\ next' = 0
        /\ UNCHANGED <<stopRequested, backlog, held, scanVars, workerVars>>
    BY <1>2 DEF StartHealth, StartStats, Goto
  <2>2. TypeOK'
    BY <2>1, WorkersFacts DEF TypeOK, scanVars, workerVars
  <2>3. Holding' /\ IdleIsEmpty' /\ ThreadStages'
    BY <2>1 DEF Holding, Failure, IdleIsEmpty, ThreadStages, workerVars
  <2>4. WorkerStages'
    BY <2>1 DEF WorkerStages, Serving, AcceptLoop, workerVars
  <2> QED BY <2>2, <2>3, <2>4
<1> QED BY <1>1, <1>2

(* Clients arriving and being accepted, and signals.                       *)
Clientele ==
  \/ Accept \/ ConfigureFails \/ \E aborted \in BOOLEAN : AcceptFails(aborted)
  \/ \E inMain \in BOOLEAN : Signal(inMain)
  \/ \E c \in Clients : Arrive(c)

(* Clients and signals keep StageInv.                                      *)
LEMMA ClienteleStage ==
  ASSUME StageInv, Clientele
  PROVE  StageInv'
<1> USE DEF StageInv
<1>1. /\ \/ pc = "accept" /\ pc' \in {"configure", "loop"} /\ next' = 0
         \/ pc = "configure" /\ pc' = "accept" /\ next' = 0
         \/ pc = "poll" /\ pc' = "loop" /\ next' = next
         \/ pc' = pc /\ next' = next
      /\ UNCHANGED <<scanVars, threadVars>>
  BY DEF Clientele, Accept, ConfigureFails, AcceptFails, AfterAcceptError, Signal, Arrive, Goto
<1>2. /\ backlog' \in Seq(Clients) /\ held' \in Clients \cup {None} /\ stopRequested' \in BOOLEAN
      /\ pc' = "configure" /\ pc # "configure" => held' # None
      /\ pc' = pc \/ pc' = "loop" => held' = held
      /\ pc' = "accept" /\ pc # "accept" => held' = None
  <2>1. backlog \in Seq(Clients)
    BY DEF TypeOK
  <2>2. CASE Accept
    <3>1. Head(backlog) \in Clients /\ Tail(backlog) \in Seq(Clients)
      BY <2>1, <2>2 DEF Accept
    <3> QED
      BY <2>2, <3>1, GatewayAssumption DEF Accept, Goto, TypeOK
  <2>3. CASE ConfigureFails
    BY <2>3 DEF ConfigureFails, Goto, TypeOK
  <2>4. CASE \E aborted \in BOOLEAN : AcceptFails(aborted)
    <3>1. Tail(backlog) \in Seq(Clients)
      BY <2>1, <2>4 DEF AcceptFails
    <3> QED
      BY <2>4, <3>1 DEF AcceptFails, AfterAcceptError, Goto, TypeOK
  <2>5. CASE \E inMain \in BOOLEAN : Signal(inMain)
    BY <2>5 DEF Signal, TypeOK
  <2>6. CASE \E c \in Clients : Arrive(c)
    BY <2>1, <2>6 DEF Arrive, TypeOK
  <2> QED
    BY <2>2, <2>3, <2>4, <2>5, <2>6 DEF Clientele
<1>3. TypeOK'
  BY <1>1, <1>2, WorkersFacts DEF TypeOK, scanVars, threadVars, workerVars, AcceptLoop
<1>4. Holding' /\ IdleIsEmpty' /\ ThreadStages'
  BY <1>1, <1>2 DEF Holding, Failure, IdleIsEmpty, ThreadStages, threadVars, workerVars
<1>5. WorkerStages'
  BY <1>1 DEF WorkerStages, Serving, AcceptLoop, threadVars, workerVars
<1> QED BY <1>3, <1>4, <1>5

(* A session count is a natural number.                                    *)
LEMMA SessionCounts ==
  ASSUME TypeOK, NEW w \in Workers
  PROVE  activeSessions(w) \in Nat
<1>1. open[w] \subseteq Clients
  BY DEF TypeOK
<1> QED
  BY <1>1, GatewayAssumption, FS_Subset, FS_CardinalityType DEF activeSessions

(* Anything modulo N is a worker.                                          *)
LEMMA ModType ==
  ASSUME NEW x \in Nat
  PROVE  x % N \in Workers
BY GatewayAssumption DEF Workers

(* selectWorker() keeps StageInv.                                          *)
LEMMA SelectStage ==
  ASSUME StageInv, SelectFirst \/ SelectNext
  PROVE  StageInv'
<1> USE DEF StageInv
<1>1. /\ \/ pc = "configure" /\ pc' = "select" /\ next' = 0
         \/ pc = "select" /\ pc' = "select" /\ next' = next
      /\ UNCHANGED <<stopRequested, backlog, held, picks, threadVars>>
  BY DEF SelectFirst, SelectNext, Goto
<1>2. cursor' \in Workers /\ scan' \in Scan /\ disturbed' \in BOOLEAN
  <2>1. CASE SelectFirst
    <3>1. cursor \in Workers /\ activeSessions(cursor) \in Nat /\ 1 \in 0 .. N /\ cursor + 1 \in Nat
      BY SessionCounts, WorkersFacts DEF TypeOK
    <3> QED
      BY <2>1, <3>1, ModType DEF SelectFirst, NextCursor, Scan
  <2>2. CASE SelectNext
    <3> DEFINE w == (scan.start + scan.offset) % N
    <3>1. scan \in Scan /\ scan.offset + 1 \in 0 .. N /\ scan.start + scan.offset \in Nat
      BY <2>2, WorkersFacts DEF SelectNext, TypeOK, Scan
    <3>2. w \in Workers
      BY <3>1, ModType
    <3>3. activeSessions(w) \in Nat
      BY <3>2, SessionCounts
    <3>4. /\ scan' = IF Wins(w) THEN [scan EXCEPT !.offset = @ + 1, !.selected = w, !.minimum = activeSessions(w)]
                     ELSE [scan EXCEPT !.offset = @ + 1]
          /\ cursor' = cursor /\ disturbed' = disturbed
      BY <2>2 DEF SelectNext
    <3> HIDE DEF w
    <3> QED
      BY <3>1, <3>2, <3>3, <3>4 DEF Scan, TypeOK
  <2> QED BY <2>1, <2>2
<1>3. TypeOK'
  BY <1>1, <1>2, WorkersFacts DEF TypeOK, threadVars, workerVars, AcceptLoop
<1>4. Holding' /\ IdleIsEmpty' /\ ThreadStages'
  BY <1>1 DEF Holding, Failure, IdleIsEmpty, ThreadStages, threadVars, workerVars
<1>5. WorkerStages'
  BY <1>1 DEF WorkerStages, Serving, AcceptLoop, threadVars, workerVars
<1> QED BY <1>3, <1>4, <1>5

(* Handing a client over, or closing it, keeps StageInv.                   *)
LEMMA HandOverStage ==
  ASSUME StageInv, Enqueue \/ Refused
  PROVE  StageInv'
<1> USE DEF StageInv
<1>1. /\ pc = "enqueue" /\ pc' = "accept" /\ next' = 0 /\ held' = None /\ held \in Clients
      /\ scan' = NoScan /\ disturbed' = FALSE
      /\ UNCHANGED <<stopRequested, backlog, cursor, life, open, health, stats>>
  BY DEF Enqueue, Refused, HandOver, Goto, TypeOK, Holding
<1>2. picks' \in Seq(Workers)
  <2> DEFINE all == Append(picks, scan.selected)
  <2>1. scan.selected \in Workers /\ picks \in Seq(Workers)
    BY DEF TypeOK, Scan
  <2>2. all \in Seq(Workers) /\ all # << >>
    BY <2>1
  <2>3. Tail(all) \in Seq(Workers) /\ << >> \in Seq(Workers)
    BY <2>2
  <2>4. picks' = << >> \/ picks' = all \/ picks' = Tail(all)
    BY DEF Enqueue, Refused, HandOver
  <2> HIDE DEF all
  <2> QED BY <2>2, <2>3, <2>4
<1>3. /\ queued' \in [Workers -> SUBSET Clients]
      /\ \A w \in Workers : life[w] # "running" => queued'[w] = queued[w]
  BY <1>1 DEF Enqueue, Refused, TypeOK
<1>4. NoScan \in Scan
  BY WorkersFacts DEF NoScan, Scan
<1>5. TypeOK'
  BY <1>1, <1>2, <1>3, <1>4, WorkersFacts DEF TypeOK, AcceptLoop
<1>6. Holding' /\ IdleIsEmpty' /\ ThreadStages'
  BY <1>1, <1>3 DEF Holding, Failure, IdleIsEmpty, ThreadStages
<1>7. WorkerStages'
  BY <1>1 DEF WorkerStages, Serving, AcceptLoop
<1> QED BY <1>5, <1>6, <1>7

(* Stopping and joining the threads keeps StageInv.                        *)
LEMMA ShutdownStage ==
  ASSUME StageInv, StopHealth \/ StopWorker \/ JoinWorker \/ StopStats
  PROVE  StageInv'
<1> USE DEF StageInv
<1>0. next \in Workers
  BY DEF TypeOK
<1>1. CASE StopHealth \/ StopStats
  <2>1. /\ \/ pc = "stopHealth" /\ pc' = "stopWorkers" /\ health' = "stopping" /\ stats' = stats
           \/ /\ pc = "stopStats" /\ pc' = "joinStats" /\ health' = health
              /\ stats' = IF stats = "running" THEN "stopping" ELSE stats
        /\ next' = 0
        /\ UNCHANGED <<stopRequested, backlog, held, scanVars, workerVars>>
    BY <1>1, FollowingFacts DEF StopHealth, StopStats, Goto
  <2>2. TypeOK'
    <3>1. pc' \in Places
      BY <2>1 DEF Places
    <3> QED
      BY <2>1, <3>1, PlaceType, WorkersFacts DEF TypeOK, scanVars, workerVars
  <2>3. Holding' /\ IdleIsEmpty' /\ ThreadStages'
    BY <2>1 DEF Holding, Failure, IdleIsEmpty, ThreadStages, workerVars
  <2>4. WorkerStages'
    BY <2>1, WorkersFacts DEF WorkerStages, Serving, AcceptLoop, workerVars
  <2> QED BY <2>2, <2>3, <2>4
<1>2. CASE StopWorker
  <2>1. /\ pc = "stopWorkers" /\ life' = [life EXCEPT ![next] = "stopping"]
        /\ \/ next = N - 1 /\ pc' = "joinHealth" /\ next' = 0
           \/ next # N - 1 /\ pc' = "stopWorkers" /\ next' = next + 1
        /\ UNCHANGED <<stopRequested, backlog, held, scanVars, queued, open, health, stats>>
    BY <1>2, FollowingFacts DEF StopWorker, NextWorker, Goto
  <2>2. TypeOK'
    <3>1. pc' \in Places
      BY <2>1 DEF Places
    <3> QED
      BY <1>0, <2>1, <3>1, PlaceType, WorkersFacts DEF TypeOK, scanVars
  <2>3. Holding' /\ IdleIsEmpty' /\ ThreadStages'
    BY <1>0, <2>1 DEF Holding, Failure, IdleIsEmpty, ThreadStages, TypeOK
  <2>4. WorkerStages'
    <3>1. \A w \in Workers : w >= next + 1 => w >= next /\ w # next
      BY <1>0, WorkersFacts
    <3> QED
      BY <1>0, <2>1, <3>1 DEF WorkerStages, Serving, AcceptLoop, TypeOK
  <2> QED BY <2>2, <2>3, <2>4
<1>3. CASE JoinWorker
  <2>1. /\ pc = "joinWorkers" /\ life[next] = "exited"
        /\ \/ next = N - 1 /\ pc' = "stopStats" /\ next' = 0
           \/ next # N - 1 /\ pc' = "joinWorkers" /\ next' = next + 1
        /\ UNCHANGED <<stopRequested, backlog, held, scanVars, threadVars>>
    BY <1>3, FollowingFacts DEF JoinWorker, NextWorker, Goto
  <2>2. TypeOK'
    <3>1. pc' \in Places
      BY <2>1 DEF Places
    <3> QED
      BY <1>0, <2>1, <3>1, PlaceType, WorkersFacts DEF TypeOK, scanVars, threadVars, workerVars
  <2>3. Holding' /\ IdleIsEmpty' /\ ThreadStages'
    BY <2>1 DEF Holding, Failure, IdleIsEmpty, ThreadStages, threadVars, workerVars
  <2>4. WorkerStages'
    <3>1. \A w \in Workers : w < next \/ w = next => life[w] = "exited"
      BY <2>1 DEF WorkerStages
    <3>2. \A w \in Workers : /\ next = N - 1 => w < next \/ w = next
                             /\ w < next + 1 => w < next \/ w = next
      BY <1>0, WorkersFacts DEF Workers
    <3> QED
      BY <2>1, <3>1, <3>2 DEF WorkerStages, Serving, AcceptLoop, threadVars, workerVars
  <2> QED BY <2>2, <2>3, <2>4
<1> QED BY <1>1, <1>2, <1>3

(* The destructors of an unwinding main() keep StageInv.                   *)
LEMMA UnwindStage ==
  ASSUME StageInv, UnwindWorker \/ UnwindHealth
  PROVE  StageInv'
<1> USE DEF StageInv
<1>0. next \in Workers
  BY DEF TypeOK
<1>1. CASE UnwindHealth
  <2>1. /\ pc = "unwindHealth"
        /\ \/ pc' = pc /\ next' = next /\ health' = "stopping"
           \/ pc' = "failed" /\ next' = 0 /\ health' = health /\ health \in {"none", "exited"}
        /\ UNCHANGED <<stopRequested, backlog, held, scanVars, workerVars, stats>>
    BY <1>1 DEF UnwindHealth, Goto
  <2>2. TypeOK'
    BY <2>1, WorkersFacts DEF TypeOK, Failure, scanVars, workerVars
  <2>3. Holding' /\ IdleIsEmpty' /\ ThreadStages' /\ WorkerStages'
    BY <2>1 DEF Holding, Failure, IdleIsEmpty, ThreadStages, WorkerStages, Serving, AcceptLoop, workerVars
  <2> QED BY <2>2, <2>3
<1>2. CASE UnwindWorker
  <2>1. /\ pc = "unwindWorkers"
        /\ \/ /\ life[next] = "running" /\ life' = [life EXCEPT ![next] = "stopping"]
              /\ pc' = pc /\ next' = next
           \/ /\ life[next] \in {"new", "exited"} /\ life' = life
              /\ next = N - 1 /\ pc' = "unwindHealth" /\ next' = 0
           \/ /\ life[next] \in {"new", "exited"} /\ life' = life
              /\ next # N - 1 /\ pc' = pc /\ next' = next + 1
        /\ UNCHANGED <<stopRequested, backlog, held, scanVars, queued, open, health, stats>>
    BY <1>2 DEF UnwindWorker, NextWorker, Goto
  <2>2. TypeOK'
    BY <1>0, <2>1, WorkersFacts DEF TypeOK, Failure, scanVars
  <2>3. Holding' /\ IdleIsEmpty' /\ ThreadStages'
    BY <1>0, <2>1 DEF Holding, Failure, IdleIsEmpty, ThreadStages, TypeOK
  <2>4. WorkerStages'
    <3>1. \A w \in Workers : /\ next = N - 1 => w < next \/ w = next
                             /\ w < next + 1 => w < next \/ w = next
                             /\ w < next => w # next
      BY <1>0, WorkersFacts DEF Workers
    <3> QED
      BY <1>0, <2>1, <3>1 DEF WorkerStages, Serving, AcceptLoop, TypeOK
  <2> QED BY <2>2, <2>3, <2>4
<1> QED BY <1>1, <1>2

(* The other threads keep StageInv; none of them does anything once main() *)
(* has ended.                                                              *)
LEMMA ThreadsStage ==
  ASSUME StageInv, \/ \E w \in Workers : WorkerStep(w) \/ \E c \in Clients : SessionEnds(w, c)
                   \/ HealthExits \/ StatsExits
  PROVE  StageInv'
<1> USE DEF StageInv
<1>1. UNCHANGED <<pc, next, stopRequested, backlog, held, cursor, scan>> /\ ~Ended
  BY DEF WorkerStep, WorkerExits, Serve, Drop, SessionEnds, HealthExits, StatsExits, scanVars
<1>2. CASE HealthExits \/ StatsExits
  <2>1. /\ \/ health = "stopping" /\ health' = "exited" /\ stats' = stats
           \/ stats = "stopping" /\ stats' = "exited" /\ health' = health
        /\ UNCHANGED <<scanVars, workerVars>>
    BY <1>2 DEF HealthExits, StatsExits
  <2>2. TypeOK'
    BY <1>1, <2>1 DEF TypeOK, scanVars, workerVars
  <2>3. Holding' /\ IdleIsEmpty' /\ WorkerStages'
    BY <1>1, <2>1 DEF Holding, Failure, IdleIsEmpty, WorkerStages, workerVars
  <2>4. ThreadStages'
    BY <1>1, <2>1 DEF ThreadStages, Ended, Outcomes
  <2> QED BY <2>2, <2>3, <2>4
<1>3. ASSUME NEW w \in Workers, WorkerStep(w) \/ \E c \in Clients : SessionEnds(w, c)
      PROVE  StageInv'
  <2>1. UNCHANGED <<health, stats>>
    BY <1>3 DEF WorkerStep, WorkerExits, Serve, Drop, SessionEnds
  <2>2. disturbed' \in BOOLEAN /\ picks' \in Seq(Workers)
    <3>1. \/ UNCHANGED <<disturbed, picks>>
          \/ picks' = << >> /\ disturbed' = (pc \in {"select", "enqueue"})
      BY <1>3 DEF WorkerStep, WorkerExits, Serve, Drop, SessionEnds, CountChanges, scanVars
    <3>2. << >> \in Seq(Workers) /\ (pc \in {"select", "enqueue"}) \in BOOLEAN
      OBVIOUS
    <3> QED BY <3>1, <3>2 DEF TypeOK
  <2>3. queued' \in [Workers -> SUBSET Clients] /\ open' \in [Workers -> SUBSET Clients]
    BY <1>3 DEF WorkerStep, WorkerExits, Serve, Drop, SessionEnds, TypeOK
  <2>4. \/ life' = life
        \/ life[w] = "stopping" /\ life' = [life EXCEPT ![w] = "exited"]
    BY <1>3 DEF WorkerStep, WorkerExits, Serve, Drop, SessionEnds
  <2>5. TypeOK'
    BY <1>1, <2>1, <2>2, <2>3, <2>4 DEF TypeOK
  <2>6. IdleIsEmpty'
    <3>1. CASE WorkerExits(w)
      BY <3>1 DEF WorkerExits, IdleIsEmpty, TypeOK
    <3>2. ASSUME NEW c \in Clients, Serve(w, c) PROVE IdleIsEmpty'
      BY <3>2 DEF Serve, IdleIsEmpty, TypeOK
    <3>3. ASSUME NEW c \in Clients, Drop(w, c) PROVE IdleIsEmpty'
      BY <3>3 DEF Drop, IdleIsEmpty, TypeOK
    <3>4. ASSUME NEW c \in Clients, SessionEnds(w, c) PROVE IdleIsEmpty'
      BY <3>4 DEF SessionEnds, IdleIsEmpty, TypeOK
    <3> QED BY <1>3, <3>1, <3>2, <3>3, <3>4 DEF WorkerStep
  <2>7. Holding' /\ ThreadStages'
    BY <1>1, <2>1 DEF Holding, Failure, ThreadStages
  <2>8. WorkerStages'
    BY <1>1, <2>4, PcType DEF WorkerStages, TypeOK
  <2> QED BY <2>5, <2>6, <2>7, <2>8
<1> QED BY <1>2, <1>3

(* StageInv holds before the first worker is started.                      *)
LEMMA StageInit == Init => StageInv
<1> SUFFICES ASSUME Init PROVE StageInv
    OBVIOUS
<1>1. NoScan \in Scan
  BY WorkersFacts DEF NoScan, Scan
<1>2. TypeOK
  BY <1>1, WorkersFacts DEF Init, TypeOK
<1>3. Holding /\ IdleIsEmpty /\ ThreadStages
  BY DEF Init, Holding, Failure, IdleIsEmpty, ThreadStages
<1>4. WorkerStages
  BY WorkersFacts DEF Init, WorkerStages, Serving, AcceptLoop
<1> QED BY <1>2, <1>3, <1>4 DEF StageInv

(* Every step keeps StageInv.                                              *)
LEMMA StageNext == StageInv /\ [Next]_vars => StageInv'
<1> SUFFICES ASSUME StageInv, [Next]_vars PROVE StageInv'
    OBVIOUS
<1>1. CASE Over \/ UNCHANGED vars
  <2>1. TypeOK' /\ Holding' /\ IdleIsEmpty' /\ ThreadStages' /\ WorkerStages'
    BY <1>1 DEF Over, vars, scanVars, threadVars, workerVars, StageInv, TypeOK, Holding, Failure, IdleIsEmpty,
       ThreadStages, WorkerStages
  <2> QED BY <2>1 DEF StageInv
<1> QED
  BY <1>1, MainMovesStage, StartStage, ClienteleStage, SelectStage, HandOverStage, ShutdownStage,
     UnwindStage, ThreadsStage DEF Next, Main, MainMoves, Clientele

(* The inductive invariant holds of every reachable state.                 *)
THEOREM Stages == Spec => []StageInv
BY StageInit, StageNext, PTL DEF Spec

(* The type invariant, for every N.                                        *)
THEOREM TypeCorrect == Spec => []TypeOK
BY Stages, PTL DEF StageInv

(* main() returns, normally or with an error, only when every thread it    *)
(* started has ended and every client handed to a worker is closed, and it *)
(* returns normally only with no client in hand, for every number of       *)
(* workers and wherever starting failed.                                   *)
THEOREM ThreadsJoined == Spec => []NoThreadOutlivesMain
<1>1. StageInv => NoThreadOutlivesMain
  BY DEF StageInv, NoThreadOutlivesMain, Holding, Failure, IdleIsEmpty, WorkerStages, ThreadStages
<1> QED BY <1>1, Stages, PTL

-----------------------------------------------------------------------------
(* A step of a worker's own thread is one WorkerService allows.            *)
LEMMA WorkerStepServes ==
  ASSUME TypeOK, NEW w \in Workers, WorkerStep(w) \/ \E c \in Clients : SessionEnds(w, c)
  PROVE  Service(w)!Next
<1> USE DEF TypeOK
<1>1. CASE WorkerExits(w)
  BY <1>1 DEF WorkerExits, Service!Next, Service!Exit
<1>2. ASSUME NEW c \in Clients, Serve(w, c)
      PROVE  Service(w)!Next
  <2>1. Service(w)!Serve(c)
    BY <1>2 DEF Serve, Service!Serve
  <2> QED BY <2>1 DEF Service!Next
<1>3. ASSUME NEW c \in Clients, Drop(w, c)
      PROVE  Service(w)!Next
  <2>1. Service(w)!Drop(c)
    BY <1>3 DEF Drop, Service!Drop
  <2> QED BY <2>1 DEF Service!Next
<1>4. ASSUME NEW c \in Clients, SessionEnds(w, c)
      PROVE  Service(w)!Next
  <2>1. {c} \in SUBSET open[w] /\ Service(w)!Close({c})
    BY <1>4 DEF SessionEnds, Service!Close
  <2> QED BY <2>1 DEF Service!Next
<1> QED
  BY <1>1, <1>2, <1>3, <1>4 DEF WorkerStep

(* No step of main() or of another thread does to a worker what            *)
(* WorkerService does not allow: it is started once, handed clients only   *)
(* while it runs and has room, and stopped once.                           *)
LEMMA ServiceStep ==
  ASSUME StageInv, [Next]_vars, NEW v \in Workers
  PROVE  [Service(v)!Next]_(Service(v)!vars)
<1> USE DEF StageInv
<1>0. next \in Workers /\ life \in [Workers -> {"new", "running", "stopping", "exited"}]
  BY DEF TypeOK
<1>1. ASSUME UNCHANGED <<life[v], queued[v], open[v]>>
      PROVE  UNCHANGED Service(v)!vars
  BY <1>1 DEF Service!vars
<1>2. CASE StartWorker
  <2>1. life[next] = "new"
    BY <1>0, <1>2, WorkersFacts DEF StartWorker, WorkerStages
  <2>2. CASE v = next
    BY <1>0, <1>2, <2>1, <2>2 DEF StartWorker, Service!Next, Service!Start
  <2>3. CASE v # next
    BY <1>0, <1>1, <1>2, <2>3 DEF StartWorker
  <2> QED BY <2>2, <2>3
<1>3. CASE StopWorker \/ UnwindWorker
  <2>1. \/ life' = life
        \/ life[next] = "running" /\ life' = [life EXCEPT ![next] = "stopping"]
    BY <1>0, <1>3, WorkersFacts DEF StopWorker, UnwindWorker, WorkerStages
  <2>2. UNCHANGED <<queued, open>>
    BY <1>3 DEF StopWorker, UnwindWorker
  <2>3. CASE v = next
    BY <1>0, <1>1, <2>1, <2>2, <2>3 DEF Service!Next, Service!Stop
  <2>4. CASE v # next
    BY <1>0, <1>1, <2>1, <2>2, <2>4
  <2> QED BY <2>3, <2>4
<1>4. CASE Enqueue
  <2>1. held \in Clients /\ scan.selected \in Workers
    BY <1>4 DEF Enqueue, HandOver, Holding, TypeOK, Scan
  <2>2. CASE v = scan.selected
    <3>1. life[v] = "running" /\ Cardinality(queued[v]) < 2 * QueueLimit
      BY <1>4, <2>2 DEF Enqueue, MayHaveRoom
    <3>2. queued'[v] = queued[v] \cup {held} /\ life'[v] = life[v] /\ open'[v] = open[v]
      BY <1>4, <2>1, <2>2 DEF Enqueue, HandOver, TypeOK
    <3>3. Service(v)!Cardinality(queued[v]) = Cardinality(queued[v])
      BY DEF Service!Cardinality, Cardinality
    <3>4. Service(v)!Enqueue(held)
      BY <3>1, <3>2, <3>3 DEF Service!Enqueue
    <3> QED BY <2>1, <3>4 DEF Service!Next
  <2>3. CASE v # scan.selected
    BY <1>1, <1>4, <2>1, <2>3 DEF Enqueue, HandOver, TypeOK
  <2> QED BY <2>2, <2>3
<1>5. ASSUME NEW w \in Workers, WorkerStep(w) \/ \E c \in Clients : SessionEnds(w, c)
      PROVE  [Service(v)!Next]_(Service(v)!vars)
  <2>1. CASE v = w
    BY <1>5, <2>1, WorkerStepServes
  <2>2. CASE v # w
    <3>1. UNCHANGED <<life[v], queued[v], open[v]>>
      <4>1. CASE WorkerExits(w)
        BY <2>2, <4>1 DEF WorkerExits, TypeOK
      <4>2. CASE \E c \in Clients : Serve(w, c)
        BY <2>2, <4>2 DEF Serve, TypeOK
      <4>3. CASE \E c \in Clients : Drop(w, c)
        BY <2>2, <4>3 DEF Drop, TypeOK
      <4>4. CASE \E c \in Clients : SessionEnds(w, c)
        BY <2>2, <4>4 DEF SessionEnds, TypeOK
      <4> QED BY <1>5, <4>1, <4>2, <4>3, <4>4 DEF WorkerStep
    <3> QED BY <1>1, <3>1
  <2> QED BY <2>1, <2>2
<1>6. CASE ~(\/ StartWorker \/ StopWorker \/ UnwindWorker \/ Enqueue
             \/ \E w \in Workers : WorkerStep(w) \/ \E c \in Clients : SessionEnds(w, c))
  <2>1. UNCHANGED workerVars
    BY <1>6 DEF Next, Main, vars, threadVars, workerVars, StartHealth, StartStats, CheckStop, PollReady,
       PollTimeout, Accept, AcceptEmpty, AcceptFails, ConfigureFails, SelectFirst, SelectNext, Selected,
       Refused, HandOver, StopHealth, JoinHealth, JoinWorker, StopStats, JoinStats, UnwindStats,
       UnwindHealth, Throw, Signal, Arrive, HealthExits, StatsExits, Over
  <2> QED BY <1>1, <2>1 DEF workerVars
<1> QED
  BY <1>2, <1>3, <1>4, <1>5, <1>6

(* main() and the other threads use each of the N workers as WorkerService *)
(* describes.                                                              *)
THEOREM WorkersAreUsed == Spec => UsesWorkerService
<1>1. Init => \A w \in Workers : Service(w)!Init
  BY DEF Init, Service!Init
<1>2. StageInv /\ [Next]_vars => [\A w \in Workers : [Service(w)!Next]_(Service(w)!vars)]_vars
  BY ServiceStep
<1> QED
  BY <1>1, <1>2, Stages, PTL DEF Spec, UsesWorkerService

-----------------------------------------------------------------------------
(* The places of main() at which selectWorker() is under way or its choice *)
(* not used yet.                                                           *)
Scanning == {"select", "enqueue"}

(* The types the arithmetic below starts from.                             *)
LEMMA ScanTypes ==
  ASSUME TypeOK
  PROVE  /\ scan \in Scan /\ cursor \in 0 .. N - 1 /\ N \in Nat \ {0}
         /\ scan.start \in 0 .. N - 1 /\ scan.offset \in 0 .. N /\ scan.selected \in Workers
         /\ scan.minimum \in Nat /\ picks \in Seq(Workers) /\ Len(picks) \in Nat
BY WorkersFacts DEF TypeOK, Scan, Workers

(* A step that leaves counts, cursor and choices alone keeps the           *)
(* dispatching invariant, as long as main() does not leave selectWorker()  *)
(* half way, except to unwind.                                             *)
LEMMA QuietDispatch ==
  ASSUME DispatchInv, UNCHANGED <<cursor, scan, disturbed, picks, open>>,
         \/ pc' = pc
         \/ pc \notin Scanning /\ pc' \notin Scanning /\ pc \notin Failure
         \/ pc = "select" /\ pc' = "enqueue" /\ scan.offset = N
         \/ pc' \in Failure
  PROVE  ScanSound' /\ PicksInOrder'
<1> USE DEF DispatchInv, Scanning, Failure
<1>1. ScanSound'
  BY DEF ScanSound, FewestSoFar, Visited, activeSessions
<1>2. EqualCounts' <=> EqualCounts
  BY DEF EqualCounts, activeSessions
<1>3. pc' \notin Failure => pc \notin Failure /\ Turn' = Turn
  BY DEF Turn
<1>4. PicksInOrder'
  BY <1>2, <1>3 DEF PicksInOrder, Before
<1> QED BY <1>1, <1>4

(* When a session opens or ends, the scan is marked and the choices are    *)
(* forgotten.                                                              *)
LEMMA CountChangesDispatch ==
  ASSUME DispatchInv, UNCHANGED <<pc, cursor, scan>>, CountChanges
  PROVE  ScanSound' /\ PicksInOrder'
<1>1. ScanSound'
  BY DEF DispatchInv, ScanSound, CountChanges
<1>2. picks' = << >> /\ Len(picks') = 0
  BY DEF CountChanges
<1>3. PicksInOrder'
  BY <1>2, WorkersFacts DEF PicksInOrder
<1> QED BY <1>1, <1>3

(* The first worker met is the best so far.                                *)
LEMMA SelectFirstDispatch ==
  ASSUME DispatchInv, SelectFirst
  PROVE  ScanSound' /\ PicksInOrder'
<1> USE DEF DispatchInv, StageInv
<1>0. cursor \in 0 .. N - 1 /\ cursor \in Workers /\ N \in Nat \ {0}
  BY ScanTypes DEF TypeOK
<1>1. /\ pc = "configure" /\ pc' = "select" /\ cursor' = (cursor + 1) % N
      /\ scan'.start = cursor /\ scan'.offset = 1 /\ scan'.selected = cursor
      /\ scan'.minimum = activeSessions(cursor)
      /\ UNCHANGED <<picks, open>>
  BY DEF SelectFirst, Goto, NextCursor, threadVars, workerVars
<1>2. \A w : activeSessions(w)' = activeSessions(w)
  BY <1>1 DEF activeSessions
<1>3. ScanSound'
  <2>1. Visited(0)' = cursor
    BY <1>0, <1>1, ModSmall DEF Visited
  <2>2. activeSessions(cursor) \in Nat
    BY <1>0, SessionCounts
  <2>3. 0 \in 0 .. scan'.offset - 1 /\ \A i \in 0 .. scan'.offset - 1 : i = 0
    BY <1>1
  <2>4. FewestSoFar(0)'
    BY <1>1, <1>2, <2>1, <2>2, <2>3 DEF FewestSoFar
  <2> QED
    BY <1>1, <1>2, <2>3, <2>4 DEF ScanSound
<1>4. PicksInOrder'
  <2>1. Turn' = Turn /\ pc \notin Failure
    BY <1>1 DEF Turn, Failure
  <2>2. EqualCounts' <=> EqualCounts
    BY <1>2 DEF EqualCounts
  <2> QED
    BY <1>1, <2>1, <2>2 DEF PicksInOrder, Before
<1> QED BY <1>3, <1>4

(* The next worker replaces the selected one only if it has fewer          *)
(* sessions.                                                               *)
LEMMA SelectNextDispatch ==
  ASSUME DispatchInv, SelectNext
  PROVE  ScanSound' /\ PicksInOrder'
<1> USE DEF DispatchInv, StageInv
<1> DEFINE o == scan.offset
           w == Visited(o)
<1>0. /\ scan \in Scan /\ scan.start \in 0 .. N - 1 /\ o \in 0 .. N - 1 /\ N \in Nat \ {0}
      /\ scan.minimum \in Nat
  BY ScanTypes DEF SelectNext
<1>1. /\ pc = "select" /\ pc' = "select"
      /\ \/ /\ activeSessions(w) < scan.minimum
            /\ scan' = [scan EXCEPT !.offset = @ + 1, !.selected = w, !.minimum = activeSessions(w)]
         \/ /\ ~(activeSessions(w) < scan.minimum)
            /\ scan' = [scan EXCEPT !.offset = @ + 1]
      /\ UNCHANGED <<cursor, disturbed, picks, open>>
  BY DEF SelectNext, Wins, Visited, threadVars, workerVars
<1>2. \A v : activeSessions(v)' = activeSessions(v)
  BY <1>1 DEF activeSessions
<1>3. scan'.start = scan.start /\ scan'.offset = o + 1
  BY <1>0, <1>1 DEF Scan
<1>4. \A i : Visited(i)' = Visited(i)
  BY <1>3 DEF Visited
<1>5. /\ w \in Workers /\ activeSessions(w) \in Nat
  <2>1. scan.start + o \in Nat
    BY <1>0
  <2>2. w \in Workers
    BY <2>1, ModType DEF Visited
  <2> QED BY <2>2, SessionCounts
<1>6. ASSUME ~disturbed
      PROVE  /\ scan'.minimum = activeSessions(scan'.selected)
             /\ \E k \in 0 .. o : FewestSoFar(k)'
  <2>1. PICK k \in 0 .. o - 1 : FewestSoFar(k)
    BY <1>1, <1>6 DEF ScanSound
  <2>2. /\ 0 .. scan'.offset - 1 = 0 .. o /\ \A i \in 0 .. o : i \in 0 .. o - 1 \/ i = o
        /\ k \in 0 .. o /\ ~(o < k) /\ o \in 0 .. o
    BY <1>0, <1>3, <2>1
  <2>3. ASSUME NEW i \in 0 .. o
        PROVE  activeSessions(Visited(i)) \in Nat
    <3>1. scan.start + i \in Nat
      BY <1>0
    <3>2. Visited(i) \in Workers
      BY <3>1, ModType DEF Visited
    <3> QED BY <3>2, SessionCounts
  <2>4. CASE activeSessions(w) < scan.minimum
    <3>1. scan'.selected = w /\ scan'.minimum = activeSessions(w)
      BY <1>0, <1>1, <2>4 DEF Scan
    <3>2. ASSUME NEW i \in 0 .. o
          PROVE  /\ activeSessions(w) <= activeSessions(Visited(i))
                 /\ i < o => activeSessions(w) < activeSessions(Visited(i))
      <4>1. CASE i = o
        BY <1>0, <1>5, <4>1
      <4>2. CASE i \in 0 .. o - 1
        <5>1. scan.minimum <= activeSessions(Visited(i))
          BY <2>1, <4>2 DEF FewestSoFar
        <5> QED BY <1>0, <1>5, <2>3, <2>4, <5>1
      <4> QED BY <2>2, <4>1, <4>2
    <3>3. PICK here \in 0 .. o : here = o
      BY <2>2
    <3>4. FewestSoFar(here)'
      BY <1>2, <1>4, <2>2, <3>1, <3>2, <3>3 DEF FewestSoFar
    <3> QED BY <1>2, <3>1, <3>4
  <2>5. CASE ~(activeSessions(w) < scan.minimum)
    <3>1. scan'.selected = scan.selected /\ scan'.minimum = scan.minimum
      BY <1>0, <1>1, <2>5 DEF Scan
    <3>2. scan.minimum <= activeSessions(w)
      BY <1>0, <1>5, <2>5
    <3>3. FewestSoFar(k)'
      <4>1. scan.selected = Visited(k)
        BY <2>1 DEF FewestSoFar
      <4>2. ASSUME NEW i \in 0 .. o
            PROVE  /\ scan.minimum <= activeSessions(Visited(i))
                   /\ i < k => scan.minimum < activeSessions(Visited(i))
        <5>1. CASE i = o
          BY <2>2, <3>2, <5>1
        <5>2. CASE i \in 0 .. o - 1
          BY <2>1, <5>2 DEF FewestSoFar
        <5> QED BY <2>2, <5>1, <5>2
      <4> QED
        BY <1>2, <1>4, <2>2, <3>1, <4>1, <4>2 DEF FewestSoFar
    <3>4. scan.minimum = activeSessions(scan.selected)
      BY <1>1, <1>6 DEF ScanSound
    <3> QED BY <2>2, <3>1, <3>3, <3>4
  <2> QED BY <2>4, <2>5
<1>7. ScanSound'
  <2>1. 0 .. scan'.offset - 1 = 0 .. o
    BY <1>0, <1>3
  <2>2. cursor' = (scan'.start + 1) % N
    BY <1>1, <1>3 DEF ScanSound
  <2> QED
    BY <1>1, <1>2, <1>6, <2>1, <2>2 DEF ScanSound
<1>8. PicksInOrder'
  <2>1. Turn' = Turn /\ pc \notin Failure
    BY <1>1, <1>3 DEF Turn, Failure
  <2>2. EqualCounts' <=> EqualCounts
    BY <1>2 DEF EqualCounts
  <2> QED
    BY <1>1, <2>1, <2>2 DEF PicksInOrder, Before
<1> QED BY <1>7, <1>8

(* With equal counts the choice is the worker met first.                   *)
LEMMA TieGoesToStart ==
  ASSUME DispatchInv, pc = "enqueue", ~disturbed, EqualCounts
  PROVE  scan.selected = scan.start
<1>1. /\ scan.start \in 0 .. N - 1 /\ scan.start \in Workers /\ N \in Nat \ {0}
      /\ scan.selected \in Workers
  BY ScanTypes DEF DispatchInv, StageInv, TypeOK, Scan
<1>2. scan.offset = N /\ scan.minimum = activeSessions(scan.selected)
  BY DEF DispatchInv, ScanSound
<1>3. PICK k \in 0 .. N - 1 : FewestSoFar(k)
  BY <1>2 DEF DispatchInv, ScanSound
<1>4. Visited(0) = scan.start
  BY <1>1, ModSmall DEF Visited
<1>5. ~(0 < k)
  <2> SUFFICES ASSUME 0 < k PROVE FALSE
    OBVIOUS
  <2>1. 0 \in 0 .. scan.offset - 1
    BY <1>1, <1>2
  <2>2. scan.minimum < activeSessions(scan.start)
    BY <1>3, <1>4, <2>1 DEF FewestSoFar
  <2>3. activeSessions(scan.selected) = activeSessions(scan.start) /\ activeSessions(scan.start) \in Nat
    BY <1>1, SessionCounts DEF EqualCounts, DispatchInv, StageInv
  <2> QED BY <1>2, <2>2, <2>3
<1>6. k = 0
  BY <1>1, <1>5
<1> QED
  BY <1>3, <1>4, <1>6 DEF FewestSoFar

(* The choice joins the remembered ones and the turn passes on by one.     *)
LEMMA HandOverDispatch ==
  ASSUME DispatchInv, Enqueue \/ Refused
  PROVE  ScanSound' /\ PicksInOrder'
<1> USE DEF DispatchInv, StageInv
<1> DEFINE all == Append(picks, scan.selected)
           L == Len(picks)
           t == scan.start
<1>0. /\ t \in 0 .. N - 1 /\ N \in Nat \ {0} /\ picks \in Seq(Workers) /\ L \in 0 .. N - 1
      /\ scan.selected \in Workers
  BY ScanTypes DEF PicksInOrder
<1>1. /\ pc = "enqueue" /\ pc' = "accept" /\ cursor' = cursor /\ open' = open
      /\ \/ picks' = << >>
         \/ /\ ~disturbed /\ EqualCounts
            /\ picks' = IF Len(all) < N THEN all ELSE Tail(all)
  BY DEF Enqueue, Refused, HandOver, Goto
<1>2. ScanSound'
  BY <1>1 DEF ScanSound
<1>3. EqualCounts' <=> EqualCounts
  BY <1>1 DEF EqualCounts, activeSessions
<1>4. CASE picks' = << >>
  <2>1. Len(picks') = 0
    BY <1>4
  <2> QED
    BY <1>2, <1>4, <2>1, WorkersFacts DEF PicksInOrder
<1>5. CASE /\ ~disturbed /\ EqualCounts
           /\ picks' = IF Len(all) < N THEN all ELSE Tail(all)
  <2>1. scan.selected = t
    BY <1>1, <1>5, TieGoesToStart
  <2>2. Turn = t /\ Turn' = IF t = N - 1 THEN 0 ELSE t + 1
    <3>1. cursor = (t + 1) % N
      BY <1>1 DEF ScanSound
    <3>2. (t + 1) % N = IF t = N - 1 THEN 0 ELSE t + 1
      BY <1>0, ModSmall, ModWrap
    <3> QED
      BY <1>1, <3>1, <3>2 DEF Turn
  <2>3. \A j \in 1 .. L : picks[j] = Before(L - j + 1)
    BY <1>1 DEF PicksInOrder, Failure
  <2>4. all \in Seq(Workers) /\ Len(all) = L + 1 /\ all[L + 1] = t /\ \A j \in 1 .. L : all[j] = picks[j]
    BY <1>0, <2>1
  <2>5. ASSUME NEW d \in 0 .. N - 2
        PROVE  Before(d) = IF d + 1 <= Turn' THEN Turn' - (d + 1) ELSE Turn' - (d + 1) + N
    BY <1>0, <2>2 DEF Before
  <2>6. \A j \in 1 .. L + 1 : all[j] = Before(L + 1 - j)
    <3>1. Before(0) = t
      BY <1>0, <2>2 DEF Before
    <3>2. ASSUME NEW j \in 1 .. L + 1
          PROVE  all[j] = Before(L + 1 - j)
      <4>1. CASE j = L + 1
        BY <1>0, <2>4, <3>1, <4>1
      <4>2. CASE j \in 1 .. L
        <5>1. L - j + 1 = L + 1 - j
          BY <1>0
        <5> QED BY <2>3, <2>4, <4>2, <5>1
      <4> QED BY <1>0, <4>1, <4>2
    <3> QED BY <3>2
  <2> HIDE DEF all
  <2>7. CASE Len(all) < N
    <3>1. picks' = all /\ Len(picks') = L + 1 /\ L + 1 < N
      BY <1>5, <2>4, <2>7
    <3>2. ASSUME NEW j \in 1 .. L + 1
          PROVE  picks'[j] = Before(Len(picks) - j + 1)'
      <4>1. L + 1 - j \in 0 .. N - 2 /\ L + 1 - j + 1 = Len(picks') - j + 1
        BY <1>0, <3>1
      <4> QED
        BY <2>5, <2>6, <3>1, <4>1 DEF Before
    <3> QED
      BY <1>2, <1>3, <1>5, <3>1, <3>2 DEF PicksInOrder
  <2>8. CASE ~(Len(all) < N)
    <3>1. picks' = Tail(all) /\ L + 1 = N
      BY <1>0, <1>5, <2>4, <2>8
    <3>2. Len(picks') = L /\ \A j \in 1 .. L : picks'[j] = all[j + 1]
      BY <1>0, <2>4, <3>1
    <3>3. ASSUME NEW j \in 1 .. L
          PROVE  picks'[j] = Before(Len(picks) - j + 1)'
      <4>1. L - j \in 0 .. N - 2 /\ L - j + 1 = Len(picks') - j + 1 /\ j + 1 \in 1 .. L + 1
        BY <1>0, <3>2
      <4>2. L + 1 - (j + 1) = L - j
        BY <1>0
      <4>3. picks'[j] = Before(L - j)
        BY <2>6, <3>2, <4>1, <4>2
      <4> QED
        BY <2>5, <4>1, <4>3 DEF Before
    <3>4. L < N
      BY <1>0, <3>1
    <3> QED
      BY <1>2, <1>3, <1>5, <3>2, <3>3, <3>4 DEF PicksInOrder
  <2> QED BY <2>7, <2>8
<1> QED BY <1>1, <1>4, <1>5

(* Every step keeps the dispatching invariant.                             *)
LEMMA DispatchNext == DispatchInv /\ [Next]_vars => DispatchInv'
<1> SUFFICES ASSUME DispatchInv, [Next]_vars PROVE DispatchInv'
    OBVIOUS
<1>0. StageInv'
  BY StageNext DEF DispatchInv
<1>1. CASE MainMoves
  <2>1. UNCHANGED <<cursor, scan, disturbed, picks, open>>
    BY <1>1 DEF MainMoves, CheckStop, PollReady, PollTimeout, AcceptEmpty, Selected, JoinHealth,
       JoinStats, UnwindStats, Throw, scanVars, threadVars, workerVars
  <2>2. \/ pc \notin Scanning /\ pc' \notin Scanning /\ pc \notin Failure
        \/ pc = "select" /\ pc' = "enqueue" /\ scan.offset = N
        \/ pc' \in Failure
    BY <1>1, ShutdownFacts, FollowingFacts DEF MainMoves, CheckStop, PollReady, PollTimeout, AcceptEmpty,
       Selected, JoinHealth, JoinStats, UnwindStats, Throw, Goto, Scanning, Failure
  <2> QED BY <1>0, <2>1, <2>2, QuietDispatch DEF DispatchInv
<1>2. CASE \/ StartWorker \/ StartHealth \/ \E enabled \in BOOLEAN : StartStats(enabled)
           \/ StopHealth \/ StopWorker \/ JoinWorker \/ StopStats \/ UnwindWorker \/ UnwindHealth
  <2>1. UNCHANGED <<cursor, scan, disturbed, picks, open>>
    BY <1>2 DEF StartWorker, StartHealth, StartStats, StopHealth, StopWorker, JoinWorker, StopStats,
       UnwindWorker, UnwindHealth, scanVars, threadVars, workerVars
  <2>2. \/ pc \notin Scanning /\ pc' \notin Scanning /\ pc \notin Failure
        \/ pc' \in Failure
    BY <1>2, FollowingFacts DEF StartWorker, StartHealth, StartStats, StopHealth, StopWorker, JoinWorker,
       StopStats, UnwindWorker, UnwindHealth, NextWorker, Goto, Scanning, Failure
  <2> QED BY <1>0, <2>1, <2>2, QuietDispatch DEF DispatchInv
<1>3. CASE Clientele
  <2>1. UNCHANGED <<cursor, scan, disturbed, picks, open>>
    BY <1>3 DEF Clientele, Accept, ConfigureFails, AcceptFails, Signal, Arrive, scanVars, threadVars, workerVars
  <2>2. \/ pc' = pc
        \/ pc \notin Scanning /\ pc' \notin Scanning /\ pc \notin Failure
    BY <1>3 DEF Clientele, Accept, ConfigureFails, AcceptFails, AfterAcceptError, Signal, Arrive, Goto,
       Scanning, Failure
  <2> QED BY <1>0, <2>1, <2>2, QuietDispatch DEF DispatchInv
<1>4. CASE Enqueue \/ Refused
  BY <1>0, <1>4, HandOverDispatch DEF DispatchInv
<1>5. CASE SelectFirst \/ SelectNext
  BY <1>0, <1>5, SelectFirstDispatch, SelectNextDispatch DEF DispatchInv
<1>6. ASSUME NEW w \in Workers, WorkerStep(w) \/ \E c \in Clients : SessionEnds(w, c)
      PROVE  DispatchInv'
  <2>1. \/ UNCHANGED <<pc, cursor, scan, disturbed, picks, open>>
        \/ UNCHANGED <<pc, cursor, scan>> /\ CountChanges
    BY <1>6 DEF WorkerStep, WorkerExits, Serve, Drop, SessionEnds, scanVars
  <2> QED BY <1>0, <2>1, QuietDispatch, CountChangesDispatch DEF DispatchInv
<1>7. CASE HealthExits \/ StatsExits \/ Over \/ UNCHANGED vars
  <2>1. UNCHANGED <<pc, cursor, scan, disturbed, picks, open>>
    BY <1>7 DEF HealthExits, StatsExits, Over, vars, scanVars, threadVars, workerVars
  <2> QED BY <1>0, <2>1, QuietDispatch DEF DispatchInv
<1> QED
  BY <1>1, <1>2, <1>3, <1>4, <1>5, <1>6, <1>7 DEF Next, Main, MainMoves, Clientele

(* The dispatching invariant holds at the start.                           *)
LEMMA DispatchInit == Init => DispatchInv
<1> SUFFICES ASSUME Init PROVE DispatchInv
    OBVIOUS
<1>1. picks = << >> /\ Len(picks) = 0
  BY DEF Init
<1>2. ScanSound /\ PicksInOrder
  BY <1>1, WorkersFacts DEF Init, ScanSound, PicksInOrder
<1> QED BY <1>2, StageInit DEF DispatchInv

(* The invariant implies that the dispatch is fair.                        *)
LEMMA DispatchIsFair == DispatchInv => FairDispatch
<1> SUFFICES ASSUME DispatchInv, pc = "enqueue", ~disturbed
             PROVE  /\ \A i \in 0 .. N - 1 :
                         LET w == (scan.start + i) % N
                             s == scan.selected
                         IN  /\ activeSessions(s) <= activeSessions(w)
                             /\ i < (s - scan.start + N) % N => activeSessions(s) < activeSessions(w)
                    /\ EqualCounts => scan.selected \notin ToSet(picks)
    BY DEF FairDispatch
<1> DEFINE t == scan.start
<1>1. t \in 0 .. N - 1 /\ N \in Nat \ {0} /\ picks \in Seq(Workers)
  BY ScanTypes DEF DispatchInv, StageInv
<1>2. scan.offset = N /\ scan.minimum = activeSessions(scan.selected)
  BY DEF DispatchInv, ScanSound
<1>3. PICK k \in 0 .. N - 1 : FewestSoFar(k)
  BY <1>2 DEF DispatchInv, ScanSound
<1>4. scan.selected = (t + k) % N
  BY <1>3 DEF FewestSoFar, Visited
<1>5. (scan.selected - t + N) % N = k
  <2> HIDE DEF t
  <2>1. (((t + k) % N) - t + N) % N = k
    BY <1>1, Rotation
  <2> QED BY <1>4, <2>1
<1>6. \A i \in 0 .. N - 1 :
        /\ activeSessions(scan.selected) <= activeSessions((t + i) % N)
        /\ i < (scan.selected - t + N) % N => activeSessions(scan.selected) < activeSessions((t + i) % N)
  BY <1>2, <1>3, <1>5 DEF FewestSoFar, Visited
<1>7. ASSUME EqualCounts PROVE scan.selected \notin ToSet(picks)
  <2>1. scan.selected = t /\ Turn = t
    BY <1>7, TieGoesToStart DEF Turn
  <2>2. ASSUME NEW j \in DOMAIN picks PROVE picks[j] # t
    <3>1. j \in 1 .. Len(picks) /\ Len(picks) \in Nat /\ Len(picks) < N
      BY <1>1, <2>2 DEF DispatchInv, PicksInOrder
    <3>2. picks[j] = Before(Len(picks) - j + 1)
      BY <3>1 DEF DispatchInv, PicksInOrder, Failure
    <3> QED
      BY <1>1, <2>1, <3>1, <3>2 DEF Before
  <2> QED BY <2>1, <2>2 DEF ToSet
<1> QED BY <1>6, <1>7

(* An undisturbed selectWorker() chooses the first worker in rotation      *)
(* order with the fewest sessions, and while the counts stay equal N       *)
(* clients in a row go to N different workers, for every N.                *)
THEOREM DispatchFair == Spec => []FairDispatch
<1>1. Spec => []DispatchInv
  BY DispatchInit, DispatchNext, PTL DEF Spec
<1> QED BY <1>1, DispatchIsFair, PTL
=============================================================================
