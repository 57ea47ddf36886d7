---------------------------- MODULE HealthChecker ---------------------------
(***************************************************************************)
(* fluxgate::HealthChecker: a thread that probes every backend, moves each *)
(* backend's health flag across two thresholds, and waits on a condition   *)
(* variable between rounds, against a stop() that does not take the mutex. *)
(* A probe is waitForConnect(): a connect, and a poll if it is in progress.*)
(***************************************************************************)
EXTENDS Integers, Sequences, SequencesExt

CONSTANTS Backends,           \* how many backends pool_.all() has
          failureThreshold,   \* failureThreshold_
          successThreshold,   \* successThreshold_
          Modulus             \* bound: 2^64 for the std::size_t counters of the code

ASSUME CheckerAssumption ==
  /\ Backends \in Nat \ {0}
  /\ failureThreshold \in 1 .. Modulus - 1
  /\ successThreshold \in 1 .. Modulus - 1
  /\ Modulus \in Nat

Index == 1 .. Backends
Window == IF failureThreshold > successThreshold THEN failureThreshold ELSE successThreshold

VARIABLES
  up,           \* whether each backend accepts connections in time
  exhausted,    \* whether the process is out of descriptors
  healthy,      \* Backend::healthy_
  failures,     \* consecutiveFailures
  successes,    \* consecutiveSuccesses
  recent,       \* the last Window probe results of each backend
  next,         \* the backend checkOnce() probes next
  pc,           \* "probe", "await", "test", "check", "block", "sleep", "exited"
  running,      \* running_
  stopPc,       \* stop(): "none", "stored", "notified"
  woken         \* the sleeping thread was notified, or its interval passed

vars == <<up, exhausted, healthy, failures, successes, recent, next, pc, running, stopPc, woken>>

TypeOK ==
  /\ up \in [Index -> BOOLEAN] /\ exhausted \in BOOLEAN
  /\ healthy \in [Index -> BOOLEAN]
  /\ failures \in [Index -> 0 .. Modulus - 1]
  /\ successes \in [Index -> 0 .. Modulus - 1]
  /\ recent \in [Index -> Seq(BOOLEAN)]
  /\ \A i \in Index : Len(recent[i]) <= Window
  /\ next \in Index
  /\ pc \in {"probe", "await", "test", "check", "block", "sleep", "exited"}
  /\ running \in BOOLEAN
  /\ stopPc \in {"none", "stored", "notified"}
  /\ woken \in BOOLEAN

(* start() has created the thread; run() begins with a round of probes.    *)
Init ==
  /\ up \in [Index -> BOOLEAN] /\ exhausted = FALSE
  /\ healthy = [i \in Index |-> TRUE]
  /\ failures = [i \in Index |-> 0]
  /\ successes = [i \in Index |-> 0]
  /\ recent = [i \in Index |-> << >>]
  /\ next = 1 /\ pc = "probe"
  /\ running = TRUE /\ stopPc = "none" /\ woken = FALSE

-----------------------------------------------------------------------------
Remember(history, result) ==
  IF Len(history) < Window THEN Append(history, result)
  ELSE Append(Tail(history), result)

(* Mutant: a success leaves the failure streak standing.                   *)
KeepStreak(count, hit) == IF hit THEN (count + 1) % Modulus ELSE count

Streak(count, hit) == IF hit THEN (count + 1) % Modulus ELSE 0

(* Mutant: the threshold must be exceeded.                                 *)
Exceeded(count, threshold) == count > threshold

Reached(count, threshold) == count >= threshold

(* The counters and the flag after one probe of backend i.                 *)
Probed(i, reachable) ==
  /\ failures' = [failures EXCEPT ![i] = Streak(@, ~reachable)]
  /\ successes' = [successes EXCEPT ![i] = Streak(@, reachable)]
  /\ healthy' = [healthy EXCEPT ![i] =
                   IF reachable THEN @ \/ Reached(successes'[i], successThreshold)
                   ELSE @ /\ ~Reached(failures'[i], failureThreshold)]

(* Mutants: the round leaves out the last backend; it runs past it.        *)
StopsEarly(i) == i >= Backends - 1
RunsOver(i) == i > Backends

IsLast(i) == i = Backends

(* The rest of an iteration of checkOnce() once waitForConnect() returned; *)
(* running_ is not consulted between two backends.                         *)
Conclude(reachable) ==
  /\ Probed(next, reachable)
  /\ recent' = [recent EXCEPT ![next] = Remember(@, reachable)]
  /\ next' = IF IsLast(next) THEN 1 ELSE next + 1
  /\ pc' = IF IsLast(next) THEN "test" ELSE "probe"
  /\ UNCHANGED <<up, exhausted, running, stopPc, woken>>

(* connectNonBlocking() has its answer at once: connected, refused, or no  *)
(* descriptor for the socket, which counts against the backend as well.    *)
ConnectAtOnce ==
  /\ pc = "probe"
  /\ Conclude(up[next] /\ ~exhausted)

(* EINPROGRESS: waitForConnect() polls the socket.                         *)
ConnectStarts ==
  /\ pc = "probe" /\ ~exhausted
  /\ pc' = "await"
  /\ UNCHANGED <<up, exhausted, healthy, failures, successes, recent, next, running, stopPc, woken>>

(* The poll ends: SO_ERROR says connected, or an error, or time is up.     *)
PollEnds == pc = "await" /\ Conclude(up[next])

(* The loop condition of run(), with mutex_ held.                          *)
TestRunning ==
  /\ pc = "test"
  /\ pc' = IF running THEN "check" ELSE "exited"
  /\ UNCHANGED <<up, exhausted, healthy, failures, successes, recent, next, running, stopPc, woken>>

(* wait_for() evaluates its predicate, !running_, before it blocks.        *)
CheckPredicate ==
  /\ pc = "check"
  /\ pc' = IF running THEN "block" ELSE "exited"
  /\ UNCHANGED <<up, exhausted, healthy, failures, successes, recent, next, running, stopPc, woken>>

(* The wait proper: mutex_ is released and the thread sleeps.              *)
Block ==
  /\ pc = "block"
  /\ pc' = "sleep"
  /\ UNCHANGED <<up, exhausted, healthy, failures, successes, recent, next, running, stopPc, woken>>

(* Mutant: wait() instead of wait_for(): no interval ends the sleep.       *)
WaitWithoutTimeout == FALSE /\ UNCHANGED vars

(* The interval ends: the thread stops waiting whether or not it was told. *)
IntervalPasses ==
  /\ pc = "sleep" /\ ~woken
  /\ woken' = TRUE
  /\ UNCHANGED <<up, exhausted, healthy, failures, successes, recent, next, pc, running, stopPc>>

(* Awake again: leave if stopped, else probe the next round.               *)
WakeUp ==
  /\ pc = "sleep" /\ woken
  /\ woken' = FALSE
  /\ pc' = IF running THEN "probe" ELSE "exited"
  /\ UNCHANGED <<up, exhausted, healthy, failures, successes, recent, next, running, stopPc>>

Thread == ConnectAtOnce \/ ConnectStarts \/ PollEnds \/ TestRunning \/ CheckPredicate \/ Block \/ WakeUp

(* stop(): running_.store(false), then notify_all(), without mutex_.       *)
StopStore ==
  /\ stopPc = "none"
  /\ running' = FALSE
  /\ stopPc' = "stored"
  /\ UNCHANGED <<up, exhausted, healthy, failures, successes, recent, next, pc, woken>>

(* Only a thread that is already blocked hears the notification.           *)
StopNotify ==
  /\ stopPc = "stored"
  /\ stopPc' = "notified"
  /\ woken' = (woken \/ pc = "sleep")
  /\ UNCHANGED <<up, exhausted, healthy, failures, successes, recent, next, pc, running>>

BackendChanges(i) ==
  /\ running
  /\ up' = [up EXCEPT ![i] = ~@]
  /\ UNCHANGED <<exhausted, healthy, failures, successes, recent, next, pc, running, stopPc, woken>>

(* Clients use up the descriptors, or give some back.                      *)
DescriptorsChange ==
  /\ running
  /\ exhausted' = ~exhausted
  /\ UNCHANGED <<up, healthy, failures, successes, recent, next, pc, running, stopPc, woken>>

(* join() returns: nothing happens any more.                               *)
Exited ==
  /\ pc = "exited" /\ stopPc = "notified"
  /\ UNCHANGED vars

Next ==
  \/ Thread \/ IntervalPasses
  \/ StopStore \/ StopNotify
  \/ DescriptorsChange \/ \E i \in Index : BackendChanges(i)
  \/ Exited

Spec == Init /\ [][Next]_vars

(* The thread is scheduled, intervals end, and a stop() once begun ends.   *)
Fairness == WF_vars(Thread) /\ WF_vars(IntervalPasses) /\ WF_vars(StopNotify)

FairSpec == Spec /\ Fairness

-----------------------------------------------------------------------------
LastAre(i, n, value) ==
  /\ Len(recent[i]) >= n
  /\ \A k \in Len(recent[i]) - n + 1 .. Len(recent[i]) : recent[i][k] = value

(* The flag is never out of step with the probes: a healthy backend has    *)
(* not just failed failureThreshold_ times in a row, and an unhealthy one  *)
(* has not just answered successThreshold_ times in a row, also after the  *)
(* counters have wrapped around.                                           *)
HealthFollowsProbes ==
  \A i \in Index : /\ healthy[i] => ~LastAre(i, failureThreshold, FALSE)
                   /\ ~healthy[i] => ~LastAre(i, successThreshold, TRUE)

(* Hysteresis: the flag changes only on a whole streak of equal results;   *)
(* isolated failures or successes, however many in all, change nothing.    *)
FlipsNeedStreaks ==
  [][\A i \in Index :
       /\ healthy[i] /\ ~healthy'[i] => LastAre(i, failureThreshold, FALSE)'
       /\ ~healthy[i] /\ healthy'[i] => LastAre(i, successThreshold, TRUE)']_vars

(* A backend that stays down is taken out of selection, one that stays up  *)
(* is brought back, also after it was taken out because the gateway itself *)
(* had no descriptor for the probe, as long as the checker is not stopped. *)
EventuallyAccurate ==
  \A i \in Index :
    /\ <>[](running /\ up[i] /\ ~exhausted) => <>[]healthy[i]
    /\ <>[](running /\ ~up[i]) => <>[]~healthy[i]

(* stop() ends the thread; at worst one interval later.                    *)
StopCompletes == ~running ~> pc = "exited"

(* What notify_all() is there for: once stop() has returned, the thread is *)
(* not left sleeping until its interval ends.                              *)
StopWakesSleeper == stopPc = "notified" /\ pc = "sleep" => woken

=============================================================================
