----------------------------- MODULE BackendPool ----------------------------
(***************************************************************************)
(* fluxgate::BackendPool: weighted least-connections selection. acquire()  *)
(* scans the backends under selectionMutex_, but a lease is returned and a *)
(* health flag is set without that mutex, so both interleave with every    *)
(* load of the scan. Each worker thread acquires and releases in turn.     *)
(***************************************************************************)
EXTENDS Integers, FiniteSets

CONSTANTS Size,     \* backends_.size()
          Weight,   \* the configured weight of each backend
          Threads,  \* worker threads
          Leases,   \* bound: the lease objects sessions can hold
          None

Backends == 0 .. Size - 1

ASSUME PoolAssumption ==
  /\ Size \in Nat \ {0}
  /\ Weight \in [Backends -> Nat \ {0}]
  /\ IsFiniteSet(Leases) /\ IsFiniteSet(Threads)
  /\ None \notin Backends /\ None \notin Threads

VARIABLES
  healthy,      \* healthy_ of each backend
  active,       \* activeConnections_ of each backend
  tieBreaker,   \* tieBreaker_ modulo the pool size
  mutex,        \* the thread holding selectionMutex_
  holder,       \* the backend each lease occupies
  pc,           \* where each thread is
  scan,         \* each thread's locals in acquire()
  releasing,    \* the backend each thread is releasing, and the count it loaded
  disturbed     \* a lease was returned or a health flag set during the scan

vars == <<healthy, active, tieBreaker, mutex, holder, pc, scan, releasing, disturbed>>

Scan == [start : Backends, offset : 0 .. Size, selected : Backends \cup {None}, left : Nat]
Idle == [start |-> 0, offset |-> 0, selected |-> None, left |-> 0]
Release == [backend : Backends, current : Nat]
NoRelease == [backend |-> 0, current |-> 0]

TypeOK ==
  /\ healthy \in [Backends -> BOOLEAN]
  /\ active \in [Backends -> Nat]
  /\ tieBreaker \in Backends
  /\ mutex \in Threads \cup {None}
  /\ holder \in [Leases -> Backends \cup {None}]
  /\ pc \in [Threads -> {"idle", "scan", "left", "right", "sub"}]
  /\ scan \in [Threads -> Scan]
  /\ releasing \in [Threads -> Release]
  /\ disturbed \in BOOLEAN

Init ==
  /\ healthy = [b \in Backends |-> TRUE]
  /\ active = [b \in Backends |-> 0]
  /\ tieBreaker = 0
  /\ mutex = None
  /\ holder = [l \in Leases |-> None]
  /\ pc = [t \in Threads |-> "idle"]
  /\ scan = [t \in Threads |-> Idle]
  /\ releasing = [t \in Threads |-> NoRelease]
  /\ disturbed = FALSE

-----------------------------------------------------------------------------
(* BackendPool::acquire.                                                   *)

Candidate(t) == (scan[t].start + scan[t].offset) % Size

(* Mutant: selection without the mutex.                                    *)
NoMutex == TRUE

MutexFree == mutex = None

(* The mutex is taken; the bound on leases keeps one free for this call.   *)
Lock(t) ==
  /\ pc[t] = "idle" /\ MutexFree
  /\ \E l \in Leases : holder[l] = None
  /\ mutex' = t
  /\ tieBreaker' = (tieBreaker + 1) % Size
  /\ scan' = [scan EXCEPT ![t] = [Idle EXCEPT !.start = tieBreaker]]
  /\ pc' = [pc EXCEPT ![t] = "scan"]
  /\ disturbed' = FALSE
  /\ UNCHANGED <<healthy, active, holder, releasing>>

(* On to the next candidate, with the choice made so far.                  *)
Advance(t, choice) ==
  scan' = [scan EXCEPT ![t].offset = @ + 1, ![t].selected = choice]

(* The health check of the next candidate: skip it, take it as the first,  *)
(* or go on to compare it.                                                 *)
ScanHealth(t) ==
  LET candidate == Candidate(t)
  IN  /\ pc[t] = "scan" /\ scan[t].offset < Size
      /\ \/ /\ ~healthy[candidate]
            /\ Advance(t, scan[t].selected)
            /\ UNCHANGED pc
         \/ /\ healthy[candidate] /\ scan[t].selected = None
            /\ Advance(t, candidate)
            /\ UNCHANGED pc
         \/ /\ healthy[candidate] /\ scan[t].selected # None
            /\ pc' = [pc EXCEPT ![t] = "left"]
            /\ UNCHANGED scan
      /\ UNCHANGED <<healthy, active, tieBreaker, mutex, holder, releasing, disturbed>>

LoadLeft(t) ==
  /\ pc[t] = "left"
  /\ scan' = [scan EXCEPT ![t].left = active[Candidate(t)] * Weight[scan[t].selected]]
  /\ pc' = [pc EXCEPT ![t] = "right"]
  /\ UNCHANGED <<healthy, active, tieBreaker, mutex, holder, releasing, disturbed>>

CandidateWins(t) == scan[t].left < active[scan[t].selected] * Weight[Candidate(t)]

LoadRight(t) ==
  /\ pc[t] = "right"
  /\ Advance(t, IF CandidateWins(t) THEN Candidate(t) ELSE scan[t].selected)
  /\ pc' = [pc EXCEPT ![t] = "scan"]
  /\ UNCHANGED <<healthy, active, tieBreaker, mutex, holder, releasing, disturbed>>

(* The lease is constructed, and counted, before the mutex is released.    *)
Grant(t, l) ==
  /\ pc[t] = "scan" /\ scan[t].offset = Size /\ scan[t].selected # None
  /\ holder[l] = None
  /\ holder' = [holder EXCEPT ![l] = scan[t].selected]
  /\ active' = [active EXCEPT ![scan[t].selected] = @ + 1]
  /\ mutex' = None
  /\ pc' = [pc EXCEPT ![t] = "idle"]
  /\ scan' = [scan EXCEPT ![t] = Idle]
  /\ disturbed' = FALSE
  /\ UNCHANGED <<healthy, tieBreaker, releasing>>

(* No healthy backend was met: an invalid lease, nothing counted.          *)
Refuse(t) ==
  /\ pc[t] = "scan" /\ scan[t].offset = Size /\ scan[t].selected = None
  /\ mutex' = None
  /\ pc' = [pc EXCEPT ![t] = "idle"]
  /\ scan' = [scan EXCEPT ![t] = Idle]
  /\ disturbed' = FALSE
  /\ UNCHANGED <<healthy, active, tieBreaker, holder, releasing>>

-----------------------------------------------------------------------------
(* BackendLease::reset, without the mutex: Backend::release() loads the    *)
(* count and then subtracts if it was not zero.                            *)

(* Mutant: reset() releases the backend and keeps the handle.              *)
HandleKept(l) == holder

HandleCleared(l) == [holder EXCEPT ![l] = None]

ReleaseLoad(t, l) ==
  /\ pc[t] = "idle" /\ holder[l] # None
  /\ releasing' = [releasing EXCEPT ![t] = [backend |-> holder[l], current |-> active[holder[l]]]]
  /\ holder' = HandleCleared(l)
  /\ pc' = [pc EXCEPT ![t] = "sub"]
  /\ UNCHANGED <<healthy, active, tieBreaker, mutex, scan, disturbed>>

(* Mutant: the loaded count minus one is stored back.                      *)
StoredBack(t) == releasing[t].current - 1

Subtracted(t) == active[releasing[t].backend] - 1

ReleaseSub(t) ==
  /\ pc[t] = "sub"
  /\ active' = [active EXCEPT ![releasing[t].backend] =
                  IF releasing[t].current > 0 THEN Subtracted(t) ELSE @]
  /\ pc' = [pc EXCEPT ![t] = "idle"]
  /\ releasing' = [releasing EXCEPT ![t] = NoRelease]
  /\ disturbed' = (mutex # None)
  /\ UNCHANGED <<healthy, tieBreaker, mutex, holder, scan>>

(* The health checker's setHealthy().                                      *)
SetHealthy(b, value) ==
  /\ healthy[b] # value
  /\ healthy' = [healthy EXCEPT ![b] = value]
  /\ disturbed' = (mutex # None)
  /\ UNCHANGED <<active, tieBreaker, mutex, holder, pc, scan, releasing>>

Next ==
  \/ \E t \in Threads :
       \/ Lock(t) \/ ScanHealth(t) \/ LoadLeft(t) \/ LoadRight(t) \/ Refuse(t) \/ ReleaseSub(t)
       \/ \E l \in Leases : Grant(t, l) \/ ReleaseLoad(t, l)
  \/ \E b \in Backends, value \in BOOLEAN : SetHealthy(b, value)

Spec == Init /\ [][Next]_vars

-----------------------------------------------------------------------------
HeldOn(b) == {l \in Leases : holder[l] = b}
BeingReleased(b) == {t \in Threads : pc[t] = "sub" /\ releasing[t].backend = b}

(* activeConnections_ of a backend is the number of leases on it, plus     *)
(* those whose release is half done: concurrent acquire() and release()    *)
(* lose no count, and the counter never drops below zero or sticks above.  *)
ActiveCountsLeases ==
  \A b \in Backends : active[b] = Cardinality(HeldOn(b)) + Cardinality(BeingReleased(b))

(* The defensive test of release() never skips a subtraction: the count it *)
(* loaded included the lease being returned.                               *)
ReleaseNeverSkips == \A t \in Threads : pc[t] = "sub" => releasing[t].current > 0

Score(a, b) == active[a] * Weight[b]    \* the cross product of active/weight
hasHealthyBackend == \E b \in Backends : healthy[b]

(* If no lease is returned and no health flag set during a scan, acquire() *)
(* ends with the healthy backend of the lowest active/weight, the first of *)
(* them in rotation order, or with none only if none is healthy: two       *)
(* workers never choose on the same stale counts.                          *)
BestInRotation ==
  \A t \in Threads :
    pc[t] = "scan" /\ scan[t].offset = Size /\ ~disturbed =>
      /\ scan[t].selected = None <=> ~hasHealthyBackend
      /\ scan[t].selected # None =>
           \A i \in 0 .. Size - 1 :
             LET b == (scan[t].start + i) % Size
                 s == scan[t].selected
             IN  /\ healthy[b] => Score(s, b) <= Score(b, s)
                 /\ healthy[b] /\ i < (s - scan[t].start + Size) % Size => Score(s, b) < Score(b, s)

(* Only the holder of the mutex is inside the selection.                   *)
OneSelector == \A t \in Threads : pc[t] \in {"scan", "left", "right"} <=> mutex = t

=============================================================================
