-------------------------- MODULE BackendPoolProofs -------------------------
(***************************************************************************)
(* BackendPool is correct for every number of backends, every weights and  *)
(* every number of workers and leases: one thread at a time selects, the   *)
(* counters count the leases, and an undisturbed acquire() ends with the   *)
(* best backend in rotation order. Two invariants, one on top of the       *)
(* other: CountInv for the mutex and the counters, ScanInv for what a scan *)
(* knows half way.                                                         *)
(***************************************************************************)
EXTENDS BackendPool, RotationLemmas, FiniteSetTheorems, TLAPS

(* Arithmetic of the cross products that acquire() compares.               *)
LEMMA Products ==
  ASSUME NEW x \in Nat, NEW y \in Nat
  PROVE  x * y \in Nat
OBVIOUS

(* Scaling by a weight keeps the order.                                    *)
LEMMA ScaleLess ==
  ASSUME NEW x \in Nat, NEW y \in Nat, NEW k \in Nat \ {0}
  PROVE  /\ x < y <=> x * k < y * k
         /\ x <= y <=> x * k <= y * k
OBVIOUS

(* The factors of a cross product may be swapped.                          *)
LEMMA Rearrange ==
  ASSUME NEW x \in Nat, NEW y \in Nat, NEW z \in Nat
  PROVE  /\ (x * y) * z = (x * z) * y
OBVIOUS

(* Mixed transitivity, for terms the provers should not look into.         *)
LEMMA Chain ==
  ASSUME NEW x \in Nat, NEW y \in Nat, NEW z \in Nat, x < y, y <= z
  PROVE  x < z
OBVIOUS

(* The comparison of acquire() is transitive: with active counts a and     *)
(* weights w, if c has a lower a/w than s and s none higher than b, c has  *)
(* a lower one than b. This is what allows a scan to compare each          *)
(* candidate with the best one so far only.                                *)
LEMMA CrossStrict ==
  ASSUME NEW ac \in Nat, NEW as \in Nat, NEW ab \in Nat,
         NEW wc \in Nat \ {0}, NEW ws \in Nat \ {0}, NEW wb \in Nat \ {0},
         ac * ws < as * wc, as * wb <= ab * ws
  PROVE  ac * wb < ab * wc
<1>1. /\ ac * ws \in Nat /\ as * wc \in Nat /\ as * wb \in Nat /\ ab * ws \in Nat
      /\ ac * wb \in Nat /\ ab * wc \in Nat
  BY Products
<1>2. (ac * ws) * wb < (as * wc) * wb
  BY <1>1, ScaleLess
<1>3. (as * wb) * wc <= (ab * ws) * wc
  BY <1>1, ScaleLess
<1>4. (ac * wb) * ws < (ab * wc) * ws
  <2>1. (ac * ws) * wb = (ac * wb) * ws
    BY Rearrange
  <2>2. (as * wc) * wb = (as * wb) * wc
    BY Rearrange
  <2>3. (ab * ws) * wc = (ab * wc) * ws
    BY Rearrange
  <2>4. /\ (ac * wb) * ws \in Nat /\ (as * wb) * wc \in Nat /\ (ab * wc) * ws \in Nat
    BY <1>1, Products
  <2>5. (ac * wb) * ws < (as * wb) * wc
    BY <1>2, <2>1, <2>2, Zenon
  <2>6. (as * wb) * wc <= (ab * wc) * ws
    BY <1>3, <2>3, Zenon
  <2> QED BY <2>4, <2>5, <2>6, Chain
<1> QED
  BY <1>1, <1>4, ScaleLess

-----------------------------------------------------------------------------
(* A comparison has a candidate and a backend to compare it with.          *)
ComparesTwo ==
  \A t \in Threads :
    pc[t] \in {"left", "right"} => scan[t].offset < Size /\ scan[t].selected # None

(* The mutex and the counters. OneSelector and ComparesTwo are needed for  *)
(* the types (the backend that LoadLeft reads exists), ActiveCountsLeases  *)
(* for ReleaseNeverSkips (the lease being returned is counted) and that    *)
(* for the type of active (a subtraction follows a count that is not       *)
(* zero).                                                                  *)
CountInv == TypeOK /\ OneSelector /\ ActiveCountsLeases /\ ReleaseNeverSkips /\ ComparesTwo

(* Only finitely many leases exist and finitely many threads release.      *)
LEMMA FiniteCounts ==
  ASSUME NEW b
  PROVE  /\ IsFiniteSet(HeldOn(b)) /\ Cardinality(HeldOn(b)) \in Nat
         /\ IsFiniteSet(BeingReleased(b)) /\ Cardinality(BeingReleased(b)) \in Nat
<1>1. HeldOn(b) \subseteq Leases /\ BeingReleased(b) \subseteq Threads
  BY DEF HeldOn, BeingReleased
<1> QED
  BY <1>1, PoolAssumption, FS_Subset, FS_CardinalityType

(* The candidate of a scan is a backend.                                   *)
LEMMA CandidateType ==
  ASSUME TypeOK, NEW t \in Threads
  PROVE  Candidate(t) \in Backends
BY PoolAssumption DEF TypeOK, Scan, Candidate, Backends

(* The values a thread's locals have outside acquire() and release().      *)
LEMMA RestingTypes ==
  /\ 0 \in Backends /\ Idle \in Scan /\ NoRelease \in Release
  /\ \A b \in Backends : [Idle EXCEPT !.start = b] \in Scan
  /\ \A b \in Backends : (b + 1) % Size \in Backends
BY PoolAssumption DEF Backends, Scan, Idle, Release, NoRelease

(* CountInv holds at the start.                                            *)
LEMMA CountInit == Init => CountInv
<1> SUFFICES ASSUME Init PROVE CountInv
    OBVIOUS
<1>1. TypeOK
  BY RestingTypes DEF Init, TypeOK
<1>2. OneSelector /\ ReleaseNeverSkips /\ ComparesTwo
  BY PoolAssumption DEF Init, OneSelector, ReleaseNeverSkips, ComparesTwo
<1>3. ASSUME NEW b \in Backends
      PROVE  active[b] = Cardinality(HeldOn(b)) + Cardinality(BeingReleased(b))
  <2>1. HeldOn(b) = {} /\ BeingReleased(b) = {}
    BY PoolAssumption DEF Init, HeldOn, BeingReleased
  <2> QED
    BY <2>1, FS_EmptySet DEF Init
<1> QED
  BY <1>1, <1>2, <1>3 DEF CountInv, ActiveCountsLeases

(* A step that touches no lease, count or release keeps the counts right.  *)
LEMMA SameCounts ==
  ASSUME ActiveCountsLeases, UNCHANGED <<active, holder, releasing>>,
         \A t \in Threads : pc[t] = "sub" <=> pc'[t] = "sub"
  PROVE  ActiveCountsLeases'
<1> SUFFICES ASSUME NEW b \in Backends
             PROVE  active'[b] = Cardinality(HeldOn(b)') + Cardinality(BeingReleased(b)')
    BY DEF ActiveCountsLeases
<1>1. HeldOn(b)' = HeldOn(b) /\ BeingReleased(b)' = BeingReleased(b)
  BY DEF HeldOn, BeingReleased
<1> QED
  BY <1>1 DEF ActiveCountsLeases

(* Taking the mutex keeps CountInv.                                        *)
LEMMA LockCounts ==
  ASSUME CountInv, NEW t \in Threads, Lock(t)
  PROVE  CountInv'
<1>1. TypeOK'
  BY RestingTypes DEF CountInv, TypeOK, Lock
<1>2. OneSelector' /\ ReleaseNeverSkips' /\ ComparesTwo'
  BY PoolAssumption DEF CountInv, TypeOK, Lock, MutexFree, OneSelector, ReleaseNeverSkips, ComparesTwo
<1>3. ActiveCountsLeases'
  BY SameCounts DEF CountInv, TypeOK, Lock
<1> QED
  BY <1>1, <1>2, <1>3 DEF CountInv

(* What going on to the next candidate does to a thread's locals.          *)
LEMMA AdvanceFacts ==
  ASSUME TypeOK, NEW t \in Threads, scan[t].offset < Size,
         NEW choice \in Backends \cup {None}, Advance(t, choice)
  PROVE  /\ scan' \in [Threads -> Scan]
         /\ scan'[t].start = scan[t].start /\ scan'[t].offset = scan[t].offset + 1
         /\ scan'[t].selected = choice
         /\ \A u \in Threads \ {t} : scan'[u] = scan[u]
<1> DEFINE moved == [scan[t] EXCEPT !.offset = scan[t].offset + 1]
           chosen == [moved EXCEPT !.selected = choice]
<1>1. scan[t] \in Scan /\ scan[t].offset + 1 \in 0 .. Size
  BY PoolAssumption DEF TypeOK, Scan
<1>2. /\ moved \in Scan
      /\ moved.start = scan[t].start /\ moved.offset = scan[t].offset + 1
  BY <1>1 DEF Scan
<1>3. scan' = [scan EXCEPT ![t] = chosen]
  BY DEF Advance
<1> HIDE DEF moved
<1>4. /\ chosen \in Scan
      /\ chosen.start = moved.start /\ chosen.offset = moved.offset /\ chosen.selected = choice
  BY <1>2 DEF Scan
<1> HIDE DEF chosen
<1> QED
  BY <1>2, <1>3, <1>4 DEF TypeOK

(* Looking at a candidate's health keeps CountInv.                         *)
LEMMA ScanHealthCounts ==
  ASSUME CountInv, NEW t \in Threads, ScanHealth(t)
  PROVE  CountInv'
<1>0. /\ Candidate(t) \in Backends /\ scan[t].selected \in Backends \cup {None}
      /\ scan[t].offset < Size
  BY CandidateType DEF CountInv, TypeOK, Scan, ScanHealth
<1>1. CASE \E choice \in Backends \cup {None} : Advance(t, choice) /\ pc' = pc
  <2>1. TypeOK'
    BY <1>0, <1>1, AdvanceFacts DEF CountInv, TypeOK, ScanHealth
  <2>2. OneSelector' /\ ReleaseNeverSkips' /\ ComparesTwo'
    BY <1>0, <1>1, AdvanceFacts DEF CountInv, TypeOK, ScanHealth, OneSelector, ReleaseNeverSkips, ComparesTwo
  <2> QED
    BY <1>1, <2>1, <2>2, SameCounts DEF CountInv, ScanHealth
<1>2. CASE scan[t].selected # None /\ scan' = scan /\ pc' = [pc EXCEPT ![t] = "left"]
  <2>1. TypeOK'
    BY <1>2 DEF CountInv, TypeOK, ScanHealth
  <2>2. OneSelector' /\ ReleaseNeverSkips' /\ ComparesTwo'
    BY <1>2 DEF CountInv, TypeOK, ScanHealth, OneSelector, ReleaseNeverSkips, ComparesTwo
  <2> QED
    BY <1>2, <2>1, <2>2, SameCounts DEF CountInv, TypeOK, ScanHealth
<1> QED
  BY <1>0, <1>1, <1>2 DEF ScanHealth

(* Loading the candidate's count keeps CountInv.                           *)
LEMMA LoadLeftCounts ==
  ASSUME CountInv, NEW t \in Threads, LoadLeft(t)
  PROVE  CountInv'
<1>0. Candidate(t) \in Backends /\ scan[t].selected \in Backends
  BY CandidateType DEF CountInv, LoadLeft, ComparesTwo, TypeOK, Scan
<1>1. active[Candidate(t)] * Weight[scan[t].selected] \in Nat
  BY <1>0, PoolAssumption, Products DEF CountInv, TypeOK
<1>2. TypeOK'
  BY <1>0, <1>1 DEF CountInv, TypeOK, LoadLeft, Scan
<1>3. OneSelector' /\ ReleaseNeverSkips' /\ ComparesTwo'
  BY <1>0, <1>1 DEF CountInv, TypeOK, LoadLeft, OneSelector, ReleaseNeverSkips, ComparesTwo, Scan
<1>4. ActiveCountsLeases'
  BY SameCounts DEF CountInv, TypeOK, LoadLeft
<1> QED
  BY <1>2, <1>3, <1>4 DEF CountInv

(* Comparing it with the selected backend's count keeps CountInv.          *)
LEMMA LoadRightCounts ==
  ASSUME CountInv, NEW t \in Threads, LoadRight(t)
  PROVE  CountInv'
<1> DEFINE choice == IF CandidateWins(t) THEN Candidate(t) ELSE scan[t].selected
<1>0. scan[t].offset < Size /\ choice \in Backends \cup {None} /\ Advance(t, choice)
  BY CandidateType DEF CountInv, TypeOK, Scan, LoadRight, ComparesTwo
<1> HIDE DEF choice
<1>1. TypeOK'
  BY <1>0, AdvanceFacts DEF CountInv, TypeOK, LoadRight
<1>2. OneSelector' /\ ReleaseNeverSkips' /\ ComparesTwo'
  BY <1>0, AdvanceFacts DEF CountInv, TypeOK, LoadRight, OneSelector, ReleaseNeverSkips, ComparesTwo
<1>3. ActiveCountsLeases'
  BY SameCounts DEF CountInv, TypeOK, LoadRight
<1> QED
  BY <1>1, <1>2, <1>3 DEF CountInv

(* An invalid lease keeps CountInv.                                        *)
LEMMA RefuseCounts ==
  ASSUME CountInv, NEW t \in Threads, Refuse(t)
  PROVE  CountInv'
<1>1. TypeOK'
  BY RestingTypes DEF CountInv, TypeOK, Refuse
<1>2. OneSelector' /\ ReleaseNeverSkips' /\ ComparesTwo'
  BY PoolAssumption DEF CountInv, TypeOK, Refuse, OneSelector, ReleaseNeverSkips, ComparesTwo
<1>3. ActiveCountsLeases'
  BY SameCounts DEF CountInv, TypeOK, Refuse
<1> QED
  BY <1>1, <1>2, <1>3 DEF CountInv

(* A health flag set by the checker keeps CountInv.                        *)
LEMMA SetHealthyCounts ==
  ASSUME CountInv, NEW b \in Backends, NEW value \in BOOLEAN, SetHealthy(b, value)
  PROVE  CountInv'
<1>1. TypeOK'
  BY DEF CountInv, TypeOK, SetHealthy
<1>2. OneSelector' /\ ReleaseNeverSkips' /\ ComparesTwo'
  BY DEF CountInv, SetHealthy, OneSelector, ReleaseNeverSkips, ComparesTwo
<1>3. ActiveCountsLeases'
  BY SameCounts DEF CountInv, SetHealthy
<1> QED
  BY <1>1, <1>2, <1>3 DEF CountInv

(* A lease is constructed: one more handle, one more on the counter.       *)
LEMMA GrantCounts ==
  ASSUME CountInv, NEW t \in Threads, NEW l \in Leases, Grant(t, l)
  PROVE  CountInv'
<1> DEFINE s == scan[t].selected
<1>0. s \in Backends
  BY DEF CountInv, TypeOK, Grant, Scan
<1>1. TypeOK'
  <2>1. active' \in [Backends -> Nat] /\ holder' \in [Leases -> Backends \cup {None}]
    BY <1>0 DEF CountInv, TypeOK, Grant
  <2> QED
    BY <2>1, RestingTypes DEF CountInv, TypeOK, Grant
<1>2. OneSelector' /\ ReleaseNeverSkips' /\ ComparesTwo'
  BY PoolAssumption DEF CountInv, TypeOK, Grant, OneSelector, ReleaseNeverSkips, ComparesTwo
<1>3. ASSUME NEW b \in Backends
      PROVE  active'[b] = Cardinality(HeldOn(b)') + Cardinality(BeingReleased(b)')
  <2>1. BeingReleased(b)' = BeingReleased(b)
    BY DEF CountInv, TypeOK, Grant, BeingReleased
  <2>2. CASE b = s
    <3>1. HeldOn(b)' = HeldOn(b) \cup {l} /\ l \notin HeldOn(b)
      BY <1>0, <2>2, PoolAssumption DEF CountInv, TypeOK, Grant, HeldOn
    <3>2. Cardinality(HeldOn(b)') = Cardinality(HeldOn(b)) + 1
      BY <3>1, FS_AddElement, FiniteCounts
    <3>3. active'[b] = active[b] + 1
      BY <2>2 DEF CountInv, TypeOK, Grant
    <3> QED
      BY <2>1, <3>2, <3>3, FiniteCounts DEF CountInv, TypeOK, ActiveCountsLeases
  <2>3. CASE b # s
    <3>1. HeldOn(b)' = HeldOn(b)
      BY <2>3, PoolAssumption DEF CountInv, TypeOK, Grant, HeldOn
    <3>2. active'[b] = active[b]
      BY <1>0, <2>3 DEF CountInv, TypeOK, Grant
    <3> QED
      BY <2>1, <3>1, <3>2 DEF CountInv, ActiveCountsLeases
  <2> QED BY <2>2, <2>3
<1> QED
  BY <1>1, <1>2, <1>3 DEF CountInv, ActiveCountsLeases

(* The first half of release(): the handle is gone, the release in         *)
(* progress, and the count just loaded was not zero.                       *)
LEMMA ReleaseLoadCounts ==
  ASSUME CountInv, NEW t \in Threads, NEW l \in Leases, ReleaseLoad(t, l)
  PROVE  CountInv'
<1> DEFINE h == holder[l]
<1>0. h \in Backends /\ l \in HeldOn(h)
  BY DEF CountInv, TypeOK, ReleaseLoad, HeldOn
<1>1. active[h] > 0
  <2>1. Cardinality(HeldOn(h)) # 0
    BY <1>0, FiniteCounts, FS_EmptySet
  <2> QED
    BY <1>0, <2>1, FiniteCounts DEF CountInv, ActiveCountsLeases
<1>2. TypeOK'
  BY <1>0 DEF CountInv, TypeOK, ReleaseLoad, HandleCleared, Release
<1>3. OneSelector' /\ ReleaseNeverSkips' /\ ComparesTwo'
  BY <1>1, PoolAssumption DEF CountInv, TypeOK, ReleaseLoad, OneSelector, ReleaseNeverSkips, ComparesTwo
<1>4. ASSUME NEW b \in Backends
      PROVE  active'[b] = Cardinality(HeldOn(b)') + Cardinality(BeingReleased(b)')
  <2>1. active' = active
    BY DEF ReleaseLoad
  <2>2. CASE b = h
    <3>1. HeldOn(b)' = HeldOn(b) \ {l}
      BY <1>0, <2>2, PoolAssumption DEF CountInv, TypeOK, ReleaseLoad, HandleCleared, HeldOn
    <3>2. BeingReleased(b)' = BeingReleased(b) \cup {t} /\ t \notin BeingReleased(b)
      BY <2>2 DEF CountInv, TypeOK, ReleaseLoad, BeingReleased, Release
    <3>3. Cardinality(HeldOn(b)') = Cardinality(HeldOn(b)) - 1
      BY <1>0, <2>2, <3>1, FS_RemoveElement, FiniteCounts
    <3>4. Cardinality(BeingReleased(b)') = Cardinality(BeingReleased(b)) + 1
      BY <3>2, FS_AddElement, FiniteCounts
    <3> QED
      BY <2>1, <3>3, <3>4, FiniteCounts DEF CountInv, ActiveCountsLeases
  <2>3. CASE b # h
    <3>1. HeldOn(b)' = HeldOn(b)
      BY <2>3, PoolAssumption DEF CountInv, TypeOK, ReleaseLoad, HandleCleared, HeldOn
    <3>2. BeingReleased(b)' = BeingReleased(b)
      BY <2>3 DEF CountInv, TypeOK, ReleaseLoad, BeingReleased, Release
    <3> QED
      BY <2>1, <3>1, <3>2 DEF CountInv, ActiveCountsLeases
  <2> QED BY <2>2, <2>3
<1> QED
  BY <1>2, <1>3, <1>4 DEF CountInv, ActiveCountsLeases

(* The second half of release(): one release less, one less on the         *)
(* counter, and the counter was not zero although others may have          *)
(* subtracted meanwhile.                                                   *)
LEMMA ReleaseSubCounts ==
  ASSUME CountInv, NEW t \in Threads, ReleaseSub(t)
  PROVE  CountInv'
<1> DEFINE h == releasing[t].backend
<1>0. h \in Backends /\ t \in BeingReleased(h) /\ releasing[t].current > 0
  BY DEF CountInv, TypeOK, ReleaseSub, Release, BeingReleased, ReleaseNeverSkips
<1>1. active[h] \in Nat \ {0}
  <2>1. Cardinality(BeingReleased(h)) # 0
    BY <1>0, FiniteCounts, FS_EmptySet
  <2> QED
    BY <1>0, <2>1, FiniteCounts DEF CountInv, ActiveCountsLeases
<1>2. active' = [active EXCEPT ![h] = active[h] - 1]
  BY <1>0 DEF CountInv, TypeOK, ReleaseSub, Subtracted
<1>3. TypeOK'
  BY <1>0, <1>1, <1>2, PoolAssumption DEF CountInv, TypeOK, ReleaseSub, Release, NoRelease, Backends
<1>4. OneSelector' /\ ReleaseNeverSkips' /\ ComparesTwo'
  BY DEF CountInv, TypeOK, ReleaseSub, OneSelector, ReleaseNeverSkips, ComparesTwo
<1>5. ASSUME NEW b \in Backends
      PROVE  active'[b] = Cardinality(HeldOn(b)') + Cardinality(BeingReleased(b)')
  <2>1. HeldOn(b)' = HeldOn(b)
    BY DEF ReleaseSub, HeldOn
  <2>2. CASE b = h
    <3>1. BeingReleased(b)' = BeingReleased(b) \ {t}
      BY <2>2 DEF CountInv, TypeOK, ReleaseSub, BeingReleased
    <3>2. Cardinality(BeingReleased(b)') = Cardinality(BeingReleased(b)) - 1
      BY <1>0, <2>2, <3>1, FS_RemoveElement, FiniteCounts
    <3>3. active'[b] = active[b] - 1
      BY <1>2, <2>2 DEF CountInv, TypeOK
    <3> QED
      BY <2>1, <3>2, <3>3, FiniteCounts DEF CountInv, TypeOK, ActiveCountsLeases
  <2>3. CASE b # h
    <3>1. BeingReleased(b)' = BeingReleased(b)
      BY <2>3 DEF CountInv, TypeOK, ReleaseSub, BeingReleased
    <3>2. active'[b] = active[b]
      BY <1>0, <1>2, <2>3 DEF CountInv, TypeOK
    <3> QED
      BY <2>1, <3>1, <3>2 DEF CountInv, ActiveCountsLeases
  <2> QED BY <2>2, <2>3
<1> QED
  BY <1>3, <1>4, <1>5 DEF CountInv, ActiveCountsLeases

(* Every step keeps CountInv.                                              *)
LEMMA CountNext == CountInv /\ [Next]_vars => CountInv'
<1> SUFFICES ASSUME CountInv, [Next]_vars PROVE CountInv'
    OBVIOUS
<1>1. CASE UNCHANGED vars
  <2>1. TypeOK' /\ OneSelector' /\ ReleaseNeverSkips' /\ ComparesTwo'
    BY <1>1 DEF vars, CountInv, TypeOK, OneSelector, ReleaseNeverSkips, ComparesTwo
  <2>2. ActiveCountsLeases'
    BY <1>1, SameCounts DEF vars, CountInv
  <2> QED BY <2>1, <2>2 DEF CountInv
<1> QED
  BY <1>1, LockCounts, ScanHealthCounts, LoadLeftCounts, LoadRightCounts, RefuseCounts,
     GrantCounts, ReleaseLoadCounts, ReleaseSubCounts, SetHealthyCounts DEF Next

-----------------------------------------------------------------------------
(* The backend a scan meets i places after its start.                      *)
Visited(t, i) == (scan[t].start + i) % Size

(* No backend met so far is healthy.                                       *)
NoneHealthy(t) == \A i \in 0 .. scan[t].offset - 1 : ~healthy[Visited(t, i)]

(* The selected backend was met at place k, is healthy, and has the lowest *)
(* active/weight of the healthy ones met so far, the first of them.        *)
BestSoFar(t, k) ==
  LET s == scan[t].selected
  IN  /\ s = Visited(t, k) /\ healthy[s]
      /\ \A i \in 0 .. scan[t].offset - 1 :
           healthy[Visited(t, i)] =>
             /\ Score(s, Visited(t, i)) <= Score(Visited(t, i), s)
             /\ i < k => Score(s, Visited(t, i)) < Score(Visited(t, i), s)

(* What the scan of thread t knows: its choice is the best so far, the     *)
(* candidate under comparison is healthy and its loaded product is         *)
(* current.                                                                *)
ScanSound(t) ==
  /\ scan[t].selected = None => NoneHealthy(t)
  /\ scan[t].selected # None => \E k \in 0 .. scan[t].offset - 1 : BestSoFar(t, k)
  /\ pc[t] \in {"left", "right"} => healthy[Candidate(t)]
  /\ pc[t] = "right" => scan[t].left = Score(Candidate(t), scan[t].selected)

(* The holder of the mutex has a sound scan, unless a lease was returned   *)
(* or a health flag set since it began.                                    *)
ScanInv == \A t \in Threads : mutex = t /\ ~disturbed => ScanSound(t)

(* Cross products are naturals.                                            *)
LEMMA ScoreType ==
  ASSUME TypeOK, NEW a \in Backends, NEW b \in Backends
  PROVE  Score(a, b) \in Nat
BY Products, PoolAssumption DEF TypeOK, Score

(* A scan meets backends.                                                  *)
LEMMA VisitedType ==
  ASSUME TypeOK, NEW t \in Threads, NEW i \in 0 .. Size - 1
  PROVE  Visited(t, i) \in Backends
BY PoolAssumption, Rotation DEF TypeOK, Scan, Visited, Backends

(* A candidate that beats the selected backend beats all it has beaten.    *)
LEMMA BeatsAllBeaten ==
  ASSUME TypeOK, NEW c \in Backends, NEW s \in Backends, NEW b \in Backends,
         Score(c, s) < Score(s, c), Score(s, b) <= Score(b, s)
  PROVE  Score(c, b) < Score(b, c)
BY CrossStrict, PoolAssumption DEF TypeOK, Score

(* A step of another thread that leaves flags, counts and mutex alone does *)
(* not disturb a scan.                                                     *)
LEMMA OthersScan ==
  ASSUME CountInv, ScanInv, UNCHANGED <<healthy, active, scan, mutex>>,
         disturbed' = disturbed, \A t \in Threads : mutex = t => pc'[t] = pc[t]
  PROVE  ScanInv'
<1> SUFFICES ASSUME NEW t \in Threads, mutex' = t, ~disturbed'
             PROVE  ScanSound(t)'
    BY DEF ScanInv
<1>1. ScanSound(t)
  BY DEF ScanInv
<1> QED
  BY <1>1 DEF ScanSound, NoneHealthy, BestSoFar, Visited, Score, Candidate

(* Going on to the next candidate is sound if the choice carried on is the *)
(* best of the backends met, the candidate included.                       *)
LEMMA AdvanceScan ==
  ASSUME CountInv, ScanInv, NEW t \in Threads, mutex = t, scan[t].offset < Size,
         NEW choice \in Backends \cup {None}, Advance(t, choice),
         UNCHANGED <<healthy, active, mutex, disturbed>>, pc'[t] = "scan",
         ~disturbed => \/ choice = None /\ NoneHealthy(t) /\ ~healthy[Candidate(t)]
                       \/ choice # None /\ \E k \in 0 .. scan[t].offset :
                            /\ choice = Visited(t, k) /\ healthy[choice]
                            /\ \A i \in 0 .. scan[t].offset :
                                 healthy[Visited(t, i)] =>
                                   /\ Score(choice, Visited(t, i)) <= Score(Visited(t, i), choice)
                                   /\ i < k => Score(choice, Visited(t, i)) < Score(Visited(t, i), choice)
  PROVE  ScanInv'
<1> SUFFICES ASSUME ~disturbed PROVE ScanSound(t)'
    BY DEF ScanInv
<1>0. scan[t].offset \in 0 .. Size
  BY DEF CountInv, TypeOK, Scan
<1>1. /\ scan'[t].start = scan[t].start /\ scan'[t].offset = scan[t].offset + 1
      /\ scan'[t].selected = choice
  BY AdvanceFacts DEF CountInv
<1>2. \A i : Visited(t, i)' = Visited(t, i)
  BY <1>1 DEF Visited
<1>3. \A a, b : Score(a, b)' = Score(a, b)
  BY DEF Score
<1>4. 0 .. scan'[t].offset - 1 = 0 .. scan[t].offset
  BY <1>0, <1>1
<1>5. CASE choice = None
  <2>1. \A i \in 0 .. scan[t].offset : ~healthy[Visited(t, i)]
    BY <1>0, <1>5 DEF NoneHealthy, Candidate, Visited
  <2> QED
    BY <1>1, <1>2, <1>4, <1>5, <2>1 DEF ScanSound, NoneHealthy
<1>6. CASE choice # None
  <2>1. PICK k \in 0 .. scan[t].offset :
            /\ choice = Visited(t, k) /\ healthy[choice]
            /\ \A i \in 0 .. scan[t].offset :
                 healthy[Visited(t, i)] =>
                   /\ Score(choice, Visited(t, i)) <= Score(Visited(t, i), choice)
                   /\ i < k => Score(choice, Visited(t, i)) < Score(Visited(t, i), choice)
    BY <1>6
  <2>2. BestSoFar(t, k)'
    BY <1>1, <1>2, <1>3, <1>4, <2>1 DEF BestSoFar
  <2> QED
    BY <1>1, <1>4, <1>6, <2>2 DEF ScanSound
<1> QED BY <1>5, <1>6

(* The health check of a candidate keeps ScanInv.                          *)
LEMMA ScanHealthScan ==
  ASSUME CountInv, ScanInv, NEW t \in Threads, ScanHealth(t)
  PROVE  ScanInv'
<1> DEFINE o == scan[t].offset
           s == scan[t].selected
           c == Candidate(t)
<1>0. /\ mutex = t /\ o \in 0 .. Size - 1 /\ c \in Backends /\ c = Visited(t, o)
      /\ s \in Backends \cup {None}
  <2>1. mutex = t /\ o \in 0 .. Size - 1 /\ s \in Backends \cup {None}
    BY PoolAssumption DEF CountInv, TypeOK, Scan, ScanHealth, OneSelector
  <2>2. c \in Backends /\ c = Visited(t, o)
    BY CandidateType DEF CountInv, Candidate, Visited
  <2> QED BY <2>1, <2>2
<1>1. ~disturbed => ScanSound(t)
  BY <1>0 DEF ScanInv
<1>2. CASE ~healthy[c] /\ Advance(t, s) /\ pc' = pc
  <2>1. ASSUME ~disturbed, s # None
        PROVE  \E k \in 0 .. o :
                 /\ s = Visited(t, k) /\ healthy[s]
                 /\ \A i \in 0 .. o :
                      healthy[Visited(t, i)] =>
                        /\ Score(s, Visited(t, i)) <= Score(Visited(t, i), s)
                        /\ i < k => Score(s, Visited(t, i)) < Score(Visited(t, i), s)
    <3>1. PICK k \in 0 .. o - 1 : BestSoFar(t, k)
      BY <1>1, <2>1 DEF ScanSound
    <3>2. \A i \in 0 .. o : i \in 0 .. o - 1 \/ i = o
      BY <1>0
    <3>3. k \in 0 .. o
      BY <1>0, <3>1
    <3> QED
      BY <1>0, <1>2, <3>1, <3>2, <3>3 DEF BestSoFar
  <2>2. ASSUME ~disturbed, s = None
        PROVE  NoneHealthy(t)
    BY <1>1, <2>2 DEF ScanSound
  <2> QED
    BY <1>0, <1>2, <2>1, <2>2, AdvanceScan, PoolAssumption DEF ScanHealth
<1>3. CASE healthy[c] /\ s = None /\ Advance(t, c) /\ pc' = pc
  <2>1. ASSUME ~disturbed
        PROVE  \A i \in 0 .. o :
                 healthy[Visited(t, i)] =>
                   /\ Score(c, Visited(t, i)) <= Score(Visited(t, i), c)
                   /\ i < o => Score(c, Visited(t, i)) < Score(Visited(t, i), c)
    <3>1. NoneHealthy(t)
      BY <1>1, <1>3, <2>1 DEF ScanSound
    <3>2. \A i \in 0 .. o : i \in 0 .. o - 1 \/ i = o
      BY <1>0
    <3>3. Score(c, c) \in Nat
      BY <1>0, ScoreType DEF CountInv
    <3> QED
      BY <1>0, <3>1, <3>2, <3>3 DEF NoneHealthy
  <2>2. o \in 0 .. o
    BY <1>0
  <2> QED
    BY <1>0, <1>3, <2>1, <2>2, AdvanceScan, PoolAssumption DEF ScanHealth
<1>4. CASE healthy[c] /\ s # None /\ pc' = [pc EXCEPT ![t] = "left"] /\ scan' = scan
  <2>1. pc'[t] = "left"
    BY <1>4 DEF CountInv, TypeOK
  <2> SUFFICES ASSUME ~disturbed PROVE ScanSound(t)'
    BY <1>0 DEF ScanInv, ScanHealth
  <2> QED
    BY <1>1, <1>4, <2>1 DEF ScanSound, NoneHealthy, BestSoFar, Visited, Score, Candidate, ScanHealth
<1> QED
  BY <1>2, <1>3, <1>4 DEF ScanHealth

(* Loading the candidate's product keeps ScanInv.                          *)
LEMMA LoadLeftScan ==
  ASSUME CountInv, ScanInv, NEW t \in Threads, LoadLeft(t)
  PROVE  ScanInv'
<1>1. mutex = t /\ pc'[t] = "right"
  BY DEF CountInv, TypeOK, LoadLeft, OneSelector
<1> SUFFICES ASSUME ~disturbed PROVE ScanSound(t)'
  BY <1>1 DEF ScanInv, LoadLeft
<1>2. ScanSound(t) /\ pc[t] = "left"
  BY <1>1 DEF ScanInv, LoadLeft
<1>3. /\ scan'[t].start = scan[t].start /\ scan'[t].offset = scan[t].offset
      /\ scan'[t].selected = scan[t].selected
      /\ scan'[t].left = Score(Candidate(t), scan[t].selected)
  BY DEF CountInv, TypeOK, Scan, LoadLeft, Score
<1>4. healthy' = healthy /\ active' = active
  BY DEF LoadLeft
<1> QED
  BY <1>1, <1>2, <1>3, <1>4 DEF ScanSound, NoneHealthy, BestSoFar, Visited, Score, Candidate

(* The comparison keeps ScanInv, whichever of the two wins.                *)
LEMMA LoadRightScan ==
  ASSUME CountInv, ScanInv, NEW t \in Threads, LoadRight(t)
  PROVE  ScanInv'
<1> DEFINE o == scan[t].offset
           s == scan[t].selected
           c == Candidate(t)
           choice == IF CandidateWins(t) THEN c ELSE s
<1>0. /\ mutex = t /\ o \in 0 .. Size - 1 /\ c \in Backends /\ c = Visited(t, o)
      /\ s \in Backends /\ None \notin Backends
      /\ o \in 0 .. o /\ \A i \in 0 .. o : i \in 0 .. o - 1 \/ i = o
  <2>1. mutex = t /\ o \in 0 .. Size - 1 /\ s \in Backends /\ None \notin Backends
    BY PoolAssumption DEF CountInv, TypeOK, Scan, LoadRight, OneSelector, ComparesTwo
  <2>2. c \in Backends /\ c = Visited(t, o)
    BY CandidateType DEF CountInv, Candidate, Visited
  <2>3. o \in 0 .. o /\ \A i \in 0 .. o : i \in 0 .. o - 1 \/ i = o
    BY <2>1
  <2> QED BY <2>1, <2>2, <2>3
<1>1. /\ choice \in Backends /\ Advance(t, choice) /\ pc'[t] = "scan" /\ scan[t].offset < Size
      /\ UNCHANGED <<healthy, active, mutex, disturbed>>
  <2>1. choice \in Backends /\ scan[t].offset < Size
    BY <1>0, PoolAssumption
  <2>2. Advance(t, choice) /\ UNCHANGED <<healthy, active, mutex, disturbed>> /\ pc'[t] = "scan"
    BY DEF LoadRight, CountInv, TypeOK
  <2> QED BY <2>1, <2>2
<1>2. ASSUME ~disturbed
      PROVE  \E k \in 0 .. o :
               /\ choice = Visited(t, k) /\ healthy[choice]
               /\ \A i \in 0 .. o :
                    healthy[Visited(t, i)] =>
                      /\ Score(choice, Visited(t, i)) <= Score(Visited(t, i), choice)
                      /\ i < k => Score(choice, Visited(t, i)) < Score(Visited(t, i), choice)
  <2>1. ScanSound(t)
    BY <1>0, <1>2 DEF ScanInv
  <2>2. PICK k \in 0 .. o - 1 : BestSoFar(t, k)
    BY <1>0, <2>1 DEF ScanSound
  <2>3. healthy[c] /\ scan[t].left = Score(c, s)
    BY <2>1 DEF ScanSound, LoadRight
  <2>4. /\ Score(c, s) \in Nat /\ Score(s, c) \in Nat /\ Score(c, c) \in Nat
        /\ CandidateWins(t) <=> Score(c, s) < Score(s, c)
    <3>1. Score(c, s) \in Nat /\ Score(s, c) \in Nat /\ Score(c, c) \in Nat
      BY <1>0, ScoreType DEF CountInv
    <3>2. CandidateWins(t) <=> Score(c, s) < Score(s, c)
      BY <2>3, Zenon DEF CandidateWins, Score
    <3> QED BY <3>1, <3>2
  <2>5. \A i \in 0 .. o : Visited(t, i) \in Backends
    BY <1>0, VisitedType, PoolAssumption DEF CountInv
  <2>6. CASE CandidateWins(t)
    <3>1. choice = c
      BY <2>6
    <3>2. ASSUME NEW i \in 0 .. o - 1, healthy[Visited(t, i)]
          PROVE  Score(c, Visited(t, i)) < Score(Visited(t, i), c)
      <4>1. Visited(t, i) \in Backends
        BY <2>5, <1>0
      <4>2. Score(s, Visited(t, i)) <= Score(Visited(t, i), s)
        BY <2>2, <3>2 DEF BestSoFar
      <4> QED
        BY <1>0, <2>4, <2>6, <4>1, <4>2, BeatsAllBeaten DEF CountInv
    <3>3. ASSUME NEW i \in 0 .. o, healthy[Visited(t, i)]
          PROVE  /\ Score(c, Visited(t, i)) <= Score(Visited(t, i), c)
                 /\ i < o => Score(c, Visited(t, i)) < Score(Visited(t, i), c)
      <4>1. Score(c, Visited(t, i)) \in Nat /\ Score(Visited(t, i), c) \in Nat
        BY <1>0, <2>5, ScoreType DEF CountInv
      <4> QED
        BY <1>0, <2>4, <3>2, <3>3, <4>1
    <3> QED
      BY <1>0, <2>3, <3>1, <3>3
  <2>7. CASE ~CandidateWins(t)
    <3>1. choice = s
      BY <2>7
    <3>2. Score(s, c) <= Score(c, s)
      BY <2>4, <2>7
    <3>3. k \in 0 .. o /\ ~(o < k)
      BY <1>0, <2>2
    <3> QED
      BY <1>0, <2>2, <3>1, <3>2, <3>3 DEF BestSoFar
  <2> QED BY <2>6, <2>7
<1> QED
  <2> HIDE DEF choice
  <2> QED BY <1>0, <1>1, <1>2, AdvanceScan

(* Every step keeps ScanInv.                                               *)
LEMMA ScanNext == CountInv /\ ScanInv /\ [Next]_vars => ScanInv'
<1> SUFFICES ASSUME CountInv, ScanInv, [Next]_vars PROVE ScanInv'
    OBVIOUS
<1>1. ASSUME NEW t \in Threads, Lock(t)
      PROVE  ScanInv'
  <2> SUFFICES ScanSound(t)'
    BY <1>1 DEF ScanInv, Lock
  <2>1. scan'[t].selected = None /\ scan'[t].offset = 0 /\ pc'[t] = "scan"
    BY <1>1 DEF CountInv, TypeOK, Lock, Idle
  <2> QED
    BY <2>1 DEF ScanSound, NoneHealthy
<1>2. ASSUME NEW t \in Threads, Refuse(t) \/ \E l \in Leases : Grant(t, l)
      PROVE  ScanInv'
  BY <1>2, PoolAssumption DEF ScanInv, Refuse, Grant
<1>3. ASSUME NEW t \in Threads, NEW l \in Leases, ReleaseLoad(t, l)
      PROVE  ScanInv'
  BY <1>3, OthersScan DEF CountInv, TypeOK, OneSelector, ReleaseLoad
<1>4. ASSUME NEW t \in Threads, ReleaseSub(t)
      PROVE  ScanInv'
  BY <1>4, PoolAssumption DEF ScanInv, ReleaseSub
<1>5. ASSUME NEW b \in Backends, NEW value \in BOOLEAN, SetHealthy(b, value)
      PROVE  ScanInv'
  BY <1>5, PoolAssumption DEF ScanInv, SetHealthy
<1>6. CASE UNCHANGED vars
  BY <1>6, OthersScan DEF vars
<1> QED
  BY <1>1, <1>2, <1>3, <1>4, <1>5, <1>6, ScanHealthScan, LoadLeftScan, LoadRightScan DEF Next

(* The whole inductive invariant.                                          *)
PoolInv == CountInv /\ ScanInv

(* The inductive invariant holds of every reachable state.                 *)
THEOREM Invariance == Spec => []PoolInv
<1>1. Init => PoolInv
  BY CountInit, PoolAssumption DEF Init, PoolInv, ScanInv
<1>2. PoolInv /\ [Next]_vars => PoolInv'
  BY CountNext, ScanNext DEF PoolInv
<1> QED
  BY <1>1, <1>2, PTL DEF Spec

(* The type invariant: in particular activeConnections_ never wraps below  *)
(* zero, although release() tests it and subtracts in two operations.      *)
THEOREM TypeCorrect == Spec => []TypeOK
BY Invariance, PTL DEF PoolInv, CountInv

(* selectionMutex_ excludes: only its holder is inside the selection.      *)
THEOREM MutualExclusion == Spec => []OneSelector
BY Invariance, PTL DEF PoolInv, CountInv

(* activeConnections_ counts the leases, for any number of workers that    *)
(* acquire and release at once.                                            *)
THEOREM CountsCorrect == Spec => []ActiveCountsLeases
BY Invariance, PTL DEF PoolInv, CountInv

(* The defensive test of Backend::release() never skips a subtraction.     *)
THEOREM NoReleaseSkipped == Spec => []ReleaseNeverSkips
BY Invariance, PTL DEF PoolInv, CountInv

(* A sound scan that has met every backend has the best in rotation.       *)
LEMMA EndOfScan == PoolInv => BestInRotation
<1> SUFFICES ASSUME PoolInv, NEW t \in Threads,
                    pc[t] = "scan", scan[t].offset = Size, ~disturbed
             PROVE  /\ scan[t].selected = None <=> ~hasHealthyBackend
                    /\ scan[t].selected # None =>
                         \A i \in 0 .. Size - 1 :
                           LET b == (scan[t].start + i) % Size
                               s == scan[t].selected
                           IN  /\ healthy[b] => Score(s, b) <= Score(b, s)
                               /\ healthy[b] /\ i < (s - scan[t].start + Size) % Size => Score(s, b) < Score(b, s)
    BY DEF BestInRotation
<1>1. ScanSound(t)
  BY DEF PoolInv, CountInv, OneSelector, ScanInv
<1>2. scan[t].start \in 0 .. Size - 1 /\ Size \in Nat \ {0}
  BY PoolAssumption DEF PoolInv, CountInv, TypeOK, Scan, Backends
<1>3. CASE scan[t].selected = None
  <2>1. ASSUME NEW b \in Backends
        PROVE  ~healthy[b]
    <3>1. /\ (b - scan[t].start + Size) % Size \in 0 .. Size - 1
          /\ Visited(t, (b - scan[t].start + Size) % Size) = b
      <4> DEFINE start == scan[t].start
      <4>1. start \in 0 .. Size - 1 /\ Size \in Nat \ {0} /\ b \in 0 .. Size - 1
        BY <1>2 DEF Backends
      <4> HIDE DEF start
      <4>2. /\ (b - start + Size) % Size \in 0 .. Size - 1
            /\ (start + ((b - start + Size) % Size)) % Size = b
        BY <4>1, Rotation
      <4> QED BY <4>2 DEF Visited, start
    <3> QED
      BY <1>1, <1>3, <3>1 DEF ScanSound, NoneHealthy
  <2> QED
    BY <1>3, <2>1 DEF hasHealthyBackend
<1>4. CASE scan[t].selected # None
  <2>1. PICK k \in 0 .. Size - 1 : BestSoFar(t, k)
    BY <1>1, <1>4 DEF ScanSound
  <2>2. scan[t].selected = (scan[t].start + k) % Size
    BY <2>1 DEF BestSoFar, Visited
  <2>3. (scan[t].selected - scan[t].start + Size) % Size = k
    <3> DEFINE start == scan[t].start
    <3>1. start \in 0 .. Size - 1 /\ Size \in Nat \ {0}
      BY <1>2
    <3> HIDE DEF start
    <3>2. (((start + k) % Size) - start + Size) % Size = k
      BY <3>1, Rotation
    <3> QED BY <2>2, <3>2 DEF start
  <2>4. hasHealthyBackend
    BY <1>4, <2>1 DEF BestSoFar, hasHealthyBackend, PoolInv, CountInv, TypeOK, Scan
  <2> QED
    BY <1>4, <2>1, <2>3, <2>4 DEF BestSoFar, Visited
<1> QED BY <1>3, <1>4

(* An undisturbed acquire() ends with the healthy backend of the lowest    *)
(* active/weight, the first of them in rotation order, or with none only   *)
(* if none is healthy, whatever the weights.                               *)
THEOREM SelectsTheBest == Spec => []BestInRotation
BY Invariance, EndOfScan, PTL
=============================================================================
