------------------------ MODULE HealthCheckerProofs -------------------------
(***************************************************************************)
(* HealthChecker's hysteresis for every pair of thresholds, every number   *)
(* of backends and every width of the counters: the flag follows the last  *)
(* probe results and changes only on a whole streak, also after a counter  *)
(* has wrapped around. A counter and the remembered results bound each     *)
(* other: what is counted was seen (CountedIsSeen), and, as long as the    *)
(* counter decides anything, what was seen is counted (SeenIsCounted).     *)
(***************************************************************************)
EXTENDS HealthChecker, SequenceTheorems, TLAPS

(* A count as far as the remembered results can confirm it.                *)
Capped(n) == IF n < Window THEN n ELSE Window

(* Each counter tells no more than the last results do. A counter that has *)
(* wrapped around tells less.                                              *)
CountedIsSeen ==
  \A i \in Index : /\ LastAre(i, Capped(failures[i]), FALSE)
                   /\ LastAre(i, Capped(successes[i]), TRUE)

(* The counter that can still change the flag is exact and below its       *)
(* threshold: it has not wrapped, because the flag changes when it reaches *)
(* the threshold, and from then on the other counter is the one that       *)
(* matters.                                                                *)
SeenIsCounted ==
  \A i \in Index :
    /\ healthy[i] => failures[i] < failureThreshold /\ ~LastAre(i, failures[i] + 1, FALSE)
    /\ ~healthy[i] => successes[i] < successThreshold /\ ~LastAre(i, successes[i] + 1, TRUE)

(* The inductive invariant.                                                *)
HealthInv == TypeOK /\ CountedIsSeen /\ SeenIsCounted

(* The last n results of a history are all the given value.                *)
EndsIn(history, n, value) ==
  /\ Len(history) >= n
  /\ \A k \in Len(history) - n + 1 .. Len(history) : history[k] = value

(* Both thresholds fit into the remembered results.                        *)
LEMMA WindowFacts ==
  /\ Window \in Nat \ {0}
  /\ failureThreshold \in 1 .. Window /\ successThreshold \in 1 .. Window
BY CheckerAssumption DEF Window

(* Remembering a result appends it and forgets the oldest of a full        *)
(* history.                                                                *)
LEMMA RememberFacts ==
  ASSUME NEW history \in Seq(BOOLEAN), Len(history) <= Window, NEW result \in BOOLEAN
  PROVE  LET after == Remember(history, result)
         IN  /\ after \in Seq(BOOLEAN) /\ Len(after) \in 1 .. Window
             /\ Len(after) = IF Len(history) < Window THEN Len(history) + 1 ELSE Window
             /\ after[Len(after)] = result
             /\ \A k \in 1 .. Len(after) - 1 : after[k] = history[k + Len(history) + 1 - Len(after)]
<1>0. Len(history) \in Nat
  OBVIOUS
<1>1. CASE Len(history) < Window
  <2>1. Remember(history, result) = Append(history, result)
    BY <1>1 DEF Remember
  <2> QED
    BY <1>0, <1>1, <2>1, WindowFacts
<1>2. CASE Len(history) = Window
  <2>1. Remember(history, result) = Append(Tail(history), result)
    BY <1>2, WindowFacts DEF Remember
  <2>2. history # << >>
    BY <1>2, WindowFacts
  <2>3. /\ Tail(history) \in Seq(BOOLEAN) /\ Len(Tail(history)) = Window - 1
        /\ \A k \in 1 .. Window - 1 : Tail(history)[k] = history[k + 1]
    BY <1>2, <2>2, WindowFacts
  <2> QED
    BY <1>2, <2>1, <2>3, WindowFacts
<1> QED
  BY <1>0, <1>1, <1>2, WindowFacts

(* An equal result makes a streak longer by one, within the window, and a  *)
(* longer streak came from one shorter by one.                             *)
LEMMA StreakGrows ==
  ASSUME NEW history \in Seq(BOOLEAN), Len(history) <= Window, NEW value \in BOOLEAN,
         NEW n \in Nat
  PROVE  /\ EndsIn(history, n, value) /\ n < Window => EndsIn(Remember(history, value), n + 1, value)
         /\ EndsIn(history, n, value) /\ n = Window => EndsIn(Remember(history, value), n, value)
         /\ n < Window /\ EndsIn(Remember(history, value), n + 1, value) => EndsIn(history, n, value)
<1> DEFINE after == Remember(history, value)
           shift == Len(history) + 1 - Len(after)
<1>0. /\ Len(after) \in 1 .. Window /\ Len(history) \in 0 .. Window
      /\ Len(after) = IF Len(history) < Window THEN Len(history) + 1 ELSE Window
      /\ after[Len(after)] = value
      /\ \A k \in 1 .. Len(after) - 1 : after[k] = history[k + shift]
  <2>1. Len(history) \in 0 .. Window
    BY WindowFacts
  <2>2. Len(after) \in 1 .. Window
    BY RememberFacts
  <2>3. \A k \in 1 .. Len(after) - 1 : k + Len(history) + 1 - Len(after) = k + shift
    BY <2>1, <2>2
  <2> QED
    BY <2>1, <2>2, <2>3, RememberFacts
<1>00. /\ shift \in {0, 1} /\ Len(after) = Len(history) + 1 - shift
       /\ Len(after) \in Nat /\ Len(history) \in Nat
  BY <1>0, WindowFacts
<1> HIDE DEF after, shift
<1>1. ASSUME EndsIn(history, n, value), n < Window
      PROVE  EndsIn(after, n + 1, value)
  <2>1. Len(after) >= n + 1
    BY <1>0, <1>1, WindowFacts DEF EndsIn
  <2>2. ASSUME NEW k \in Len(after) - (n + 1) + 1 .. Len(after)
        PROVE  after[k] = value
    <3>1. CASE k = Len(after)
      BY <1>0, <3>1
    <3>2. CASE k # Len(after)
      <4>1. k \in 1 .. Len(after) - 1 /\ k + shift \in Len(history) - n + 1 .. Len(history)
        BY <1>00, <2>1, <3>2
      <4>2. history[k + shift] = value
        BY <1>1, <4>1 DEF EndsIn
      <4> QED
        BY <1>0, <4>1, <4>2
    <3> QED BY <3>1, <3>2
  <2> QED
    BY <2>1, <2>2 DEF EndsIn
<1>2. ASSUME EndsIn(history, n, value), n = Window
      PROVE  EndsIn(after, n, value)
  <2>1. Len(history) = n /\ Len(after) = n /\ shift = 1
    BY <1>0, <1>00, <1>2, WindowFacts DEF EndsIn
  <2>2. ASSUME NEW k \in Len(after) - n + 1 .. Len(after)
        PROVE  after[k] = value
    <3>1. CASE k = Len(after)
      BY <1>0, <3>1
    <3>2. CASE k # Len(after)
      <4>1. k \in 1 .. Len(after) - 1 /\ k + shift \in Len(history) - n + 1 .. Len(history)
        BY <1>00, <2>1, <3>2
      <4> QED
        BY <1>0, <1>2, <4>1 DEF EndsIn
    <3> QED BY <3>1, <3>2
  <2> QED
    BY <2>1, <2>2 DEF EndsIn
<1>3. ASSUME n < Window, EndsIn(after, n + 1, value)
      PROVE  EndsIn(history, n, value)
  <2>1. Len(history) >= n
    BY <1>0, <1>3, WindowFacts DEF EndsIn
  <2>2. ASSUME NEW k \in Len(history) - n + 1 .. Len(history)
        PROVE  history[k] = value
    <3> DEFINE j == k - shift
    <3>1. j \in 1 .. Len(after) - 1 /\ j \in Len(after) - (n + 1) + 1 .. Len(after)
      BY <1>00, <1>3, <2>1 DEF EndsIn
    <3>2. k = j + shift
      BY <1>00
    <3> QED
      BY <1>0, <1>3, <3>1, <3>2 DEF EndsIn
  <2> QED
    BY <2>1, <2>2 DEF EndsIn
<1> QED
  BY <1>1, <1>2, <1>3 DEF after

(* A different result ends a streak.                                       *)
LEMMA StreakBreaks ==
  ASSUME NEW history \in Seq(BOOLEAN), Len(history) <= Window, NEW value \in BOOLEAN,
         NEW other \in BOOLEAN \ {value}
  PROVE  ~EndsIn(Remember(history, value), 0 + 1, other)
<1> DEFINE after == Remember(history, value)
<1>1. Len(after) \in Nat \ {0} /\ after[Len(after)] = value
  BY RememberFacts, WindowFacts
<1> QED
  BY <1>1 DEF EndsIn

(* One probe keeps a counter within its width and confirmed by the         *)
(* results.                                                                *)
LEMMA CounterSeen ==
  ASSUME NEW history \in Seq(BOOLEAN), Len(history) <= Window, NEW value \in BOOLEAN,
         NEW n \in 0 .. Modulus - 1, EndsIn(history, Capped(n), value), NEW result \in BOOLEAN
  PROVE  /\ Streak(n, result = value) \in 0 .. Modulus - 1
         /\ EndsIn(Remember(history, result), Capped(Streak(n, result = value)), value)
<1> DEFINE after == Remember(history, result)
<1>0. Len(after) \in Nat /\ EndsIn(after, 0, value) /\ Capped(0) = 0 /\ Modulus \in Nat \ {0}
  <2>1. Len(after) \in Nat
    BY RememberFacts
  <2>2. EndsIn(after, 0, value)
    BY <2>1 DEF EndsIn
  <2> QED
    BY <2>1, <2>2, WindowFacts, CheckerAssumption DEF Capped
<1>1. CASE result = value /\ n + 1 < Modulus
  <2>1. Streak(n, result = value) = n + 1
    BY <1>0, <1>1 DEF Streak
  <2>2. CASE n < Window
    <3>1. Capped(n) = n /\ Capped(n + 1) = n + 1
      BY <2>2, WindowFacts DEF Capped
    <3> QED
      BY <1>0, <1>1, <2>1, <2>2, <3>1, StreakGrows
  <2>3. CASE n >= Window
    <3>1. Capped(n) = Window /\ Capped(n + 1) = Window
      BY <2>3, WindowFacts DEF Capped
    <3> QED
      BY <1>0, <1>1, <2>1, <3>1, StreakGrows, WindowFacts
  <2> QED BY <2>2, <2>3, WindowFacts
<1>2. CASE result = value /\ n + 1 = Modulus
  <2>1. Streak(n, result = value) = 0
    BY <1>0, <1>2 DEF Streak
  <2> QED BY <1>0, <2>1
<1>3. CASE result # value
  <2>1. Streak(n, result = value) = 0
    BY <1>3 DEF Streak
  <2> QED BY <1>0, <2>1
<1> QED
  BY <1>0, <1>1, <1>2, <1>3

(* One probe keeps an exact counter exact while it is below its threshold. *)
LEMMA CounterExact ==
  ASSUME NEW history \in Seq(BOOLEAN), Len(history) <= Window, NEW value \in BOOLEAN,
         NEW threshold \in 1 .. Window, threshold < Modulus,
         NEW n \in 0 .. threshold - 1, ~EndsIn(history, n + 1, value), NEW result \in BOOLEAN,
         Streak(n, result = value) < threshold
  PROVE  ~EndsIn(Remember(history, result), Streak(n, result = value) + 1, value)
<1>1. CASE result = value
  <2>1. Streak(n, result = value) = n + 1 /\ n + 1 \in Nat /\ n + 1 < Window
    BY <1>1, WindowFacts, CheckerAssumption DEF Streak
  <2> QED
    BY <1>1, <2>1, StreakGrows
<1>2. CASE result # value
  <2>1. Streak(n, result = value) = 0 /\ value \in BOOLEAN \ {result}
    BY <1>2 DEF Streak
  <2> QED
    BY <2>1, StreakBreaks
<1> QED BY <1>1, <1>2

(* A streak contains the shorter ones.                                     *)
LEMMA EndsInLess ==
  ASSUME NEW history \in Seq(BOOLEAN), NEW m \in Nat, NEW n \in 0 .. m, NEW value,
         EndsIn(history, m, value)
  PROVE  EndsIn(history, n, value)
BY DEF EndsIn

(* The end of a probe keeps the invariant, whatever its result.            *)
LEMMA ConcludeInv ==
  ASSUME HealthInv, NEW reachable \in BOOLEAN, Conclude(reachable)
  PROVE  TypeOK' /\ CountedIsSeen' /\ SeenIsCounted'
<1> USE DEF HealthInv
<1>0. /\ next \in Index /\ next \in Nat /\ recent[next] \in Seq(BOOLEAN) /\ Len(recent[next]) <= Window
      /\ failures[next] \in 0 .. Modulus - 1 /\ successes[next] \in 0 .. Modulus - 1
      /\ healthy[next] \in BOOLEAN
  BY CheckerAssumption DEF TypeOK, Index
<1> DEFINE f == Streak(failures[next], reachable = FALSE)
           s == Streak(successes[next], reachable = TRUE)
           after == Remember(recent[next], reachable)
           flag == IF reachable THEN healthy[next] \/ s >= successThreshold
                   ELSE healthy[next] /\ ~(f >= failureThreshold)
<1>1. /\ f \in 0 .. Modulus - 1 /\ EndsIn(after, Capped(f), FALSE)
      /\ s \in 0 .. Modulus - 1 /\ EndsIn(after, Capped(s), TRUE)
  <2>1. /\ EndsIn(recent[next], Capped(failures[next]), FALSE)
        /\ EndsIn(recent[next], Capped(successes[next]), TRUE)
    BY <1>0 DEF CountedIsSeen, LastAre, EndsIn
  <2> QED
    BY <1>0, <2>1, CounterSeen
<1>2. /\ after \in Seq(BOOLEAN) /\ Len(after) <= Window
  BY <1>0, RememberFacts, WindowFacts
<1>3. /\ failures' = [failures EXCEPT ![next] = f]
      /\ successes' = [successes EXCEPT ![next] = s]
      /\ recent' = [recent EXCEPT ![next] = after]
      /\ healthy' = [healthy EXCEPT ![next] = flag]
  <2>1. (~reachable) = (reachable = FALSE) /\ reachable = (reachable = TRUE)
    OBVIOUS
  <2> QED
    BY <1>0, <2>1 DEF Conclude, Probed, Reached, TypeOK
<1>4. ASSUME flag PROVE f < failureThreshold /\ ~EndsIn(after, f + 1, FALSE)
  <2>1. CASE reachable
    <3>1. f = 0 /\ 0 < failureThreshold
      BY <2>1, CheckerAssumption DEF Streak
    <3>2. ~EndsIn(after, 0 + 1, FALSE)
      BY <1>0, <2>1, StreakBreaks
    <3> QED BY <3>1, <3>2
  <2>2. CASE ~reachable
    <3>1. healthy[next] /\ f < failureThreshold
      BY <1>0, <1>1, <1>4, <2>2, CheckerAssumption
    <3>2. failures[next] < failureThreshold /\ ~EndsIn(recent[next], failures[next] + 1, FALSE)
      BY <1>0, <3>1 DEF SeenIsCounted, LastAre, EndsIn
    <3>3. failureThreshold \in 1 .. Window /\ failureThreshold < Modulus /\ failures[next] \in 0 .. failureThreshold - 1
      BY <1>0, <3>2, WindowFacts, CheckerAssumption
    <3>4. ~EndsIn(after, f + 1, FALSE)
      BY <1>0, <3>1, <3>2, <3>3, CounterExact
    <3> QED BY <3>1, <3>4
  <2> QED BY <2>1, <2>2
<1>5. ASSUME ~flag PROVE s < successThreshold /\ ~EndsIn(after, s + 1, TRUE)
  <2>1. CASE ~reachable
    <3>1. s = 0 /\ 0 < successThreshold
      BY <2>1, CheckerAssumption DEF Streak
    <3>2. ~EndsIn(after, 0 + 1, TRUE)
      BY <1>0, <2>1, StreakBreaks
    <3> QED BY <3>1, <3>2
  <2>2. CASE reachable
    <3>1. ~healthy[next] /\ s < successThreshold
      BY <1>0, <1>1, <1>5, <2>2, CheckerAssumption
    <3>2. successes[next] < successThreshold /\ ~EndsIn(recent[next], successes[next] + 1, TRUE)
      BY <1>0, <3>1 DEF SeenIsCounted, LastAre, EndsIn
    <3>3. successThreshold \in 1 .. Window /\ successThreshold < Modulus /\ successes[next] \in 0 .. successThreshold - 1
      BY <1>0, <3>2, WindowFacts, CheckerAssumption
    <3>4. ~EndsIn(after, s + 1, TRUE)
      BY <1>0, <3>1, <3>2, <3>3, CounterExact
    <3> QED BY <3>1, <3>4
  <2> QED BY <2>1, <2>2
<1>6. flag \in BOOLEAN
  BY <1>0
<1> HIDE DEF f, s, after, flag
<1>7. TypeOK'
  <2>1. /\ failures' \in [Index -> 0 .. Modulus - 1] /\ successes' \in [Index -> 0 .. Modulus - 1]
        /\ healthy' \in [Index -> BOOLEAN]
    BY <1>0, <1>1, <1>3, <1>6 DEF TypeOK
  <2>2. recent' \in [Index -> Seq(BOOLEAN)] /\ \A i \in Index : Len(recent'[i]) <= Window
    BY <1>0, <1>2, <1>3 DEF TypeOK
  <2>3. next' \in Index /\ pc' \in {"probe", "test"}
    BY <1>0, CheckerAssumption DEF Conclude, IsLast, Index
  <2> QED
    BY <2>1, <2>2, <2>3 DEF TypeOK, Conclude
<1>8. ASSUME NEW i \in Index
      PROVE  \/ /\ i = next /\ recent'[i] = after /\ healthy'[i] = flag
                /\ failures'[i] = f /\ successes'[i] = s
             \/ /\ recent'[i] = recent[i] /\ healthy'[i] = healthy[i]
                /\ failures'[i] = failures[i] /\ successes'[i] = successes[i]
  BY <1>3 DEF TypeOK
<1>9. CountedIsSeen'
  BY <1>1, <1>8 DEF CountedIsSeen, LastAre, EndsIn
<1>10. SeenIsCounted'
  <2>1. ASSUME NEW i \in Index
        PROVE  /\ healthy[i] => failures[i] < failureThreshold /\ ~EndsIn(recent[i], failures[i] + 1, FALSE)
               /\ ~healthy[i] => successes[i] < successThreshold /\ ~EndsIn(recent[i], successes[i] + 1, TRUE)
    BY DEF SeenIsCounted, LastAre, EndsIn
  <2>2. ASSUME NEW i \in Index
        PROVE  /\ healthy'[i] => failures'[i] < failureThreshold /\ ~EndsIn(recent'[i], failures'[i] + 1, FALSE)
               /\ ~healthy'[i] => successes'[i] < successThreshold /\ ~EndsIn(recent'[i], successes'[i] + 1, TRUE)
    BY <1>4, <1>5, <1>8, <2>1
  <2> QED
    BY <2>2 DEF SeenIsCounted, LastAre, EndsIn
<1> QED BY <1>7, <1>9, <1>10

(* The invariant holds when the thread has been started.                   *)
LEMMA InitInv == Init => HealthInv
<1> SUFFICES ASSUME Init PROVE HealthInv
    OBVIOUS
<1>1. TypeOK
  <2>1. 1 \in Index /\ 0 \in 0 .. Modulus - 1
    BY CheckerAssumption DEF Index
  <2>2. << >> \in Seq(BOOLEAN) /\ Len(<< >>) = 0
    OBVIOUS
  <2>3. recent \in [Index -> Seq(BOOLEAN)] /\ \A i \in Index : Len(recent[i]) <= Window
    BY <2>2, WindowFacts DEF Init
  <2> QED
    BY <2>1, <2>3 DEF Init, TypeOK
<1>2. \A i \in Index : Len(recent[i]) = 0
  BY DEF Init
<1>3. CountedIsSeen /\ SeenIsCounted
  BY <1>2, CheckerAssumption, WindowFacts DEF Init, CountedIsSeen, SeenIsCounted, LastAre, Capped
<1> QED BY <1>1, <1>3 DEF HealthInv

(* Every step keeps the invariant.                                         *)
LEMMA NextInv == HealthInv /\ [Next]_vars => HealthInv'
<1> SUFFICES ASSUME HealthInv, [Next]_vars PROVE HealthInv'
    OBVIOUS
<1>1. CASE ConnectAtOnce \/ PollEnds
  <2>1. \E reachable \in BOOLEAN : Conclude(reachable)
    BY <1>1 DEF ConnectAtOnce, PollEnds, HealthInv, TypeOK
  <2> QED
    BY <2>1, ConcludeInv DEF HealthInv
<1>2. ASSUME UNCHANGED <<healthy, failures, successes, recent>>, TypeOK'
      PROVE  HealthInv'
  BY <1>2 DEF HealthInv, CountedIsSeen, SeenIsCounted, LastAre
<1>3. CASE \/ ConnectStarts \/ TestRunning \/ CheckPredicate \/ Block \/ IntervalPasses \/ WakeUp
           \/ StopStore \/ StopNotify \/ DescriptorsChange \/ UNCHANGED vars
  <2>1. TypeOK' /\ UNCHANGED <<healthy, failures, successes, recent>>
    BY <1>3 DEF HealthInv, TypeOK, vars, ConnectStarts, TestRunning, CheckPredicate, Block,
       IntervalPasses, WakeUp, StopStore, StopNotify, DescriptorsChange
  <2> QED BY <1>2, <2>1
<1>4. ASSUME NEW i \in Index, BackendChanges(i)
      PROVE  HealthInv'
  <2>1. TypeOK' /\ UNCHANGED <<healthy, failures, successes, recent>>
    BY <1>4 DEF HealthInv, TypeOK, BackendChanges
  <2> QED BY <1>2, <2>1
<1> QED
  BY <1>1, <1>3, <1>4 DEF Next, Thread, Exited

(* The inductive invariant holds of every reachable state.                 *)
THEOREM Invariance == Spec => []HealthInv
BY InitInv, NextInv, PTL DEF Spec

(* The type invariant; the round of probes stays within the backends.      *)
THEOREM TypeCorrect == Spec => []TypeOK
BY Invariance, PTL DEF HealthInv

(* The invariant implies the property of the flag.                         *)
LEMMA InvFollows == HealthInv => HealthFollowsProbes
<1> SUFFICES ASSUME HealthInv, NEW i \in Index
             PROVE  /\ healthy[i] => ~LastAre(i, failureThreshold, FALSE)
                    /\ ~healthy[i] => ~LastAre(i, successThreshold, TRUE)
    BY DEF HealthFollowsProbes
<1>1. /\ recent[i] \in Seq(BOOLEAN) /\ failures[i] \in Nat /\ successes[i] \in Nat
      /\ failureThreshold \in Nat /\ successThreshold \in Nat
  BY CheckerAssumption DEF HealthInv, TypeOK
<1>2. ASSUME healthy[i], LastAre(i, failureThreshold, FALSE)
      PROVE  FALSE
  <2>1. failures[i] + 1 \in 0 .. failureThreshold /\ ~EndsIn(recent[i], failures[i] + 1, FALSE)
    BY <1>1, <1>2 DEF HealthInv, SeenIsCounted, LastAre, EndsIn
  <2>2. EndsIn(recent[i], failureThreshold, FALSE)
    BY <1>2 DEF LastAre, EndsIn
  <2> QED
    BY <1>1, <2>1, <2>2, EndsInLess
<1>3. ASSUME ~healthy[i], LastAre(i, successThreshold, TRUE)
      PROVE  FALSE
  <2>1. successes[i] + 1 \in 0 .. successThreshold /\ ~EndsIn(recent[i], successes[i] + 1, TRUE)
    BY <1>1, <1>3 DEF HealthInv, SeenIsCounted, LastAre, EndsIn
  <2>2. EndsIn(recent[i], successThreshold, TRUE)
    BY <1>3 DEF LastAre, EndsIn
  <2> QED
    BY <1>1, <2>1, <2>2, EndsInLess
<1> QED BY <1>2, <1>3

(* A healthy backend has not just failed failureThreshold_ probes in a row *)
(* and an unhealthy one has not just answered successThreshold_, for every *)
(* value of the two thresholds.                                            *)
THEOREM FlagFollowsProbes == Spec => []HealthFollowsProbes
BY Invariance, InvFollows, PTL

(* A probe that changes the flag completes a streak.                       *)
LEMMA FlipsAtThreshold ==
  ASSUME HealthInv, HealthInv', NEW reachable \in BOOLEAN, Conclude(reachable), NEW i \in Index
  PROVE  /\ healthy[i] /\ ~healthy'[i] => LastAre(i, failureThreshold, FALSE)'
         /\ ~healthy[i] /\ healthy'[i] => LastAre(i, successThreshold, TRUE)'
<1>0. /\ recent'[i] \in Seq(BOOLEAN) /\ failures'[i] \in Nat /\ successes'[i] \in Nat
      /\ failureThreshold \in Nat /\ successThreshold \in Nat /\ Window \in Nat
      /\ EndsIn(recent'[i], Capped(failures'[i]), FALSE)
      /\ EndsIn(recent'[i], Capped(successes'[i]), TRUE)
  BY CheckerAssumption, WindowFacts DEF HealthInv, TypeOK, CountedIsSeen, LastAre, EndsIn
<1>1. /\ healthy[i] /\ ~healthy'[i] => failures'[i] >= failureThreshold
      /\ ~healthy[i] /\ healthy'[i] => successes'[i] >= successThreshold
  BY DEF Conclude, Probed, Reached, HealthInv, TypeOK
<1>2. ASSUME healthy[i], ~healthy'[i]
      PROVE  LastAre(i, failureThreshold, FALSE)'
  <2>1. Capped(failures'[i]) \in Nat /\ failureThreshold \in 0 .. Capped(failures'[i])
    BY <1>0, <1>1, <1>2, WindowFacts DEF Capped
  <2>2. EndsIn(recent'[i], failureThreshold, FALSE)
    BY <1>0, <2>1, EndsInLess
  <2> QED BY <2>2 DEF LastAre, EndsIn
<1>3. ASSUME ~healthy[i], healthy'[i]
      PROVE  LastAre(i, successThreshold, TRUE)'
  <2>1. Capped(successes'[i]) \in Nat /\ successThreshold \in 0 .. Capped(successes'[i])
    BY <1>0, <1>1, <1>3, WindowFacts DEF Capped
  <2>2. EndsIn(recent'[i], successThreshold, TRUE)
    BY <1>0, <2>1, EndsInLess
  <2> QED BY <2>2 DEF LastAre, EndsIn
<1> QED BY <1>2, <1>3

(* setHealthy() changes the flag only at the end of a whole streak of      *)
(* equal results: isolated results change nothing, for every value of the  *)
(* thresholds.                                                             *)
THEOREM Hysteresis == Spec => FlipsNeedStreaks
<1> DEFINE Flips == \A i \in Index :
                      /\ healthy[i] /\ ~healthy'[i] => LastAre(i, failureThreshold, FALSE)'
                      /\ ~healthy[i] /\ healthy'[i] => LastAre(i, successThreshold, TRUE)'
<1>1. ASSUME HealthInv, HealthInv', [Next]_vars
      PROVE  [Flips]_vars
  <2>1. CASE ConnectAtOnce \/ PollEnds
    <3>1. \E reachable \in BOOLEAN : Conclude(reachable)
      BY <1>1, <2>1 DEF ConnectAtOnce, PollEnds, HealthInv, TypeOK
    <3> QED
      BY <1>1, <3>1, FlipsAtThreshold
  <2>2. CASE ~(ConnectAtOnce \/ PollEnds)
    <3>1. healthy' = healthy
      BY <1>1, <2>2 DEF Next, Thread, Exited, vars, ConnectStarts, TestRunning, CheckPredicate, Block,
         IntervalPasses, WakeUp, StopStore, StopNotify, DescriptorsChange, BackendChanges
    <3> QED BY <3>1
  <2> QED BY <2>1, <2>2
<1> QED
  BY <1>1, Invariance, PTL DEF Spec, FlipsNeedStreaks
=============================================================================
