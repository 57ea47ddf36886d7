------------------------- MODULE ConfigLoaderProofs -------------------------
(***************************************************************************)
(* ConfigLoader is correct for every set of lines and every length of      *)
(* file. First, the configuration that main() starts with is usable:       *)
(* UsableInv says what each variable may hold (Shape), that every value    *)
(* ever stored passed its check and the flags of the section being read    *)
(* tell the truth (InRange), and what the checks after the last line       *)
(* established (Checked). Then, it is what the file says: MeaningInv       *)
(* relates the loader half way to the reference reading of the lines read  *)
(* so far. Appending a line changes the reference's sets of line numbers   *)
(* by that line at most, and makes it the largest, so each of its          *)
(* operators changes in one way for each kind of line. The limits stay     *)
(* behind parseLong(): the provers unfold a range of literals and do not   *)
(* come back.                                                              *)
(***************************************************************************)
EXTENDS ConfigLoader, FiniteSetTheorems, SequenceTheorems, TLAPS

(* The keys of the [server] and [health_check] sections, every scalar      *)
(* member of AppConfig, the members of a BackendConfig, and what a member  *)
(* may hold.                                                               *)
ServerKeys == {"listen_port", "workers", "backlog", "max_events", "buffer_size",
               "connect_timeout_ms", "idle_timeout_seconds", "stats_interval_seconds"}
HealthKeys == {"interval_ms", "timeout_ms", "failure_threshold", "success_threshold"}
Scalars == ServerKeys \cup HealthKeys \cup TextKeys
Fields == {"name", "host", "port", "weight"}
Values == Int \cup {None, AnyHost, Info} \cup {line.value : line \in Lines}

(* The limits of a backend's port and weight.                              *)
Ports == parseLong(1, 65535)
Weights == parseLong(1, 1000)

(* What parseLong() lets through.                                          *)
LEMMA Limits ==
  ASSUME NEW minimum \in Int, NEW maximum \in Int
  PROVE  \A v : v \in parseLong(minimum, maximum) <=> v \in Int /\ minimum <= v /\ v <= maximum
BY DEF parseLong

(* The limits of each key of the [server] section.                         *)
LEMMA ServerLimits ==
  /\ DOMAIN ServerRange = ServerKeys
  /\ ServerRange["listen_port"] = parseLong(1, 65535) /\ ServerRange["workers"] = parseLong(1, 128)
  /\ ServerRange["backlog"] = parseLong(16, 65535)
  /\ ServerRange["max_events"] = parseLong(16, 65536)
  /\ ServerRange["buffer_size"] = parseLong(4096, 16777216)
  /\ ServerRange["connect_timeout_ms"] = parseLong(50, 60000)
  /\ ServerRange["idle_timeout_seconds"] = parseLong(1, 86400)
  /\ ServerRange["stats_interval_seconds"] = parseLong(0, 3600)
BY SMT DEF ServerRange, ServerKeys

(* The limits of each key of the [health_check] section.                   *)
LEMMA HealthLimits ==
  /\ DOMAIN HealthRange = HealthKeys
  /\ HealthRange["interval_ms"] = parseLong(200, 600000)
  /\ HealthRange["timeout_ms"] = parseLong(50, 60000)
  /\ HealthRange["failure_threshold"] = parseLong(1, 100)
  /\ HealthRange["success_threshold"] = parseLong(1, 100)
BY SMT DEF HealthRange, HealthKeys

(* The limits of each integer key of a [backend] section.                  *)
LEMMA BackendLimits ==
  /\ DOMAIN BackendRange = {"port", "weight"}
  /\ BackendRange["port"] = Ports /\ BackendRange["weight"] = Weights
BY SMT DEF BackendRange, Ports, Weights

(* AppConfig's constructor gives every member a value; a fresh             *)
(* BackendConfig has no host, no port and weight 1.                        *)
LEMMA DefaultValues ==
  /\ DOMAIN Defaults = Scalars /\ DOMAIN NoBackend = Fields
  /\ Defaults \in [Scalars -> Values] /\ NoBackend \in [Fields -> Values]
  /\ NoBackend["host"] = None /\ NoBackend["port"] = 0 /\ NoBackend["weight"] = 1
BY DEF Defaults, NoBackend, Scalars, ServerKeys, HealthKeys, TextKeys, Fields, Values

(* The constructor's values would pass the checks that the file's values   *)
(* have to pass.                                                           *)
LEMMA DefaultsInRange ==
  /\ \A key \in ServerKeys : Defaults[key] \in ServerRange[key]
  /\ \A key \in HealthKeys : Defaults[key] \in HealthRange[key]
  /\ Defaults["log_level"] = Info /\ Defaults["listen_host"] = AnyHost
<1>1. /\ Defaults["listen_port"] = 8080 /\ Defaults["workers"] = 4 /\ Defaults["backlog"] = 1024
      /\ Defaults["max_events"] = 2048 /\ Defaults["buffer_size"] = 65536
      /\ Defaults["connect_timeout_ms"] = 3000 /\ Defaults["idle_timeout_seconds"] = 60
      /\ Defaults["stats_interval_seconds"] = 10 /\ Defaults["interval_ms"] = 3000
      /\ Defaults["timeout_ms"] = 800 /\ Defaults["failure_threshold"] = 3
      /\ Defaults["success_threshold"] = 2
      /\ Defaults["log_level"] = Info /\ Defaults["listen_host"] = AnyHost
  BY SMT DEF Defaults
<1>2. /\ 8080 \in parseLong(1, 65535) /\ 4 \in parseLong(1, 128) /\ 1024 \in parseLong(16, 65535)
      /\ 2048 \in parseLong(16, 65536) /\ 65536 \in parseLong(4096, 16777216)
      /\ 3000 \in parseLong(50, 60000) /\ 60 \in parseLong(1, 86400) /\ 10 \in parseLong(0, 3600)
      /\ 3000 \in parseLong(200, 600000) /\ 800 \in parseLong(50, 60000)
      /\ 3 \in parseLong(1, 100) /\ 2 \in parseLong(1, 100)
  BY Limits, SMT
<1> QED
  BY <1>1, <1>2, ServerLimits, HealthLimits, SMT DEF ServerKeys, HealthKeys

-----------------------------------------------------------------------------
(* A backend that may be committed.                                        *)
Usable(b) ==
  b["weight"] \in Weights /\ b["port"] \in Ports /\ b["host"] # None

(* What each variable may hold.                                            *)
Shape ==
  /\ file \in Seq(Lines)
  /\ section \in {"none", "server", "health_check", "backend"}
  /\ current \in [Fields -> Values]
  /\ hasHost \in BOOLEAN /\ hasPort \in BOOLEAN
  /\ config \in [Scalars -> Values]
  /\ backends \in Seq([Fields -> Values])
  /\ outcome \in {"reading", "rejected", "invalid", "loaded", "ready", "badLevel"}

(* Every stored value passed its check; hasHost and hasPort are set only   *)
(* when the section being read gave a value that did.                      *)
InRange ==
  /\ \A key \in ServerKeys : config[key] \in ServerRange[key]
  /\ \A key \in HealthKeys : config[key] \in HealthRange[key]
  /\ current["weight"] \in Weights
  /\ hasPort => current["port"] \in Ports
  /\ hasHost => current["host"] # None
  /\ \A i \in 1..Len(backends) : Usable(backends[i])

(* What the checks after the last line, and then main()'s, established.    *)
Checked ==
  /\ outcome \in {"loaded", "ready"} =>
       /\ backends # << >>
       /\ \A i, j \in 1..Len(backends) : backends[i].name = backends[j].name => i = j
       /\ config["timeout_ms"] < config["interval_ms"]
  /\ outcome = "ready" => config["log_level"] \in Levels

(* The inductive invariant.                                                *)
UsableInv == Shape /\ InRange /\ Checked

(* Counting the names finds every repetition: a list has as many names as  *)
(* entries exactly if no two entries share one.                            *)
LEMMA DistinctNames ==
  ASSUME NEW S, NEW list \in Seq(S)
  PROVE  Cardinality(Names(list)) = Len(list)
           <=> \A i, j \in 1..Len(list) : list[i].name = list[j].name => i = j
<1> DEFINE f == [i \in 1..Len(list) |-> list[i].name]
<1>1. Len(list) \in Nat /\ DOMAIN list = 1..Len(list)
  BY LenProperties
<1>2. f \in Surjection(1..Len(list), Names(list))
  BY <1>1 DEF Surjection, Names
<1>3. IsFiniteSet(1..Len(list)) /\ Cardinality(1..Len(list)) = Len(list)
  <2>1. 1 \in Int /\ Len(list) \in Int /\ Len(list) >= 0
    BY <1>1
  <2>2. /\ IsFiniteSet(1..Len(list))
        /\ Cardinality(1..Len(list)) = IF 1 > Len(list) THEN 0 ELSE Len(list) - 1 + 1
    BY <2>1, FS_Interval
  <2> QED
    BY <2>1, <2>2
<1>4. \A i \in 1..Len(list) : f[i] = list[i].name
  OBVIOUS
<1> HIDE DEF f
<1>5. Cardinality(Names(list)) = Len(list) <=> f \in Injection(1..Len(list), Names(list))
  BY <1>2, <1>3, FS_Surjection
<1>6. f \in Injection(1..Len(list), Names(list))
        <=> \A i, j \in 1..Len(list) : f[i] = f[j] => i = j
  BY <1>2 DEF Injection, IsInjective, Surjection
<1> QED
  BY <1>4, <1>5, <1>6

USE LoaderAssumption

(* What a line assigns is a value a member may hold.                       *)
LEMMA LineTyped ==
  ASSUME NEW line \in Lines
  PROVE  line.value \in Values
BY DEF Values

(* finishBackend() commits only usable backends: the flags it tests were   *)
(* set by checked values.                                                  *)
LEMMA FinishedTyped ==
  ASSUME Shape, InRange, Finishes
  PROVE  /\ Finished \in Seq([Fields -> Values])
         /\ \A i \in 1..Len(Finished) : Usable(Finished[i])
<1>1. CASE section = "backend"
  <2>1. Finished = Append(backends, current) /\ hasHost /\ hasPort
    BY <1>1 DEF Finished, Finishes
  <2>2. /\ Append(backends, current) \in Seq([Fields -> Values])
        /\ Len(Append(backends, current)) = Len(backends) + 1 /\ Len(backends) \in Nat
        /\ \A i \in 1..Len(backends) : Append(backends, current)[i] = backends[i]
        /\ Append(backends, current)[Len(backends) + 1] = current
    BY AppendProperties, LenProperties DEF Shape
  <2>3. Usable(current)
    BY <2>1 DEF InRange, Usable
  <2> QED
    BY <2>1, <2>2, <2>3 DEF InRange
<1>2. CASE section # "backend"
  BY <1>2 DEF Finished, Shape, InRange
<1> QED
  BY <1>1, <1>2

(* The constructor's configuration is in range and nothing is committed.   *)
LEMMA UsableInit == Init => UsableInv
<1> SUFFICES ASSUME Init PROVE UsableInv
  OBVIOUS
<1>1. << >> \in Seq(Lines) /\ << >> \in Seq([Fields -> Values]) /\ Len(<< >>) = 0
  BY EmptySeq
<1>2. 1 \in Weights
  BY Limits DEF Weights
<1>3. Shape
  BY <1>1, DefaultValues DEF Init, Shape
<1>4. InRange
  BY <1>1, <1>2, DefaultValues, DefaultsInRange DEF Init, InRange
<1> QED
  BY <1>3, <1>4 DEF Init, UsableInv, Checked

(* Reading a line keeps the invariant: a rejected line changes nothing, a  *)
(* section commits and resets, an assignment stores a checked value.       *)
LEMMA UsableRead ==
  ASSUME UsableInv, NEW line \in Lines, ReadLine(line)
  PROVE  UsableInv'
<1> USE DEF UsableInv
<1>1. file' \in Seq(Lines) /\ outcome = "reading"
  BY AppendProperties DEF ReadLine, Read, Shape
<1>2. ASSUME UNCHANGED state, outcome' \in {"reading", "rejected"}
      PROVE  UsableInv'
  BY <1>1, <1>2 DEF Shape, InRange, Checked, state
<1>3. CASE Blank(line) \/ Malformed(line) \/ RejectPair(line)
  BY <1>1, <1>2, <1>3 DEF Blank, Malformed, RejectPair, Reject
<1>4. CASE OpenSection(line)
  <2>1. CASE Reject
    BY <1>2, <2>1 DEF Reject
  <2>2. CASE ~Reject
    <3>1. /\ Finishes /\ line.key \in {"server", "health_check", "backend"}
          /\ backends' = Finished /\ section' = line.key
          /\ current' = [NoBackend EXCEPT !.name = line.value]
          /\ hasHost' = FALSE /\ hasPort' = FALSE
          /\ config' = config /\ outcome' = outcome
      BY <1>4, <2>2 DEF OpenSection, ResetFlags
    <3>2. current' \in [Fields -> Values] /\ current'["weight"] = 1
      BY <3>1, DefaultValues, LineTyped DEF Fields
    <3>3. 1 \in Weights
      BY Limits DEF Weights
    <3>4. Shape'
      BY <1>1, <3>1, <3>2, FinishedTyped DEF Shape
    <3>5. InRange'
      BY <3>1, <3>2, <3>3, FinishedTyped DEF InRange
    <3> QED
      BY <1>1, <3>1, <3>4, <3>5 DEF Checked
  <2> QED
    BY <2>1, <2>2
<1>5. CASE AssignScalar(line)
  <2>1. /\ \/ line.key \in ServerKeys /\ line.value \in ServerRange[line.key]
           \/ line.key \in HealthKeys /\ line.value \in HealthRange[line.key]
           \/ line.key \in TextKeys
        /\ config' = [config EXCEPT ![line.key] = line.value]
        /\ UNCHANGED <<section, current, hasHost, hasPort, backends, outcome>>
    BY <1>5, ServerLimits, HealthLimits DEF AssignScalar, Parses
  <2>2. config' \in [Scalars -> Values] /\ line.key \in Scalars
    BY <2>1, LineTyped DEF Shape, Scalars
  <2>3. \A key \in Scalars : config'[key] = IF key = line.key THEN line.value ELSE config[key]
    BY <2>1, <2>2 DEF Shape
  <2>4. /\ \A key \in ServerKeys : key \in Scalars /\ key \notin HealthKeys /\ key \notin TextKeys
        /\ \A key \in HealthKeys : key \in Scalars /\ key \notin TextKeys
    BY DEF Scalars, ServerKeys, HealthKeys, TextKeys
  <2>5. \A key \in ServerKeys : config'[key] \in ServerRange[key]
    BY <2>1, <2>3, <2>4 DEF InRange
  <2>6. \A key \in HealthKeys : config'[key] \in HealthRange[key]
    BY <2>1, <2>3, <2>4 DEF InRange
  <2> QED
    BY <1>1, <2>1, <2>2, <2>5, <2>6 DEF Shape, InRange, Checked
<1>6. CASE AssignBackend(line)
  <2>1. /\ \/ line.key = "host" /\ line.value # None
           \/ line.key = "port" /\ line.value \in Ports
           \/ line.key = "weight" /\ line.value \in Weights
        /\ current' = [current EXCEPT ![line.key] = line.value]
        /\ hasHost' = (hasHost \/ line.key = "host")
        /\ hasPort' = (hasPort \/ line.key = "port")
        /\ UNCHANGED <<section, config, backends, outcome>>
    BY <1>6, BackendLimits DEF AssignBackend, Parses
  <2>2. current' \in [Fields -> Values] /\ line.key \in Fields
    BY <2>1, LineTyped DEF Shape, Fields
  <2>3. \A key \in Fields : current'[key] = IF key = line.key THEN line.value ELSE current[key]
    BY <2>1, <2>2 DEF Shape
  <2>4. /\ current'["weight"] \in Weights
        /\ hasPort' => current'["port"] \in Ports
        /\ hasHost' => current'["host"] # None
    <3>1. /\ "weight" # line.key => current'["weight"] = current["weight"]
          /\ "weight" = line.key => current'["weight"] = line.value
      BY <2>3, SMT DEF Fields
    <3>2. /\ "port" # line.key => current'["port"] = current["port"]
          /\ "port" = line.key => current'["port"] = line.value
      BY <2>3, SMT DEF Fields
    <3>3. /\ "host" # line.key => current'["host"] = current["host"]
          /\ "host" = line.key => current'["host"] = line.value
      BY <2>3, SMT DEF Fields
    <3>4. current'["weight"] \in Weights
      <4>1. CASE "weight" = line.key
        BY <2>1, <3>1, <4>1, SMT
      <4>2. CASE "weight" # line.key
        BY <3>1, <4>2, SMT DEF InRange
      <4> QED
        BY <4>1, <4>2
    <3>5. ASSUME hasPort' PROVE current'["port"] \in Ports
      <4>1. CASE "port" = line.key
        BY <2>1, <3>2, <4>1, SMT
      <4>2. CASE "port" # line.key
        <5>1. hasPort
          BY <2>1, <3>5, <4>2, Zenon
        <5> QED
          BY <5>1, <3>2, <4>2, SMT DEF InRange
      <4> QED
        BY <4>1, <4>2
    <3>6. ASSUME hasHost' PROVE current'["host"] # None
      <4>1. CASE "host" = line.key
        BY <2>1, <3>3, <4>1, SMT
      <4>2. CASE "host" # line.key
        <5>1. hasHost
          BY <2>1, <3>6, <4>2, Zenon
        <5> QED
          BY <5>1, <3>3, <4>2, SMT DEF InRange
      <4> QED
        BY <4>1, <4>2
    <3> QED
      BY <3>4, <3>5, <3>6, Zenon
  <2> QED
    BY <1>1, <2>1, <2>2, <2>4 DEF Shape, InRange, Checked
<1> QED
  BY <1>3, <1>4, <1>5, <1>6 DEF ReadLine

(* The end of the file and main()'s check of the log level keep the        *)
(* invariant.                                                              *)
LEMMA UsableEnd ==
  ASSUME UsableInv, EndOfFile \/ parseLevel \/ UNCHANGED vars
  PROVE  UsableInv'
<1> USE DEF UsableInv
<1>1. CASE EndOfFile /\ Finishes
  <2>1. /\ backends' = Finished /\ UNCHANGED <<file, section, current, hasHost, hasPort, config>>
        /\ outcome' \in {"loaded", "invalid"}
        /\ outcome' = "loaded" => /\ Finished # << >> /\ config.timeout_ms < config.interval_ms
                                  /\ Cardinality(Names(Finished)) = Len(Finished)
    BY <1>1 DEF EndOfFile
  <2>2. Finished \in Seq([Fields -> Values])
    BY <1>1, FinishedTyped
  <2>3. Checked'
    BY <2>1, <2>2, DistinctNames DEF Checked
  <2> QED
    BY <1>1, <2>1, <2>3, FinishedTyped DEF Shape, InRange
<1>2. CASE EndOfFile /\ ~Finishes
  <2>1. outcome' = "invalid" /\ UNCHANGED <<file, state>>
    BY <1>2 DEF EndOfFile, state
  <2> QED
    BY <2>1 DEF Shape, InRange, Checked, state
<1>3. CASE parseLevel
  BY <1>3 DEF parseLevel, Shape, InRange, Checked, state
<1>4. CASE UNCHANGED vars
  BY <1>4 DEF vars, Shape, InRange, Checked, state
<1> QED
  BY <1>1, <1>2, <1>3, <1>4

(* UsableInv holds in every reachable state, for every set of lines and    *)
(* every length of file.                                                   *)
THEOREM Invariance == Spec => []UsableInv
<1>1. ASSUME UsableInv, [Next]_vars
      PROVE  UsableInv'
  BY <1>1, UsableRead, UsableEnd DEF Next, Over
<1> QED
  BY <1>1, UsableInit, PTL DEF Spec

(* main() only goes on with a configuration that the pool, the health      *)
(* checker and the workers can be built from: ReadyIsUsable is an          *)
(* invariant of ConfigLoader::load followed by Logger::parseLevel, for     *)
(* every file.                                                             *)
THEOREM Usability == Spec => []ReadyIsUsable
<1>1. ASSUME UsableInv, outcome = "ready"
      PROVE  /\ backends # << >>
             /\ \A i \in DOMAIN backends : backends[i].weight > 0 /\ backends[i].host # None
             /\ \A i, j \in DOMAIN backends : backends[i].name = backends[j].name => i = j
             /\ config.failure_threshold > 0 /\ config.success_threshold > 0
             /\ config.workers > 0 /\ config.backlog > 0 /\ config.buffer_size > 0
             /\ config.max_events > 2
             /\ 0 < config.timeout_ms /\ config.timeout_ms < config.interval_ms
             /\ config.log_level \in Levels
  <2> USE DEF UsableInv
  <2>1. DOMAIN backends = 1..Len(backends)
    BY <1>1, LenProperties DEF Shape
  <2>2. \A i \in 1..Len(backends) : backends[i].weight > 0 /\ backends[i].host # None
    <3>1. \A v \in Weights : v > 0
      BY Limits DEF Weights
    <3> QED
      BY <1>1, <3>1 DEF InRange, Usable
  <2>3. /\ backends # << >> /\ config.timeout_ms < config.interval_ms /\ config.log_level \in Levels
        /\ \A i, j \in 1..Len(backends) : backends[i].name = backends[j].name => i = j
    BY <1>1 DEF Checked
  <2>4. /\ config["workers"] \in parseLong(1, 128) /\ config["backlog"] \in parseLong(16, 65535)
        /\ config["buffer_size"] \in parseLong(4096, 16777216)
        /\ config["max_events"] \in parseLong(16, 65536)
    BY <1>1, ServerLimits, SMT DEF InRange, ServerKeys
  <2>5. /\ config["failure_threshold"] \in parseLong(1, 100)
        /\ config["success_threshold"] \in parseLong(1, 100)
        /\ config["timeout_ms"] \in parseLong(50, 60000)
    BY <1>1, HealthLimits, SMT DEF InRange, HealthKeys
  <2>6. /\ config.workers > 0 /\ config.backlog > 0 /\ config.buffer_size > 0
        /\ config.max_events > 2 /\ config.failure_threshold > 0 /\ config.success_threshold > 0 /\ 0 < config.timeout_ms
    BY <2>4, <2>5, Limits, SMT
  <2> QED
    BY <2>1, <2>2, <2>3, <2>6
<1>2. UsableInv => ReadyIsUsable
  BY <1>1 DEF ReadyIsUsable
<1> QED
  BY <1>2, Invariance, PTL

-----------------------------------------------------------------------------
(* Every nonempty set of naturals has a smallest element.                  *)
LEMMA SmallestExists ==
  ASSUME NEW T, T \subseteq Nat, T # {}
  PROVE  \E x \in T : \A y \in T : x <= y
<1> DEFINE Less == {ss \in Nat \X Nat : ss[1] < ss[2]}
<1>1. IsWellFoundedOn(Less, Nat)
  BY NatLessThanWellFounded DEF OpToRel
<1> HIDE DEF Less
<1>2. PICK x \in T : \A y \in T : ~ (<<y, x>> \in Less)
  BY <1>1, WFMin
<1>3. ASSUME NEW y \in T, y < x PROVE <<y, x>> \in Less
  <2>1. <<y, x>> \in Nat \X Nat /\ <<y, x>>[1] < <<y, x>>[2]
    BY <1>3
  <2> QED
    BY <2>1 DEF Less
<1>4. \A y \in T : ~(y < x)
  BY <1>2, <1>3
<1>5. \A y \in T : y \in Nat /\ x \in Nat
  OBVIOUS
<1> QED
  BY <1>4, <1>5

(* A nonempty set of line numbers has a largest one.                       *)
LEMMA MaxFacts ==
  ASSUME NEW n \in Nat, NEW S, S \subseteq 1..n, S # {}
  PROVE  Max(S) \in S /\ \A y \in S : y <= Max(S)
<1> DEFINE T == {n - x : x \in S}
<1>1. T \subseteq Nat /\ T # {}
  <2>1. PICK x \in S : TRUE
    OBVIOUS
  <2>2. n - x \in T
    BY <2>1
  <2>3. \A y \in S : n - y \in Nat
    OBVIOUS
  <2> QED
    BY <2>2, <2>3
<1>2. PICK d \in T : \A e \in T : d <= e
  BY <1>1, SmallestExists
<1>3. PICK x \in S : d = n - x
  BY <1>2
<1>4. \A y \in S : n - y \in T
  OBVIOUS
<1>5. \A y \in S : n - x <= n - y
  BY <1>2, <1>3, <1>4
<1>6. \A y \in S : x >= y
  BY <1>5
<1> QED
  BY <1>6 DEF Max

(* A line that is appended is the last of any set it belongs to.           *)
LEMMA MaxOfNew ==
  ASSUME NEW n \in Nat, NEW S, S \subseteq 1..n
  PROVE  Max(S \cup {n + 1}) = n + 1
<1>1. S \cup {n + 1} \subseteq 1..(n + 1) /\ n + 1 \in Nat
  OBVIOUS
<1>2. Max(S \cup {n + 1}) \in S \cup {n + 1} /\ n + 1 <= Max(S \cup {n + 1})
  BY <1>1, MaxFacts
<1>3. \A x \in S : x \in Int /\ ~(n + 1 <= x)
  OBVIOUS
<1>4. Max(S \cup {n + 1}) \notin S
  BY <1>2, <1>3
<1> QED
  BY <1>2, <1>4

(* A line is read: the n lines so far are followed by one more.            *)
Grows(line, n) ==
  Shape /\ line \in Lines /\ n = Len(file) /\ file' = Append(file, line)

(* The line of the section being read.                                     *)
Last == Max(Headers)

(* The place that the reference gives to the backend of line h.            *)
Rank(h) == Cardinality(BackendHeaders \cap Above(h))

(* The lines that assign to a key, in whatever section.                    *)
Assigned(key) == {i \in DOMAIN file : file[i].kind = "pair" /\ file[i].key = key}

(* What the section of line h has given a member of its backend so far.    *)
Latest(h, key) ==
  IF Given(h, key) = {} THEN NoBackend[key] ELSE file[Max(Given(h, key))].value

(* Reading a line leaves the earlier ones alone.                           *)
LEMMA FileGrows ==
  ASSUME NEW line, NEW n, Grows(line, n)
  PROVE  /\ n = Len(file) /\ n \in Nat /\ DOMAIN file = 1..n
         /\ Len(file') = n + 1 /\ DOMAIN file' = 1..(n + 1)
         /\ \A i \in 1..n : file'[i] = file[i]
         /\ file'[n + 1] = line
         /\ n + 1 \notin 1..n
         /\ \A i \in 1..(n + 1) : i \in 1..n \/ i = n + 1
<1>1. n = Len(file) /\ file \in Seq(Lines) /\ line \in Lines /\ file' = Append(file, line)
  BY DEF Grows, Shape
<1>2. /\ Len(file) \in Nat /\ DOMAIN file = 1..Len(file)
      /\ Append(file, line) \in Seq(Lines)
      /\ Len(Append(file, line)) = Len(file) + 1
      /\ \A i \in 1..Len(file) : Append(file, line)[i] = file[i]
      /\ Append(file, line)[Len(file) + 1] = line
  BY <1>1, AppendProperties, LenProperties
<1>3. DOMAIN Append(file, line) = 1..(Len(file) + 1)
  BY <1>2, LenProperties
<1>4. /\ Len(file) + 1 \notin 1..Len(file)
      /\ \A i \in 1..(Len(file) + 1) : i \in 1..Len(file) \/ i = Len(file) + 1
  BY <1>2
<1> QED
  BY <1>1, <1>2, <1>3, <1>4

(* The sets of the reference hold line numbers, and the section being read *)
(* is the one that begins last.                                            *)
LEMMA HeadersTyped ==
  ASSUME Shape
  PROVE  /\ Len(file) \in Nat /\ DOMAIN file = 1..Len(file)
         /\ Headers \subseteq 1..Len(file) /\ BackendHeaders \subseteq Headers
         /\ \A i : Above(i) \subseteq Headers
         /\ \A h, key : Given(h, key) \subseteq 1..Len(file)
         /\ \A key : Assigned(key) \subseteq 1..Len(file)
         /\ Headers # {} => Last \in Headers /\ \A h \in Headers : h <= Last
<1>1. Len(file) \in Nat /\ DOMAIN file = 1..Len(file)
  BY LenProperties DEF Shape
<1>2. Headers \subseteq 1..Len(file) /\ BackendHeaders \subseteq Headers
  BY <1>1 DEF Headers, BackendHeaders
<1>3. \A i : Above(i) \subseteq Headers
  BY DEF Above
<1>4. /\ \A h, key : Given(h, key) \subseteq 1..Len(file)
      /\ \A key : Assigned(key) \subseteq 1..Len(file)
  BY <1>1 DEF Given, Assigned
<1>5. Headers # {} => Last \in Headers /\ \A h \in Headers : h <= Last
  BY <1>1, <1>2, MaxFacts DEF Last
<1> QED
  BY <1>1, <1>2, <1>3, <1>4, <1>5

(* A section line begins a section; which sections an earlier line is      *)
(* below does not change.                                                  *)
LEMMA HeadersGrow ==
  ASSUME NEW line, NEW n, Grows(line, n)
  PROVE  /\ line.kind = "section" => Headers' = Headers \cup {n + 1}
         /\ line.kind # "section" => Headers' = Headers
         /\ \A i \in 1..n : Above(i)' = Above(i)
         /\ Above(n + 1)' = Headers'
         /\ Headers' \subseteq 1..(n + 1)
<1>1. Shape /\ n = Len(file) /\ n \in Nat /\ Headers \subseteq 1..n
  BY HeadersTyped DEF Grows
<1>2. Headers' = {i \in 1..(n + 1) : file'[i].kind = "section"}
  BY FileGrows DEF Headers
<1>3. Headers = {i \in 1..n : file[i].kind = "section"}
  BY FileGrows DEF Headers
<1>4. \A i \in 1..n : i \in Headers' <=> i \in Headers
  BY <1>1, <1>2, <1>3, FileGrows
<1>5. n + 1 \in Headers' <=> line.kind = "section"
  BY <1>1, <1>2, FileGrows
<1>6. /\ line.kind = "section" => Headers' = Headers \cup {n + 1}
      /\ line.kind # "section" => Headers' = Headers
      /\ Headers' \subseteq 1..(n + 1)
  <2>1. Headers' \subseteq 1..(n + 1)
    BY <1>2
  <2>2. \A i \in 1..(n + 1) : i \in 1..n \/ i = n + 1
    BY FileGrows
  <2>3. \A i \in Headers' : i \in Headers \/ (i = n + 1 /\ line.kind = "section")
    BY <1>4, <1>5, <2>1, <2>2
  <2>4. \A i \in Headers : i \in Headers'
    BY <1>1, <1>4
  <2> QED
    BY <1>5, <2>1, <2>3, <2>4
<1>7. ASSUME NEW i \in 1..n
      PROVE  Above(i)' = Above(i)
  <2>1. Above(i)' = {j \in Headers' : j <= i} /\ Above(i) = {j \in Headers : j <= i}
    BY DEF Above
  <2>2. \A j \in 1..(n + 1) : j <= i => j \in 1..n
    BY <1>1
  <2> QED
    BY <1>1, <1>4, <1>6, <2>1, <2>2
<1>8. Above(n + 1)' = Headers'
  <2>1. Above(n + 1)' = {j \in Headers' : j <= n + 1}
    BY DEF Above
  <2>2. \A j \in 1..(n + 1) : j <= n + 1
    BY <1>1
  <2> QED
    BY <1>6, <2>1, <2>2
<1> QED
  BY <1>6, <1>7, <1>8

(* A section line becomes the section being read.                          *)
LEMMA LastGrows ==
  ASSUME NEW line, NEW n, Grows(line, n)
  PROVE  /\ line.kind = "section" => Last' = n + 1
         /\ line.kind # "section" => Last' = Last
         /\ Headers' # {} => Last' \in Headers' /\ \A h \in Headers' : h <= Last'
<1>1. n \in Nat /\ Headers \subseteq 1..n /\ n + 1 \in Nat /\ Headers' \subseteq 1..(n + 1)
  BY HeadersTyped, HeadersGrow, FileGrows DEF Grows
<1>2. Max(Headers \cup {n + 1}) = n + 1
  BY <1>1, MaxOfNew
<1>3. Headers' # {} => Max(Headers') \in Headers' /\ \A h \in Headers' : h <= Max(Headers')
  BY <1>1, MaxFacts
<1> QED
  BY <1>2, <1>3, HeadersGrow DEF Last

(* Only a line [backend ...] adds a backend.                               *)
LEMMA BackendHeadersGrow ==
  ASSUME NEW line, NEW n, Grows(line, n)
  PROVE  /\ line.kind = "section" /\ line.key = "backend"
              => BackendHeaders' = BackendHeaders \cup {n + 1}
         /\ ~(line.kind = "section" /\ line.key = "backend") => BackendHeaders' = BackendHeaders
<1>1. BackendHeaders' = {i \in Headers' : file'[i].key = "backend"}
  BY DEF BackendHeaders
<1>2. BackendHeaders = {i \in Headers : file[i].key = "backend"} /\ Headers \subseteq 1..n
  BY HeadersTyped DEF BackendHeaders, Grows
<1>3. /\ \A i \in 1..n : file'[i] = file[i]
      /\ file'[n + 1] = line /\ n + 1 \notin 1..n
  BY FileGrows
<1>4. CASE line.kind # "section"
  BY <1>1, <1>2, <1>3, <1>4, HeadersGrow
<1>5. CASE line.kind = "section"
  <2>1. Headers' = Headers \cup {n + 1}
    BY <1>5, HeadersGrow
  <2>2. \A i \in Headers : i \in BackendHeaders' <=> i \in BackendHeaders
    BY <1>1, <1>2, <1>3, <2>1
  <2>3. n + 1 \in BackendHeaders' <=> line.key = "backend"
    BY <1>1, <1>3, <2>1
  <2>4. BackendHeaders' \subseteq Headers \cup {n + 1} /\ BackendHeaders \subseteq Headers
    BY <1>1, <1>2, <2>1
  <2> QED
    BY <1>5, <2>2, <2>3, <2>4
<1> QED
  BY <1>4, <1>5

(* Only a pair with this key assigns to it.                                *)
LEMMA AssignedGrows ==
  ASSUME NEW line, NEW n, Grows(line, n), NEW key
  PROVE  /\ line.kind = "pair" /\ line.key = key => Assigned(key)' = Assigned(key) \cup {n + 1}
         /\ ~(line.kind = "pair" /\ line.key = key) => Assigned(key)' = Assigned(key)
<1>1. /\ Assigned(key)' = {i \in 1..(n + 1) : file'[i].kind = "pair" /\ file'[i].key = key}
      /\ Assigned(key) = {i \in 1..n : file[i].kind = "pair" /\ file[i].key = key}
  BY FileGrows DEF Assigned
<1>2. /\ \A i \in 1..n : file'[i] = file[i] /\ i \in 1..(n + 1)
      /\ file'[n + 1] = line /\ n + 1 \notin 1..n /\ n + 1 \in 1..(n + 1)
      /\ \A i \in 1..(n + 1) : i \in 1..n \/ i = n + 1
  BY FileGrows
<1>3. \A i \in 1..n : i \in Assigned(key)' <=> i \in Assigned(key)
  BY <1>1, <1>2
<1>4. n + 1 \in Assigned(key)' <=> line.kind = "pair" /\ line.key = key
  BY <1>1, <1>2
<1>5. Assigned(key)' \subseteq 1..(n + 1) /\ Assigned(key) \subseteq 1..n
  BY <1>1
<1> QED
  BY <1>2, <1>3, <1>4, <1>5

(* Only a pair with this key gives something to a backend, and only to the *)
(* one being read.                                                         *)
LEMMA GivenGrows ==
  ASSUME NEW line, NEW n, Grows(line, n), NEW h, NEW key
  PROVE  /\ line.kind = "pair" /\ line.key = key /\ h = Last'
               => Given(h, key)' = Given(h, key) \cup {n + 1}
         /\ ~(line.kind = "pair" /\ line.key = key /\ h = Last') => Given(h, key)' = Given(h, key)
<1>1. /\ Given(h, key)' = {i \in 1..(n + 1) : file'[i].kind = "pair" /\ file'[i].key = key
                                                /\ h = Max(Above(i)')}
      /\ Given(h, key) = {i \in 1..n : file[i].kind = "pair" /\ file[i].key = key
                                          /\ h = Max(Above(i))}
  BY FileGrows DEF Given
<1>2. /\ \A i \in 1..n : file'[i] = file[i] /\ i \in 1..(n + 1)
      /\ file'[n + 1] = line /\ n + 1 \notin 1..n /\ n + 1 \in 1..(n + 1)
      /\ \A i \in 1..(n + 1) : i \in 1..n \/ i = n + 1
  BY FileGrows
<1>3. (\A i \in 1..n : Above(i)' = Above(i)) /\ Max(Above(n + 1)') = Last'
  BY HeadersGrow DEF Last
<1>4. \A i \in 1..n : i \in Given(h, key)' <=> i \in Given(h, key)
  BY <1>1, <1>2, <1>3
<1>5. n + 1 \in Given(h, key)' <=> line.kind = "pair" /\ line.key = key /\ h = Last'
  BY <1>1, <1>2, <1>3
<1>6. Given(h, key)' \subseteq 1..(n + 1) /\ Given(h, key) \subseteq 1..n
  BY <1>1
<1> QED
  BY <1>2, <1>4, <1>5, <1>6

(* What was right or wrong about an earlier line stays so.                 *)
LEMMA OldLines ==
  ASSUME NEW line, NEW n, Grows(line, n), NEW i \in 1..n
  PROVE  /\ SectionOf(i)' = SectionOf(i)
         /\ LineOK(i)' <=> LineOK(i)
<1>1. Above(i)' = Above(i) /\ file'[i] = file[i]
  BY HeadersGrow, FileGrows
<1>2. Above(i) # {} => Max(Above(i)) \in 1..n
  <2>1. Above(i) \subseteq 1..n /\ n \in Nat
    BY HeadersTyped, FileGrows DEF Grows
  <2> QED
    BY <2>1, MaxFacts
<1>3. Above(i) # {} => file'[Max(Above(i))] = file[Max(Above(i))]
  BY <1>2, FileGrows
<1>4. SectionOf(i)' = SectionOf(i)
  BY <1>1, <1>3 DEF SectionOf
<1>5. LineOK(i)' <=> LineOK(i)
  BY <1>1, <1>4 DEF LineOK
<1> QED
  BY <1>4, <1>5

(* When the line just read is right, by its kind and the section it stands *)
(* in.                                                                     *)
LEMMA NewLine ==
  ASSUME NEW line, NEW n, Grows(line, n)
  PROVE  /\ Headers = {} /\ line.kind # "section" => SectionOf(n + 1)' = "none"
         /\ Headers # {} /\ line.kind # "section" => SectionOf(n + 1)' = file[Last].key
         /\ line.kind = "section" => SectionOf(n + 1)' = line.key
         /\ line.kind = "blank" => LineOK(n + 1)'
         /\ line.kind = "malformed" => ~LineOK(n + 1)'
         /\ line.kind = "section" =>
              (LineOK(n + 1)' <=> line.key \in {"server", "health_check", "backend"})
         /\ line.kind = "pair" => (LineOK(n + 1)' <=> Allowed(SectionOf(n + 1)', line))
<1>1. Above(n + 1)' = Headers' /\ file'[n + 1] = line /\ n + 1 \in 1..(n + 1)
  BY HeadersGrow, FileGrows
<1>2. SectionOf(n + 1)' = IF Headers' = {} THEN "none" ELSE file'[Last'].key
  BY <1>1 DEF SectionOf, Last
<1>3. CASE line.kind # "section"
  <2>1. Headers' = Headers /\ Last' = Last
    BY <1>3, HeadersGrow, LastGrows
  <2>2. Headers # {} => Last \in 1..n
    BY HeadersTyped DEF Grows
  <2>3. Headers # {} => file'[Last] = file[Last]
    BY <2>2, FileGrows
  <2>4. /\ Headers = {} => SectionOf(n + 1)' = "none"
        /\ Headers # {} => SectionOf(n + 1)' = file[Last].key
    BY <1>2, <2>1, <2>3
  <2>5. /\ line.kind = "blank" => LineOK(n + 1)'
        /\ line.kind = "malformed" => ~LineOK(n + 1)'
        /\ line.kind = "pair" => (LineOK(n + 1)' <=> Allowed(SectionOf(n + 1)', line))
    BY <1>1 DEF LineOK
  <2> QED
    BY <1>3, <2>4, <2>5
<1>4. CASE line.kind = "section"
  <2>1. SectionOf(n + 1)' = line.key
    BY <1>1, <1>2, <1>4, HeadersGrow, LastGrows
  <2>2. LineOK(n + 1)' <=> line.key \in {"server", "health_check", "backend"}
    BY <1>1, <1>4, <2>1 DEF LineOK
  <2> QED
    BY <1>4, <2>1, <2>2
<1> QED
  BY <1>3, <1>4

(* A backend that has its host and port keeps them.                        *)
LEMMA StillComplete ==
  ASSUME NEW line, NEW n, Grows(line, n), NEW h, Complete(h)
  PROVE  Complete(h)'
<1>1. /\ Given(h, "host") # {} => Given(h, "host")' # {}
      /\ Given(h, "port") # {} => Given(h, "port")' # {}
  BY GivenGrows
<1> QED
  BY <1>1 DEF Complete

(* A right line, which does not leave an incomplete backend behind, keeps  *)
(* the prefix right.                                                       *)
LEMMA PrefixGrows ==
  ASSUME NEW line, NEW n, Grows(line, n), PrefixOK, LineOK(n + 1)',
         line.kind = "section" /\ Last \in BackendHeaders => Complete(Last)
  PROVE  PrefixOK'
<1>1. DOMAIN file' = 1..(n + 1) /\ DOMAIN file = 1..n
      /\ \A i \in 1..(n + 1) : i \in 1..n \/ i = n + 1
  BY FileGrows
<1>2. \A i \in 1..n : LineOK(i)
  BY <1>1 DEF PrefixOK
<1>3. \A i \in 1..n : LineOK(i)'
  BY <1>2, OldLines
<1>4. \A i \in 1..(n + 1) : LineOK(i)'
  BY <1>1, <1>3
<1>5. ASSUME NEW h \in BackendHeaders'
      PROVE  Complete(h)' \/ h = Last'
  <2>1. h \in BackendHeaders \/ (h = n + 1 /\ line.kind = "section")
    BY <1>5, BackendHeadersGrow
  <2>2. CASE h = n + 1 /\ line.kind = "section"
    BY <2>2, LastGrows
  <2>3. CASE h \in BackendHeaders
    <3>1. Complete(h) \/ h = Last
      BY <2>3 DEF PrefixOK, Last
    <3>2. CASE Complete(h)
      BY <3>2, StillComplete
    <3>3. CASE h = Last /\ line.kind = "section"
      BY <2>3, <3>3, StillComplete
    <3>4. CASE h = Last /\ line.kind # "section"
      BY <3>4, LastGrows
    <3> QED
      BY <3>1, <3>2, <3>3, <3>4
  <2> QED
    BY <2>1, <2>2, <2>3
<1> QED
  BY <1>1, <1>4, <1>5 DEF PrefixOK, Last

(* In a right prefix every pair stands below a section line.               *)
LEMMA PairInSection ==
  ASSUME Shape, PrefixOK, NEW i \in 1..Len(file), file[i].kind = "pair"
  PROVE  Max(Above(i)) \in 1..Len(file)
<1>1. Len(file) \in Nat /\ DOMAIN file = 1..Len(file) /\ Above(i) \subseteq 1..Len(file)
  BY HeadersTyped
<1>2. LineOK(i)
  BY <1>1 DEF PrefixOK
<1>3. Allowed(SectionOf(i), file[i])
  BY <1>2 DEF LineOK
<1>4. SectionOf(i) # "none"
  BY <1>3 DEF Allowed
<1>5. Above(i) # {}
  BY <1>4 DEF SectionOf
<1> QED
  BY <1>1, <1>5, MaxFacts

(* A new section starts with nothing given: no earlier pair belongs to it. *)
LEMMA NothingGiven ==
  ASSUME NEW line, NEW n, Grows(line, n), PrefixOK, line.kind = "section", NEW key
  PROVE  Given(n + 1, key)' = {}
<1>1. Given(n + 1, key)' = Given(n + 1, key)
  BY GivenGrows
<1>2. Shape /\ n = Len(file) /\ n + 1 \notin 1..n /\ DOMAIN file = 1..n
  BY FileGrows DEF Grows
<1>3. \A i \in 1..n : file[i].kind = "pair" => Max(Above(i)) # n + 1
  BY <1>2, PairInSection
<1>4. Given(n + 1, key) = {}
  BY <1>2, <1>3 DEF Given
<1> QED
  BY <1>1, <1>4

(* The last assignment to a key counts.                                    *)
LEMMA SettingGrows ==
  ASSUME NEW line, NEW n, Grows(line, n), NEW key
  PROVE  /\ line.kind = "pair" /\ line.key = key => Setting(key)' = line.value
         /\ ~(line.kind = "pair" /\ line.key = key) => Setting(key)' = Setting(key)
<1>1. /\ Setting(key) = IF Assigned(key) = {} THEN Defaults[key]
                        ELSE file[Max(Assigned(key))].value
      /\ Setting(key)' = IF Assigned(key)' = {} THEN Defaults[key]
                         ELSE file'[Max(Assigned(key)')].value
  BY DEF Setting, Assigned
<1>2. n \in Nat /\ Assigned(key) \subseteq 1..n
  BY HeadersTyped, FileGrows DEF Grows
<1>3. CASE line.kind = "pair" /\ line.key = key
  <2>1. Max(Assigned(key) \cup {n + 1}) = n + 1
    BY <1>2, MaxOfNew
  <2>2. Assigned(key)' = Assigned(key) \cup {n + 1}
    BY <1>3, AssignedGrows
  <2>3. file'[n + 1] = line
    BY FileGrows
  <2>4. Assigned(key)' # {} /\ Max(Assigned(key)') = n + 1
    BY <2>1, <2>2
  <2> QED
    BY <1>1, <1>3, <2>3, <2>4
<1>4. CASE ~(line.kind = "pair" /\ line.key = key)
  <2>1. Assigned(key)' = Assigned(key)
    BY <1>4, AssignedGrows
  <2>2. Assigned(key) # {} => Max(Assigned(key)) \in 1..n
    BY <1>2, MaxFacts
  <2>3. Assigned(key) # {} => file'[Max(Assigned(key))] = file[Max(Assigned(key))]
    BY <2>2, FileGrows
  <2> QED
    BY <1>1, <1>4, <2>1, <2>3
<1> QED
  BY <1>3, <1>4

(* The last assignment to a member of a backend counts, and no other       *)
(* backend changes.                                                        *)
LEMMA LatestGrows ==
  ASSUME NEW line, NEW n, Grows(line, n), NEW h, NEW key
  PROVE  /\ line.kind = "pair" /\ line.key = key /\ h = Last' => Latest(h, key)' = line.value
         /\ ~(line.kind = "pair" /\ line.key = key /\ h = Last') => Latest(h, key)' = Latest(h, key)
<1>1. Latest(h, key)' = IF Given(h, key)' = {} THEN NoBackend[key]
                        ELSE file'[Max(Given(h, key)')].value
  BY DEF Latest
<1>2. n \in Nat /\ Given(h, key) \subseteq 1..n
  BY HeadersTyped, FileGrows DEF Grows
<1>3. CASE line.kind = "pair" /\ line.key = key /\ h = Last'
  <2>1. Max(Given(h, key) \cup {n + 1}) = n + 1
    BY <1>2, MaxOfNew
  <2>2. Given(h, key)' = Given(h, key) \cup {n + 1}
    BY <1>3, GivenGrows
  <2>3. file'[n + 1] = line
    BY FileGrows
  <2>4. Given(h, key)' # {} /\ Max(Given(h, key)') = n + 1
    BY <2>1, <2>2
  <2> QED
    BY <1>1, <1>3, <2>3, <2>4
<1>4. CASE ~(line.kind = "pair" /\ line.key = key /\ h = Last')
  <2>1. Given(h, key)' = Given(h, key)
    BY <1>4, GivenGrows
  <2>2. Given(h, key) # {} => Max(Given(h, key)) \in 1..n
    BY <1>2, MaxFacts
  <2>3. Given(h, key) # {} => file'[Max(Given(h, key))] = file[Max(Given(h, key))]
    BY <2>2, FileGrows
  <2> QED
    BY <1>1, <1>4, <2>1, <2>3 DEF Latest
<1> QED
  BY <1>3, <1>4

(* A complete backend is described by its latest values.                   *)
LEMMA DescribedLatest ==
  ASSUME NEW h, Complete(h)
  PROVE  Described(h) = [name |-> file[h].value, host |-> Latest(h, "host"),
                         port |-> Latest(h, "port"), weight |-> Latest(h, "weight")]
<1>1. Given(h, "host") # {} /\ Given(h, "port") # {}
  BY DEF Complete
<1>2. /\ Latest(h, "host") = file[Max(Given(h, "host"))].value
      /\ Latest(h, "port") = file[Max(Given(h, "port"))].value
  BY <1>1 DEF Latest
<1>3. Latest(h, "weight") = IF Given(h, "weight") = {} THEN 1
                            ELSE file[Max(Given(h, "weight"))].value
  BY DEF Latest, NoBackend
<1> QED
  BY <1>2, <1>3 DEF Described

(* The same after the step.                                                *)
LEMMA DescribedLatestNext ==
  ASSUME NEW h, Complete(h)'
  PROVE  Described(h)' = [name |-> file'[h].value, host |-> Latest(h, "host")',
                          port |-> Latest(h, "port")', weight |-> Latest(h, "weight")']
<1>1. Given(h, "host")' # {} /\ Given(h, "port")' # {}
  BY DEF Complete
<1>2. /\ Latest(h, "host")' = file'[Max(Given(h, "host")')].value
      /\ Latest(h, "port")' = file'[Max(Given(h, "port")')].value
  BY <1>1 DEF Latest
<1>3. Latest(h, "weight")' = IF Given(h, "weight")' = {} THEN 1
                             ELSE file'[Max(Given(h, "weight")')].value
  BY DEF Latest, NoBackend
<1> QED
  BY <1>2, <1>3 DEF Described

(* The description of a backend that is not being read does not change.    *)
LEMMA StillDescribed ==
  ASSUME NEW line, NEW n, Grows(line, n), NEW h \in 1..n, Complete(h),
         line.kind # "pair" \/ line.key \notin {"host", "port", "weight"} \/ h # Last'
  PROVE  Described(h)' = Described(h)
<1>1. Complete(h)' /\ file'[h] = file[h]
  BY StillComplete, FileGrows
<1>2. /\ Latest(h, "host")' = Latest(h, "host")
      /\ Latest(h, "port")' = Latest(h, "port")
      /\ Latest(h, "weight")' = Latest(h, "weight")
  BY LatestGrows
<1> QED
  BY <1>1, <1>2, DescribedLatest, DescribedLatestNext

(* The sets that the reference counts are finite.                          *)
LEMMA FiniteHeaders ==
  ASSUME Shape
  PROVE  /\ IsFiniteSet(Headers) /\ IsFiniteSet(BackendHeaders)
         /\ \A h : IsFiniteSet(BackendHeaders \cap Above(h))
<1>1. Len(file) \in Nat /\ 1 \in Int /\ Len(file) \in Int /\ Headers \subseteq 1..Len(file)
      /\ BackendHeaders \subseteq Headers
  BY HeadersTyped
<1>2. IsFiniteSet(1..Len(file))
  BY <1>1, FS_Interval
<1>3. IsFiniteSet(Headers)
  BY <1>1, <1>2, FS_Subset
<1>4. IsFiniteSet(BackendHeaders)
  BY <1>1, <1>3, FS_Subset
<1>5. \A h : BackendHeaders \cap Above(h) \in SUBSET BackendHeaders
  OBVIOUS
<1> QED
  BY <1>3, <1>4, <1>5, FS_Subset

(* Later lines do not move a backend.                                      *)
LEMMA RankStays ==
  ASSUME NEW line, NEW n, Grows(line, n), NEW h \in 1..n
  PROVE  Rank(h)' = Rank(h)
<1>1. Above(h)' = Above(h) /\ Above(h) \subseteq 1..n /\ n + 1 \notin 1..n
  BY HeadersGrow, HeadersTyped, FileGrows DEF Grows
<1>2. (BackendHeaders \cap Above(h))' = BackendHeaders \cap Above(h)
  BY <1>1, BackendHeadersGrow
<1> QED
  BY <1>2 DEF Rank

(* The backend being read comes last.                                      *)
LEMMA RankOfLast ==
  ASSUME Shape, Headers # {}
  PROVE  Rank(Last) = Cardinality(BackendHeaders)
<1>1. Above(Last) = Headers
  BY HeadersTyped DEF Above
<1>2. BackendHeaders \cap Above(Last) = BackendHeaders
  BY <1>1, HeadersTyped
<1> QED
  BY <1>2 DEF Rank

(* Of two backends the later one has another place.                        *)
LEMMA RankIncreases ==
  ASSUME Shape, NEW g \in BackendHeaders, NEW h \in BackendHeaders, g < h
  PROVE  Rank(g) # Rank(h)
<1> DEFINE S == BackendHeaders \cap Above(g)
           T == BackendHeaders \cap Above(h)
<1>1. \A j \in Headers : j \in Int
  BY HeadersTyped
<1>2. g \in Headers /\ h \in Headers /\ g \in Int /\ h \in Int
  BY <1>1, HeadersTyped
<1>3. S \in SUBSET T
  <2>1. \A j \in Headers : j <= g => j <= h
    BY <1>1, <1>2
  <2> QED
    BY <2>1 DEF Above
<1>4. h \in T /\ h \notin S
  BY <1>1, <1>2 DEF Above
<1>5. IsFiniteSet(T)
  BY FiniteHeaders
<1>6. Rank(g) = Cardinality(S) /\ Rank(h) = Cardinality(T)
  BY DEF Rank
<1> HIDE DEF S, T
<1>7. Cardinality(T) = Cardinality(S) => T = S
  BY <1>3, <1>5, FS_Subset
<1> QED
  BY <1>4, <1>6, <1>7

(* No two backends have the same place.                                    *)
LEMMA RankInjective ==
  ASSUME Shape, NEW g \in BackendHeaders, NEW h \in BackendHeaders, Rank(g) = Rank(h)
  PROVE  g = h
<1>1. g \in Int /\ h \in Int
  BY HeadersTyped
<1>2. ~(g < h) /\ ~(h < g)
  BY RankIncreases
<1> QED
  BY <1>1, <1>2

(* The backends of the file that finishBackend() has committed: all but    *)
(* the one being read.                                                     *)
Committed == IF section = "backend" THEN BackendHeaders \ {Last} ELSE BackendHeaders

(* A list holds the backends of S as described, each at its place, and     *)
(* nothing else.                                                           *)
ListsAll(list, S) ==
  /\ Len(list) = Cardinality(S)
  /\ \A h \in S : Rank(h) \in 1..Len(list) /\ list[Rank(h)] = Described(h)
  /\ \A i \in 1..Len(list) : \E h \in S : Rank(h) = i

(* section is the key of the last section line.                            *)
InSection == section = IF Headers = {} THEN "none" ELSE file[Last].key

(* currentBackend and its two flags are what the section of line h has     *)
(* given so far.                                                           *)
DraftOf(h) ==
  /\ hasHost <=> Given(h, "host") # {}
  /\ hasPort <=> Given(h, "port") # {}
  /\ current["name"] = file[h].value
  /\ current["host"] = Latest(h, "host")
  /\ current["port"] = Latest(h, "port")
  /\ current["weight"] = Latest(h, "weight")

(* Which is the section being read.                                        *)
Draft == section = "backend" => \E h \in BackendHeaders : h = Last /\ DraftOf(h)

(* The scalar members are what the lines so far say.                       *)
Settings == \A key \in Scalars : config[key] = Setting(key)

(* What the loader knows while it reads.                                   *)
ReadInv == PrefixOK /\ InSection /\ Draft /\ Settings /\ ListsAll(backends, Committed)

(* The inductive invariant.                                                *)
MeaningInv == Shape /\ (outcome = "reading" => ReadInv) /\ LoadsWhatIsWritten

(* A BackendConfig is its four members.                                    *)
LEMMA BackendRecord ==
  ASSUME NEW f \in [Fields -> Values]
  PROVE  f = [name |-> f["name"], host |-> f["host"], port |-> f["port"], weight |-> f["weight"]]
BY DEF Fields

(* The section being read is a backend's exactly if its line is.           *)
LEMMA InBackend ==
  ASSUME Shape, InSection
  PROVE  /\ section = "backend" <=> Last \in BackendHeaders
         /\ section = "backend" => Headers # {}
<1>1. Headers = {} => section = "none" /\ BackendHeaders = {}
  BY DEF InSection, BackendHeaders
<1>2. Headers # {} => section = file[Last].key /\ Last \in Headers
  BY HeadersTyped DEF InSection
<1>3. Headers # {} => (Last \in BackendHeaders <=> section = "backend")
  BY <1>2 DEF BackendHeaders
<1> QED
  BY <1>1, <1>3

(* A committed backend is complete and not the one being read.             *)
LEMMA CommittedComplete ==
  ASSUME Shape, PrefixOK, InSection, NEW h \in Committed
  PROVE  h \in BackendHeaders /\ h # Last /\ Complete(h) /\ h \in 1..Len(file)
<1>1. h \in BackendHeaders /\ h # Last
  BY InBackend DEF Committed
<1>2. Complete(h)
  BY <1>1 DEF PrefixOK, Last
<1> QED
  BY <1>1, <1>2, HeadersTyped

(* What finishBackend() leaves is the list of all backends so far: the one *)
(* being read goes to the end, where the reference puts it, and is what    *)
(* its section says.                                                       *)
LEMMA FinishedLists ==
  ASSUME Shape, ReadInv, Finishes
  PROVE  /\ ListsAll(Finished, BackendHeaders)
         /\ \A h \in BackendHeaders : Complete(h)
         /\ Finished \in Seq([Fields -> Values])
<1> USE DEF ReadInv
<1>1. CASE section # "backend"
  <2>1. Finished = backends /\ Committed = BackendHeaders
    BY <1>1 DEF Finished, Committed
  <2> QED
    BY <2>1, CommittedComplete DEF Shape
<1>2. CASE section = "backend"
  <2>1. /\ Finished = Append(backends, current) /\ Committed = BackendHeaders \ {Last}
        /\ Last \in BackendHeaders /\ Headers # {}
    BY <1>2, InBackend DEF Finished, Committed
  <2>2. /\ Finished \in Seq([Fields -> Values])
        /\ Len(Finished) = Len(backends) + 1 /\ Len(backends) \in Nat
        /\ \A i \in 1..Len(backends) : Finished[i] = backends[i]
        /\ Finished[Len(backends) + 1] = current
    BY <2>1, AppendProperties, LenProperties DEF Shape
  <2>3. Len(backends) = Cardinality(BackendHeaders) - 1 /\ Cardinality(BackendHeaders) \in Nat
    BY <2>1, FiniteHeaders, FS_RemoveElement, FS_CardinalityType DEF ListsAll
  <2>4. Rank(Last) = Len(Finished) /\ Len(Finished) = Cardinality(BackendHeaders)
    BY <2>1, <2>2, <2>3, RankOfLast
  <2>5. DraftOf(Last) /\ Complete(Last)
    BY <1>2 DEF Finishes, Draft, DraftOf, Complete
  <2>6. current = Described(Last)
    <3>1. current = [name |-> current["name"], host |-> current["host"],
                     port |-> current["port"], weight |-> current["weight"]]
      BY BackendRecord DEF Shape
    <3>2. /\ current["name"] = file[Last].value /\ current["host"] = Latest(Last, "host")
          /\ current["port"] = Latest(Last, "port") /\ current["weight"] = Latest(Last, "weight")
      BY <2>5 DEF DraftOf
    <3>3. Described(Last) = [name |-> file[Last].value, host |-> Latest(Last, "host"),
                             port |-> Latest(Last, "port"), weight |-> Latest(Last, "weight")]
      BY <2>5, DescribedLatest
    <3> QED
      BY <3>1, <3>2, <3>3
  <2>7. ASSUME NEW h \in BackendHeaders
        PROVE  Complete(h) /\ Rank(h) \in 1..Len(Finished) /\ Finished[Rank(h)] = Described(h)
    <3>1. CASE h = Last
      BY <3>1, <2>2, <2>4, <2>5, <2>6
    <3>2. CASE h # Last
      <4>1. h \in Committed
        BY <2>1, <3>2
      <4>2. Rank(h) \in 1..Len(backends) /\ backends[Rank(h)] = Described(h)
        BY <4>1 DEF ListsAll
      <4>3. Rank(h) \in 1..Len(Finished)
        BY <2>2, <4>2
      <4> QED
        BY <2>2, <4>1, <4>2, <4>3, CommittedComplete
    <3> QED
      BY <3>1, <3>2
  <2>8. ASSUME NEW i \in 1..Len(Finished)
        PROVE  \E h \in BackendHeaders : Rank(h) = i
    <3>1. CASE i = Len(Finished)
      BY <2>1, <2>4, <3>1
    <3>2. CASE i # Len(Finished)
      <4>1. i \in 1..Len(backends)
        BY <2>2, <3>2
      <4> QED
        BY <2>1, <4>1 DEF ListsAll
    <3> QED
      BY <3>1, <3>2
  <2> QED
    BY <2>2, <2>4, <2>7, <2>8 DEF ListsAll
<1> QED
  BY <1>1, <1>2

(* An empty file says nothing and nothing is stored.                       *)
LEMMA MeaningInit == Init => MeaningInv
<1> SUFFICES ASSUME Init PROVE MeaningInv
  OBVIOUS
<1>1. Shape
  BY UsableInit DEF UsableInv
<1>2. DOMAIN file = {} /\ Len(file) = 0
  BY EmptySeq DEF Init
<1>3. Headers = {} /\ BackendHeaders = {}
  BY <1>2 DEF Headers, BackendHeaders
<1>4. PrefixOK
  BY <1>2, <1>3 DEF PrefixOK
<1>5. InSection /\ Draft
  BY <1>3 DEF Init, InSection, Draft
<1>6. \A key : Setting(key) = Defaults[key]
  BY <1>2 DEF Setting
<1>7. Settings
  BY <1>6 DEF Init, Settings
<1>8. ListsAll(backends, Committed)
  <2>1. Committed = {} /\ Len(backends) = 0 /\ Cardinality({}) = 0
    BY <1>3, EmptySeq, FS_EmptySet DEF Init, Committed
  <2> QED
    BY <2>1 DEF ListsAll
<1>9. ReadInv /\ outcome = "reading"
  BY <1>4, <1>5, <1>7, <1>8 DEF ReadInv, Init
<1> QED
  BY <1>1, <1>9 DEF MeaningInv, LoadsWhatIsWritten, ReadInv

(* A line that is no section line stands in the section being read.        *)
LEMMA SectionNow ==
  ASSUME NEW line, NEW n, Grows(line, n), InSection, line.kind # "section"
  PROVE  SectionOf(n + 1)' = section
BY NewLine DEF InSection

(* And leaves it the section being read.                                   *)
LEMMA StillInSection ==
  ASSUME NEW line, NEW n, Grows(line, n), InSection, line.kind # "section", section' = section
  PROVE  InSection'
<1>1. Headers' = Headers /\ Last' = Last
  BY HeadersGrow, LastGrows
<1>2. Headers # {} => Last \in 1..n
  BY HeadersTyped DEF Grows
<1>3. Headers # {} => file'[Last] = file[Last]
  BY <1>2, FileGrows
<1> QED
  BY <1>1, <1>3 DEF InSection

(* And leaves the committed backends as they are described.                *)
LEMMA StillListed ==
  ASSUME NEW line, NEW n, Grows(line, n), ReadInv, line.kind # "section",
         section' = section, backends' = backends
  PROVE  ListsAll(backends, Committed)'
<1> USE DEF ReadInv
<1>1. Headers' = Headers /\ Last' = Last /\ BackendHeaders' = BackendHeaders
  BY HeadersGrow, LastGrows, BackendHeadersGrow
<1>2. Committed' = Committed
  BY <1>1 DEF Committed
<1>3. ASSUME NEW h \in Committed
      PROVE  Rank(h)' = Rank(h) /\ Described(h)' = Described(h)
  <2>1. h # Last /\ Complete(h) /\ h \in 1..n
    BY CommittedComplete DEF Grows
  <2> QED
    BY <1>1, <2>1, RankStays, StillDescribed
<1> QED
  BY <1>2, <1>3 DEF ListsAll

(* A blank line changes no meaning.                                        *)
LEMMA ReadBlank ==
  ASSUME NEW line, NEW n, Grows(line, n), ReadInv, Blank(line)
  PROVE  ReadInv'
<1> USE DEF ReadInv
<1>1. /\ line.kind = "blank" /\ section' = section /\ backends' = backends /\ config' = config
      /\ current' = current /\ hasHost' = hasHost /\ hasPort' = hasPort
  BY DEF Blank, state
<1>2. PrefixOK'
  BY <1>1, NewLine, PrefixGrows
<1>3. InSection' /\ ListsAll(backends, Committed)'
  BY <1>1, StillInSection, StillListed
<1>4. Settings'
  BY <1>1, SettingGrows DEF Settings
<1>5. Draft'
  <2> SUFFICES ASSUME section = "backend" PROVE Draft'
    BY <1>1 DEF Draft
  <2>1. PICK h \in BackendHeaders : h = Last /\ DraftOf(h)
    BY DEF Draft
  <2>2. h \in BackendHeaders' /\ h = Last' /\ h \in 1..n
    BY <1>1, <2>1, LastGrows, BackendHeadersGrow, HeadersTyped DEF Grows
  <2>3. \A key : Given(h, key)' = Given(h, key) /\ Latest(h, key)' = Latest(h, key)
    BY <1>1, GivenGrows, LatestGrows
  <2>4. file'[h] = file[h]
    BY <2>2, FileGrows
  <2>5. DraftOf(h)'
    BY <1>1, <2>1, <2>3, <2>4 DEF DraftOf
  <2> QED
    BY <2>2, <2>5 DEF Draft
<1> QED
  BY <1>2, <1>3, <1>4, <1>5

(* A section line commits the backend before it and starts with an empty   *)
(* draft.                                                                  *)
LEMMA ReadSection ==
  ASSUME NEW line, NEW n, Grows(line, n), ReadInv, line.kind = "section", Finishes,
         line.key \in {"server", "health_check", "backend"},
         backends' = Finished, section' = line.key,
         current' = [NoBackend EXCEPT !.name = line.value], ResetFlags, config' = config
  PROVE  ReadInv'
<1> USE DEF ReadInv
<1>1. Shape /\ n = Len(file) /\ n + 1 \notin 1..n /\ file'[n + 1] = line
  BY FileGrows DEF Grows
<1>2. Last' = n + 1 /\ Headers' = Headers \cup {n + 1} /\ BackendHeaders \subseteq 1..n
  BY <1>1, LastGrows, HeadersGrow, HeadersTyped
<1>3. /\ ListsAll(Finished, BackendHeaders)
      /\ \A h \in BackendHeaders : Complete(h)
  BY <1>1, FinishedLists
<1>4. PrefixOK'
  BY <1>3, NewLine, PrefixGrows
<1>5. InSection'
  BY <1>1, <1>2 DEF InSection
<1>6. Settings'
  BY SettingGrows DEF Settings
<1>7. Committed' = BackendHeaders
  <2>1. CASE line.key = "backend"
    BY <1>1, <1>2, <2>1, BackendHeadersGrow DEF Committed
  <2>2. CASE line.key # "backend"
    BY <2>2, BackendHeadersGrow DEF Committed
  <2> QED
    BY <2>1, <2>2
<1>8. ListsAll(backends, Committed)'
  <2>1. \A h \in BackendHeaders : Rank(h)' = Rank(h) /\ Described(h)' = Described(h)
    BY <1>2, <1>3, RankStays, StillDescribed
  <2> QED
    BY <1>3, <1>7, <2>1 DEF ListsAll
<1>9. Draft'
  <2> SUFFICES ASSUME line.key = "backend" PROVE Draft'
    BY DEF Draft
  <2>1. n + 1 \in BackendHeaders'
    BY BackendHeadersGrow
  <2>2. \A key : Given(n + 1, key)' = {}
    BY NothingGiven
  <2>3. \A key : Latest(n + 1, key)' = NoBackend[key]
    BY <2>2 DEF Latest
  <2>4. /\ current'["name"] = line.value /\ current'["host"] = NoBackend["host"]
        /\ current'["port"] = NoBackend["port"] /\ current'["weight"] = NoBackend["weight"]
    BY DefaultValues DEF Fields
  <2>5. DraftOf(n + 1)'
    BY <1>1, <2>2, <2>3, <2>4 DEF DraftOf, ResetFlags
  <2> QED
    BY <1>2, <2>1, <2>5 DEF Draft
<1> QED
  BY <1>4, <1>5, <1>6, <1>8, <1>9

(* A pair of [server] or [health_check] changes one setting, in the file's *)
(* meaning and in config.                                                  *)
LEMMA ReadScalar ==
  ASSUME NEW line, NEW n, Grows(line, n), ReadInv, AssignScalar(line)
  PROVE  ReadInv'
<1> USE DEF ReadInv
<1>1. /\ line.kind = "pair" /\ section' = section /\ backends' = backends
      /\ section \in {"server", "health_check"}
      /\ config' = [config EXCEPT ![line.key] = line.value]
  BY DEF AssignScalar
<1>2. Allowed(section, line)
  BY DEF AssignScalar, Allowed
<1>3. PrefixOK'
  BY <1>1, <1>2, SectionNow, NewLine, PrefixGrows
<1>4. InSection' /\ ListsAll(backends, Committed)'
  BY <1>1, StillInSection, StillListed
<1>5. Draft'
  BY <1>1 DEF Draft
<1>6. Settings'
  <2>1. config \in [Scalars -> Values]
    BY DEF Grows, Shape
  <2>2. \A key \in Scalars : config'[key] = IF key = line.key THEN line.value ELSE config[key]
    BY <1>1, <2>1
  <2>3. \A key \in Scalars : Setting(key)' = IF key = line.key THEN line.value ELSE Setting(key)
    BY <1>1, SettingGrows
  <2> QED
    BY <2>2, <2>3 DEF Settings
<1> QED
  BY <1>3, <1>4, <1>5, <1>6

(* A pair of a [backend] section changes one member of the draft.          *)
LEMMA ReadBackend ==
  ASSUME NEW line, NEW n, Grows(line, n), ReadInv, AssignBackend(line)
  PROVE  ReadInv'
<1> USE DEF ReadInv
<1>1. /\ line.kind = "pair" /\ section' = section /\ backends' = backends
      /\ section = "backend" /\ config' = config
      /\ current' = [current EXCEPT ![line.key] = line.value]
      /\ hasHost' = (hasHost \/ line.key = "host")
      /\ hasPort' = (hasPort \/ line.key = "port")
  BY DEF AssignBackend
<1>2. line.key \in {"host", "port", "weight"}
  BY BackendLimits DEF AssignBackend, Parses
<1>3. Allowed(section, line)
  BY DEF AssignBackend, Allowed
<1>4. PrefixOK'
  BY <1>1, <1>3, SectionNow, NewLine, PrefixGrows
<1>5. InSection' /\ ListsAll(backends, Committed)'
  BY <1>1, StillInSection, StillListed
<1>6. Settings'
  <2>1. line.key \notin Scalars
    BY <1>2 DEF Scalars, ServerKeys, HealthKeys, TextKeys
  <2> QED
    BY <1>1, <2>1, SettingGrows DEF Settings
<1>7. Draft'
  <2>1. PICK h \in BackendHeaders : h = Last /\ DraftOf(h)
    BY <1>1 DEF Draft
  <2>2. h \in BackendHeaders' /\ h = Last' /\ h \in 1..n
    BY <1>1, <2>1, LastGrows, BackendHeadersGrow, HeadersTyped DEF Grows
  <2>3. \A key : Latest(h, key)' = IF key = line.key THEN line.value ELSE Latest(h, key)
    BY <1>1, <2>2, LatestGrows
  <2>4. \A key : Given(h, key)' # {} <=> Given(h, key) # {} \/ key = line.key
    BY <1>1, <2>2, GivenGrows
  <2>5. \A key \in Fields : current'[key] = IF key = line.key THEN line.value ELSE current[key]
    BY <1>1 DEF Grows, Shape
  <2>6. file'[h] = file[h]
    BY <2>2, FileGrows
  <2>7. current'["name"] = file'[h].value
    BY <1>2, <2>1, <2>5, <2>6 DEF DraftOf, Fields
  <2>8. /\ current'["host"] = Latest(h, "host")' /\ current'["port"] = Latest(h, "port")'
        /\ current'["weight"] = Latest(h, "weight")'
    BY <2>1, <2>3, <2>5 DEF DraftOf, Fields
  <2>9. /\ hasHost' <=> Given(h, "host")' # {}
        /\ hasPort' <=> Given(h, "port")' # {}
    <3>1. /\ hasHost <=> Given(h, "host") # {}
          /\ hasPort <=> Given(h, "port") # {}
      BY <2>1 DEF DraftOf
    <3>2. /\ Given(h, "host")' # {} <=> Given(h, "host") # {} \/ "host" = line.key
          /\ Given(h, "port")' # {} <=> Given(h, "port") # {} \/ "port" = line.key
      BY <2>4
    <3> QED
      BY <1>1, <3>1, <3>2, Zenon
  <2> QED
    BY <2>2, <2>7, <2>8, <2>9 DEF Draft, DraftOf
<1> QED
  BY <1>4, <1>5, <1>6, <1>7

(* A line that the loader rejects makes the file wrong, whatever follows.  *)
LEMMA RejectsAtFirst ==
  ASSUME NEW line, NEW n, Grows(line, n), ReadInv,
         \/ line.kind = "malformed"
         \/ line.kind = "pair" /\ ~Allowed(section, line)
         \/ line.kind = "section" /\ line.key \notin {"server", "health_check", "backend"}
         \/ line.kind = "section" /\ ~Finishes
  PROVE  ~PrefixOK'
<1> USE DEF ReadInv
<1>1. n + 1 \in DOMAIN file'
  BY FileGrows
<1>2. ASSUME ~LineOK(n + 1)' PROVE ~PrefixOK'
  BY <1>1, <1>2 DEF PrefixOK
<1>3. CASE line.kind = "malformed" \/ (line.kind = "pair" /\ ~Allowed(section, line))
  BY <1>2, <1>3, NewLine, SectionNow
<1>4. CASE line.kind = "section" /\ line.key \notin {"server", "health_check", "backend"}
  BY <1>2, <1>4, NewLine
<1>5. CASE line.kind = "section" /\ ~Finishes
  <2>1. section = "backend" /\ ~(hasHost /\ hasPort)
    BY <1>5 DEF Finishes
  <2>2. PICK h \in BackendHeaders : h = Last /\ DraftOf(h)
    BY <2>1 DEF Draft
  <2>3. ~Complete(h)
    BY <2>1, <2>2 DEF DraftOf, Complete
  <2>4. ~Complete(h)'
    BY <1>5, <2>3, GivenGrows DEF Complete
  <2>5. h \in BackendHeaders' /\ h # Last'
    BY <1>5, LastGrows, BackendHeadersGrow, HeadersTyped, FileGrows DEF Grows
  <2> QED
    BY <2>4, <2>5 DEF PrefixOK, Last
<1> QED
  BY <1>3, <1>4, <1>5

(* Reading a line keeps the invariant.                                     *)
LEMMA MeaningRead ==
  ASSUME MeaningInv, NEW line \in Lines, ReadLine(line), Shape'
  PROVE  MeaningInv'
<1>1. outcome = "reading" /\ ReadInv
  BY DEF MeaningInv, ReadLine, Read
<1>2. PICK n : Grows(line, n)
  BY DEF MeaningInv, ReadLine, Read, Grows
<1>3. ASSUME ReadInv', outcome' = "reading"
      PROVE  MeaningInv'
  BY <1>3 DEF MeaningInv, LoadsWhatIsWritten, ReadInv
<1>4. ASSUME ~PrefixOK', Reject
      PROVE  MeaningInv'
  BY <1>4 DEF MeaningInv, LoadsWhatIsWritten, Reject
<1>5. CASE Blank(line)
  BY <1>1, <1>2, <1>3, <1>5, ReadBlank DEF Blank
<1>6. CASE Malformed(line)
  BY <1>1, <1>2, <1>4, <1>6, RejectsAtFirst DEF Malformed
<1>7. CASE OpenSection(line)
  <2>1. CASE Finishes /\ line.key \in {"server", "health_check", "backend"} /\ ~Reject
    BY <1>1, <1>2, <1>3, <1>7, <2>1, ReadSection DEF OpenSection
  <2>2. CASE ~Finishes /\ Reject
    BY <1>1, <1>2, <1>4, <1>7, <2>2, RejectsAtFirst DEF OpenSection
  <2>3. CASE line.key \notin {"server", "health_check", "backend"} /\ Reject
    BY <1>1, <1>2, <1>4, <1>7, <2>3, RejectsAtFirst DEF OpenSection
  <2>4. CASE Finishes /\ line.key \in {"server", "health_check", "backend"} /\ Reject
    BY <1>1, <1>7, <2>4 DEF OpenSection, Reject
  <2> QED
    BY <1>7, <2>1, <2>2, <2>3, <2>4 DEF OpenSection
<1>8. CASE AssignScalar(line)
  BY <1>1, <1>2, <1>3, <1>8, ReadScalar DEF AssignScalar
<1>9. CASE AssignBackend(line)
  BY <1>1, <1>2, <1>3, <1>9, ReadBackend DEF AssignBackend
<1>10. CASE RejectPair(line)
  <2>1. ~Allowed(section, line) /\ line.kind = "pair" /\ Reject
    BY <1>10 DEF RejectPair, Allowed
  <2> QED
    BY <1>1, <1>2, <1>4, <2>1, RejectsAtFirst
<1> QED
  BY <1>5, <1>6, <1>7, <1>8, <1>9, <1>10 DEF ReadLine

(* The reference depends on nothing but the file.                          *)
LEMMA SameFile ==
  ASSUME file' = file
  PROVE  /\ PrefixOK' <=> PrefixOK
         /\ WholeOK' <=> WholeOK
         /\ BackendHeaders' = BackendHeaders
         /\ \A key : Setting(key)' = Setting(key)
         /\ \A h : Described(h)' = Described(h) /\ Above(h)' = Above(h)
<1>1. Headers' = Headers /\ DOMAIN file' = DOMAIN file
  BY DEF Headers
<1>2. BackendHeaders' = BackendHeaders
  BY <1>1 DEF BackendHeaders
<1>3. \A i : Above(i)' = Above(i)
  BY <1>1 DEF Above
<1>4. \A i : SectionOf(i)' = SectionOf(i)
  BY <1>3 DEF SectionOf
<1>5. \A i : LineOK(i)' <=> LineOK(i)
  BY <1>4 DEF LineOK
<1>6. \A h, key : Given(h, key)' = Given(h, key)
  BY <1>1, <1>3 DEF Given
<1>7. \A h : Complete(h)' <=> Complete(h)
  BY <1>6 DEF Complete
<1>8. PrefixOK' <=> PrefixOK
  BY <1>1, <1>2, <1>5, <1>7 DEF PrefixOK
<1>9. \A key : Setting(key)' = Setting(key)
  BY <1>1 DEF Setting
<1>10. \A h : Described(h)' = Described(h)
  BY <1>6 DEF Described
<1>11. WholeOK' <=> WholeOK
  BY <1>2, <1>7, <1>8, <1>9 DEF WholeOK
<1> QED
  BY <1>2, <1>3, <1>8, <1>9, <1>10, <1>11

(* Nothing changes if the state does not.                                  *)
LEMMA SameState ==
  ASSUME UNCHANGED <<file, state>>, ReadInv
  PROVE  ReadInv'
<1> USE DEF ReadInv
<1>1. /\ file' = file /\ section' = section /\ current' = current /\ hasHost' = hasHost
      /\ hasPort' = hasPort /\ config' = config /\ backends' = backends
  BY DEF state
<1>2. PrefixOK' /\ BackendHeaders' = BackendHeaders /\ Headers' = Headers /\ Last' = Last
  BY <1>1, SameFile DEF Headers, Last
<1>3. InSection' /\ Settings'
  BY <1>1, <1>2, SameFile DEF InSection, Settings
<1>4. \A h, key : Given(h, key)' = Given(h, key)
  BY <1>1, SameFile DEF Given
<1>5. \A h, key : Latest(h, key)' = Latest(h, key)
  BY <1>1, <1>4 DEF Latest
<1>6. \A h : DraftOf(h)' <=> DraftOf(h)
  BY <1>1, <1>4, <1>5 DEF DraftOf
<1>7. Draft'
  BY <1>1, <1>2, <1>6 DEF Draft
<1>8. \A h : Rank(h)' = Rank(h) /\ Described(h)' = Described(h)
  BY <1>1, <1>2, SameFile DEF Rank
<1>9. Committed' = Committed
  BY <1>1, <1>2 DEF Committed
<1>10. ListsAll(backends, Committed)'
  BY <1>1, <1>8, <1>9 DEF ListsAll
<1> QED
  BY <1>2, <1>3, <1>7, <1>10

(* The loader's count of names decides whether two sections have the same  *)
(* name.                                                                   *)
LEMMA NamesTell ==
  ASSUME Shape, ReadInv, Finishes
  PROVE  Cardinality(Names(Finished)) = Len(Finished)
           <=> \A g, h \in BackendHeaders : file[g].value = file[h].value => g = h
<1>1. /\ ListsAll(Finished, BackendHeaders)
      /\ Finished \in Seq([Fields -> Values])
  BY FinishedLists
<1>2. \A h \in BackendHeaders :
        Rank(h) \in 1..Len(Finished) /\ Finished[Rank(h)].name = file[h].value
  <2>1. \A h : Described(h).name = file[h].value
    BY DEF Described
  <2> QED
    BY <1>1, <2>1 DEF ListsAll
<1>3. Cardinality(Names(Finished)) = Len(Finished)
        <=> \A i, j \in 1..Len(Finished) : Finished[i].name = Finished[j].name => i = j
  BY <1>1, DistinctNames
<1>4. ASSUME \A i, j \in 1..Len(Finished) : Finished[i].name = Finished[j].name => i = j,
             NEW g \in BackendHeaders, NEW h \in BackendHeaders, file[g].value = file[h].value
      PROVE  g = h
  BY <1>2, <1>4, RankInjective
<1>5. ASSUME \A g, h \in BackendHeaders : file[g].value = file[h].value => g = h,
             NEW i \in 1..Len(Finished), NEW j \in 1..Len(Finished),
             Finished[i].name = Finished[j].name
      PROVE  i = j
  <2>1. PICK g \in BackendHeaders : Rank(g) = i
    BY <1>1 DEF ListsAll
  <2>2. PICK h \in BackendHeaders : Rank(h) = j
    BY <1>1 DEF ListsAll
  <2> QED
    BY <1>2, <1>5, <2>1, <2>2
<1> QED
  BY <1>3, <1>4, <1>5

(* The checks after the last line accept exactly the files that are right  *)
(* as a whole, and what is returned is what they say.                      *)
LEMMA MeaningEnd ==
  ASSUME MeaningInv, EndOfFile, Shape'
  PROVE  MeaningInv'
<1>1. outcome = "reading" /\ ReadInv /\ PrefixOK /\ Shape
  BY DEF MeaningInv, EndOfFile, ReadInv
<1>2. file' = file /\ config' = config
  BY DEF EndOfFile
<1>3. config.timeout_ms = Setting("timeout_ms") /\ config.interval_ms = Setting("interval_ms")
  BY <1>1 DEF ReadInv, Settings, Scalars, HealthKeys
<1>4. CASE ~Finishes
  <2>1. outcome' = "invalid"
    BY <1>4 DEF EndOfFile
  <2>2. PICK h \in BackendHeaders : ~Complete(h)
    BY <1>1, <1>4 DEF Finishes, ReadInv, Draft, DraftOf, Complete
  <2>3. ~WholeOK
    BY <2>2 DEF WholeOK
  <2> QED
    BY <1>1, <1>2, <2>1, <2>3, SameFile DEF MeaningInv, LoadsWhatIsWritten
<1>5. CASE Finishes
  <2>1. /\ ListsAll(Finished, BackendHeaders) /\ \A h \in BackendHeaders : Complete(h)
        /\ Finished \in Seq([Fields -> Values])
    BY <1>1, <1>5, FinishedLists
  <2>2. Finished # << >> <=> BackendHeaders # {}
    <3>1. Len(Finished) = 0 <=> Finished = << >>
      BY <2>1, EmptySeq
    <3>2. Cardinality(BackendHeaders) = 0 <=> BackendHeaders = {}
      BY <1>1, FiniteHeaders, FS_EmptySet
    <3> QED
      BY <2>1, <3>1, <3>2 DEF ListsAll
  <2>3. WholeOK <=> /\ Finished # << >> /\ config.timeout_ms < config.interval_ms
                    /\ Cardinality(Names(Finished)) = Len(Finished)
    BY <1>1, <1>3, <1>5, <2>1, <2>2, NamesTell DEF WholeOK
  <2>4. outcome' = (IF WholeOK THEN "loaded" ELSE "invalid") /\ backends' = Finished
    BY <1>5, <2>3 DEF EndOfFile
  <2>5. CASE ~WholeOK
    BY <1>1, <1>2, <2>4, <2>5, SameFile DEF MeaningInv, LoadsWhatIsWritten
  <2>6. CASE WholeOK
    <3>1. outcome' = "loaded" /\ WholeOK'
      BY <1>2, <2>4, <2>6, SameFile
    <3>2. \A key \in DOMAIN Defaults : config'[key] = Setting(key)'
      BY <1>1, <1>2, DefaultValues, SameFile DEF ReadInv, Settings
    <3>3. Len(backends') = Cardinality(BackendHeaders')
      BY <1>2, <2>1, <2>4, SameFile DEF ListsAll
    <3>4. ASSUME NEW h \in BackendHeaders'
          PROVE  backends'[Cardinality(BackendHeaders' \cap Above(h)')] = Described(h)'
      BY <1>2, <2>1, <2>4, <3>4, SameFile DEF ListsAll, Rank
    <3> QED
      BY <3>1, <3>2, <3>3, <3>4 DEF MeaningInv, LoadsWhatIsWritten
  <2> QED
    BY <2>5, <2>6
<1> QED
  BY <1>4, <1>5

(* The check of the log level changes nothing of it.                       *)
LEMMA MeaningKept ==
  ASSUME MeaningInv, parseLevel \/ UNCHANGED vars, Shape'
  PROVE  MeaningInv'
<1>1. file' = file /\ config' = config /\ backends' = backends
  BY DEF parseLevel, vars, state
<1>2. CASE outcome = "reading"
  <2>1. UNCHANGED <<file, state>> /\ outcome' = "reading" /\ ReadInv
    BY <1>2 DEF parseLevel, vars, MeaningInv
  <2>2. ReadInv'
    BY <2>1, SameState
  <2> QED
    BY <2>1, <2>2 DEF MeaningInv, LoadsWhatIsWritten, ReadInv
<1>3. CASE outcome # "reading"
  <2>1. /\ outcome' # "reading"
        /\ outcome' = outcome \/ (outcome = "loaded" /\ outcome' \in {"ready", "badLevel"})
    BY <1>3 DEF parseLevel, vars
  <2>2. LoadsWhatIsWritten'
    BY <1>1, <2>1, SameFile DEF MeaningInv, LoadsWhatIsWritten
  <2> QED
    BY <2>1, <2>2 DEF MeaningInv
<1> QED
  BY <1>2, <1>3

(* ConfigLoader::load accepts exactly the files that are right as a whole, *)
(* rejects a file at the first line that makes it wrong, and returns what  *)
(* the file says: LoadsWhatIsWritten is an invariant, for every file.      *)
THEOREM Meaning == Spec => []LoadsWhatIsWritten
<1>1. ASSUME UsableInv, MeaningInv, [Next]_vars
      PROVE  MeaningInv'
  <2>1. Shape'
    BY <1>1, UsableRead, UsableEnd DEF Next, Over, UsableInv
  <2> QED
    BY <1>1, <2>1, MeaningRead, MeaningEnd, MeaningKept DEF Next, Over
<1>2. MeaningInv => LoadsWhatIsWritten
  BY DEF MeaningInv
<1> QED
  BY <1>1, <1>2, MeaningInit, Invariance, PTL DEF Spec

=============================================================================
