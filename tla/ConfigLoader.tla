---------------------------- MODULE ConfigLoader ----------------------------
(***************************************************************************)
(* fluxgate::ConfigLoader::load and the check of the log level that main() *)
(* makes next. The file is read a line at a time; a [backend] section is   *)
(* committed when the next section begins or the file ends. Lines are what *)
(* is left after comments, surrounding blanks and the letter case of       *)
(* sections, keys and log levels are taken away. Any line may come next.   *)
(***************************************************************************)
EXTENDS Integers, Sequences, FiniteSets, FiniteSetsExt

CONSTANTS Lines,        \* the lines files are made of
          MaxLines,     \* bound: lines in a file
          Levels,       \* the log levels that Logger::parseLevel knows
          Info,         \* "info"
          AnyHost,      \* "0.0.0.0"
          None

(* An empty key or value makes a line malformed: a pair has a value.       *)
ASSUME LoaderAssumption ==
  /\ MaxLines \in Nat /\ Info \in Levels
  /\ \A line \in Lines : /\ line.kind \in {"blank", "malformed", "section", "pair"}
                         /\ line.kind = "pair" => line.value # None

(* The values parseLong() lets through, and its limits for each key.       *)
parseLong(minimum, maximum) == minimum .. maximum

ServerRange == [listen_port |-> parseLong(1, 65535), workers |-> parseLong(1, 128),
                backlog |-> parseLong(16, 65535), max_events |-> parseLong(16, 65536),
                buffer_size |-> parseLong(4096, 16777216),
                connect_timeout_ms |-> parseLong(50, 60000),
                idle_timeout_seconds |-> parseLong(1, 86400),
                stats_interval_seconds |-> parseLong(0, 3600)]
HealthRange == [interval_ms |-> parseLong(200, 600000), timeout_ms |-> parseLong(50, 60000),
                failure_threshold |-> parseLong(1, 100), success_threshold |-> parseLong(1, 100)]
BackendRange == [port |-> parseLong(1, 65535), weight |-> parseLong(1, 1000)]

(* AppConfig's constructor.                                                *)
Defaults == [listen_host |-> AnyHost, listen_port |-> 8080, workers |-> 4, backlog |-> 1024,
             max_events |-> 2048, buffer_size |-> 65536, connect_timeout_ms |-> 3000,
             idle_timeout_seconds |-> 60, stats_interval_seconds |-> 10, interval_ms |-> 3000,
             timeout_ms |-> 800, failure_threshold |-> 3, success_threshold |-> 2,
             log_level |-> Info]
NoBackend == [name |-> None, host |-> None, port |-> 0, weight |-> 1]

VARIABLES
  file,           \* the lines read so far
  section,        \* "none", "server", "health_check", "backend"
  current,        \* currentBackend
  hasHost, hasPort,
  config,         \* the scalar members of AppConfig
  backends,       \* config.backends
  outcome         \* "reading", "rejected" (by a line), "invalid" (at the end of the
                  \* file), "loaded", "ready", "badLevel"

state == <<section, current, hasHost, hasPort, config, backends>>
vars == <<file, state, outcome>>

Init ==
  /\ file = << >> /\ section = "none"
  /\ current = NoBackend /\ hasHost = FALSE /\ hasPort = FALSE
  /\ config = Defaults /\ backends = << >>
  /\ outcome = "reading"

-----------------------------------------------------------------------------
Read(line) ==
  /\ outcome = "reading" /\ Len(file) < MaxLines
  /\ file' = Append(file, line)

Reject == outcome' = "rejected" /\ UNCHANGED state

Blank(line) == line.kind = "blank" /\ UNCHANGED <<state, outcome>>

(* Neither a section nor key=value, or an empty key or value.              *)
Malformed(line) == line.kind = "malformed" /\ Reject

(* finishBackend(): whether the section that ends may be committed, and    *)
(* the backends after it.                                                  *)
Finishes == section = "backend" => hasHost /\ hasPort
Finished == IF section = "backend" THEN Append(backends, current) ELSE backends

(* Mutant: the host and port flags survive into the next section.          *)
KeepFlags == UNCHANGED <<hasHost, hasPort>>

ResetFlags == hasHost' = FALSE /\ hasPort' = FALSE

(* line.key is the kind of section, line.value the name of a backend.      *)
OpenSection(line) ==
  /\ line.kind = "section"
  /\ \/ /\ Finishes /\ line.key \in {"server", "health_check", "backend"}
        /\ backends' = Finished
        /\ section' = line.key
        /\ current' = [NoBackend EXCEPT !.name = line.value]
        /\ ResetFlags
        /\ UNCHANGED <<config, outcome>>
     \/ ~Finishes /\ Reject
     \/ Finishes /\ line.key \notin {"server", "health_check", "backend"} /\ Reject

(* Mutant: a value outside its range is taken.                             *)
ParsesAny(range, line) == line.key \in DOMAIN range

(* parseLong() of a known integer key; text is not in any range.           *)
Parses(range, line) == line.key \in DOMAIN range /\ line.value \in range[line.key]

TextKeys == {"listen_host", "log_level"}

AssignScalar(line) ==
  /\ line.kind = "pair"
  /\ \/ section = "server" /\ (Parses(ServerRange, line) \/ line.key \in TextKeys)
     \/ section = "health_check" /\ Parses(HealthRange, line)
  /\ config' = [config EXCEPT ![line.key] = line.value]
  /\ UNCHANGED <<section, current, hasHost, hasPort, backends, outcome>>

AssignBackend(line) ==
  /\ line.kind = "pair" /\ section = "backend"
  /\ line.key = "host" \/ Parses(BackendRange, line)
  /\ current' = [current EXCEPT ![line.key] = line.value]
  /\ hasHost' = (hasHost \/ line.key = "host")
  /\ hasPort' = (hasPort \/ line.key = "port")
  /\ UNCHANGED <<section, config, backends, outcome>>

(* Unknown key, value that does not parse, or no section yet.              *)
RejectPair(line) ==
  /\ line.kind = "pair"
  /\ ~ \/ section = "server" /\ (Parses(ServerRange, line) \/ line.key \in TextKeys)
       \/ section = "health_check" /\ Parses(HealthRange, line)
       \/ section = "backend" /\ (line.key = "host" \/ Parses(BackendRange, line))
  /\ Reject

ReadLine(line) ==
  /\ Read(line)
  /\ \/ Blank(line) \/ Malformed(line) \/ OpenSection(line)
     \/ AssignScalar(line) \/ AssignBackend(line) \/ RejectPair(line)

Names(list) == {list[i].name : i \in DOMAIN list}

(* The checks after the last line.                                         *)
EndOfFile ==
  /\ outcome = "reading"
  /\ outcome' = IF /\ Finishes /\ Finished # << >>
                   /\ config.timeout_ms < config.interval_ms
                   /\ Cardinality(Names(Finished)) = Len(Finished)
                THEN "loaded" ELSE "invalid"
  /\ backends' = IF Finishes THEN Finished ELSE backends
  /\ UNCHANGED <<file, section, current, hasHost, hasPort, config>>

(* main() goes on with Logger::parseLevel.                                 *)
parseLevel ==
  /\ outcome = "loaded"
  /\ outcome' = IF config.log_level \in Levels THEN "ready" ELSE "badLevel"
  /\ UNCHANGED <<file, state>>

Over == outcome \notin {"reading", "loaded"} /\ UNCHANGED vars

Next == (\E line \in Lines : ReadLine(line)) \/ EndOfFile \/ parseLevel \/ Over

Spec == Init /\ [][Next]_vars

-----------------------------------------------------------------------------
(* What a file means, said without reading it line by line.                *)

Headers == {i \in DOMAIN file : file[i].kind = "section"}
Above(i) == {j \in Headers : j <= i}
SectionOf(i) == IF Above(i) = {} THEN "none" ELSE file[Max(Above(i))].key

Allowed(sec, line) ==
  CASE sec = "server"       -> line.key \in TextKeys \/ Parses(ServerRange, line)
    [] sec = "health_check" -> Parses(HealthRange, line)
    [] sec = "backend"      -> line.key = "host" \/ Parses(BackendRange, line)
    [] OTHER                -> FALSE

LineOK(i) == CASE file[i].kind = "blank"     -> TRUE
               [] file[i].kind = "malformed" -> FALSE
               [] file[i].kind = "section"   -> SectionOf(i) \in {"server", "health_check", "backend"}
               [] file[i].kind = "pair"      -> Allowed(SectionOf(i), file[i])

BackendHeaders == {i \in Headers : file[i].key = "backend"}
Given(h, key) == {i \in DOMAIN file : file[i].kind = "pair" /\ file[i].key = key
                                        /\ h = Max(Above(i))}
Complete(h) == Given(h, "host") # {} /\ Given(h, "port") # {}

(* Nothing read so far is wrong, whatever follows.                         *)
PrefixOK ==
  /\ \A i \in DOMAIN file : LineOK(i)
  /\ \A h \in BackendHeaders : Complete(h) \/ h = Max(Headers)

Setting(key) ==
  LET given == {i \in DOMAIN file : file[i].kind = "pair" /\ file[i].key = key}
  IN  IF given = {} THEN Defaults[key] ELSE file[Max(given)].value

(* Nothing is wrong with the whole file.                                   *)
WholeOK ==
  /\ PrefixOK /\ BackendHeaders # {}
  /\ \A h \in BackendHeaders : Complete(h)
  /\ \A g, h \in BackendHeaders : file[g].value = file[h].value => g = h
  /\ Setting("timeout_ms") < Setting("interval_ms")

Described(h) ==
  [name   |-> file[h].value,
   host   |-> file[Max(Given(h, "host"))].value,
   port   |-> file[Max(Given(h, "port"))].value,
   weight |-> IF Given(h, "weight") = {} THEN 1 ELSE file[Max(Given(h, "weight"))].value]

(* The loader accepts exactly the files that are right as a whole, rejects *)
(* a file at the first line that makes it wrong, and returns what the file *)
(* says: later values override earlier ones, no backend is lost, repeated, *)
(* reordered, or given a value of its neighbour.                           *)
LoadsWhatIsWritten ==
  /\ outcome = "reading" => PrefixOK
  /\ outcome = "rejected" => ~PrefixOK
  /\ outcome = "invalid" => PrefixOK /\ ~WholeOK
  /\ outcome \in {"loaded", "ready", "badLevel"} =>
       /\ WholeOK
       /\ \A key \in DOMAIN Defaults : config[key] = Setting(key)
       /\ Len(backends) = Cardinality(BackendHeaders)
       /\ \A h \in BackendHeaders :
            backends[Cardinality(BackendHeaders \cap Above(h))] = Described(h)

(* A configuration that main() starts with meets what the other modules    *)
(* assume of their constants, and what selection, probing and the queues   *)
(* divide by, wait for or store into: there are backends, each named once  *)
(* and with a weight, thresholds, buffers, workers and queues are not      *)
(* empty, a batch has room for the eventfd and sockets, and a probe is     *)
(* over before the next one is due.                                        *)
ReadyIsUsable ==
  outcome = "ready" =>
    /\ backends # << >>
    /\ \A i \in DOMAIN backends : backends[i].weight > 0 /\ backends[i].host # None
    /\ \A i, j \in DOMAIN backends : backends[i].name = backends[j].name => i = j
    /\ config.failure_threshold > 0 /\ config.success_threshold > 0
    /\ config.workers > 0 /\ config.backlog > 0 /\ config.buffer_size > 0
    /\ config.max_events > 2
    /\ 0 < config.timeout_ms /\ config.timeout_ms < config.interval_ms
    /\ config.log_level \in Levels

=============================================================================
