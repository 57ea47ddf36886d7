---------------------------- MODULE WorkerService ---------------------------
(***************************************************************************)
(* What a fluxgate::Worker promises to the thread that feeds it, without   *)
(* queues, wakeups and descriptors: a client handed over waits, is then    *)
(* served or closed, and after stop() the worker is handed nobody, closes  *)
(* everybody and ends. Worker.tla implements it for one worker in detail;  *)
(* Gateway.tla composes several of them.                                   *)
(***************************************************************************)
EXTENDS Naturals, FiniteSets

CONSTANTS Clients,      \* client connections
          QueueLimit    \* config_.backlog * 4

VARIABLES life,         \* "new", "running", "stopping", "exited"
          queued,       \* clients handed over, neither served nor closed yet
          open          \* clients with a session

vars == <<life, queued, open>>

(* The worker is watched from its construction or from its start.          *)
Init == life \in {"new", "running"} /\ queued = {} /\ open = {}

Start == life = "new" /\ life' = "running" /\ UNCHANGED <<queued, open>>

(* While a full queue_ is being worked off, another may fill up behind it. *)
Enqueue(c) ==
  /\ life = "running" /\ Cardinality(queued) < 2 * QueueLimit
  /\ queued' = queued \cup {c}
  /\ UNCHANGED <<life, open>>

(* A session may still be created for the client in hand when stop() came. *)
Serve(c) ==
  /\ life \in {"running", "stopping"} /\ c \in queued
  /\ queued' = queued \ {c}
  /\ open' = open \cup {c}
  /\ UNCHANGED life

Drop(c) ==
  /\ c \in queued
  /\ queued' = queued \ {c}
  /\ UNCHANGED <<life, open>>

Close(gone) == open' = open \ gone /\ UNCHANGED <<life, queued>>

Stop == life = "running" /\ life' = "stopping" /\ UNCHANGED <<queued, open>>

Exit ==
  /\ life = "stopping" /\ queued = {}
  /\ life' = "exited" /\ open' = {}
  /\ UNCHANGED queued

Next ==
  \/ Start \/ Stop \/ Exit
  \/ \E c \in Clients : Enqueue(c) \/ Serve(c) \/ Drop(c)
  \/ \E gone \in SUBSET open : Close(gone)

Spec == Init /\ [][Next]_vars

=============================================================================
