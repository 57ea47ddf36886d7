------------------------------ MODULE MCWorker ------------------------------
(* Two descriptors make a session, so with one client more than the        *)
(* descriptor table serves at once, later clients wait for and reuse       *)
(* the numbers of earlier ones, also in the middle of a batch.             *)
EXTENDS Worker

=============================================================================
