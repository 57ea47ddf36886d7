---------------------------- MODULE MCBackendPool ---------------------------
(* Three backends of weight 1, 2 and 1, two worker threads, three leases.  *)
EXTENDS BackendPool, TLC

Weights == [b \in Backends |-> IF b = 1 THEN 2 ELSE 1]

Symmetric == Permutations(Leases) \cup Permutations(Threads)

=============================================================================
