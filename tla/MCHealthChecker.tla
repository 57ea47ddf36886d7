--------------------------- MODULE MCHealthChecker --------------------------
(* Two backends, thresholds 3 and 2, and counters that wrap at 5, so that  *)
(* long streaks pass through zero.                                         *)
EXTENDS HealthChecker

=============================================================================
