-------------------------- MODULE MCHealthChecker --------------------------
(* The health checker over the pool in a guardian without traffic.         *)
EXTENDS HealthChecker
=============================================================================
