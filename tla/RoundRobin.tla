----------------------------- MODULE RoundRobin -----------------------------
(***************************************************************************)
(* How evenly Pool.Next shares the requests among the workers.             *)
(*                                                                         *)
(* docs/SPEC.md:86 asks for round-robin routing over the healthy workers.  *)
(* The cursor of the pool is one number for all requests, while each call  *)
(* of Next excludes the workers its own request has tried, and workers     *)
(* join and leave the rotation between calls; what is left of the          *)
(* round-robin order is stated here with a history variable.               *)
(***************************************************************************)
EXTENDS WorkerPool

VARIABLE passed   \* history: see Selected

sharedVars == <<poolVars, passed>>

(* The calls of Next that could have returned u and returned another, in   *)
(* the current run of calls that all could.                                *)
Selected(w, exclude) ==
  passed' = [u \in Workers |-> IF u # w /\ Selectable(u, exclude) THEN passed[u] + 1 ELSE 0]

ShareInit == PoolInit /\ passed = [u \in Workers |-> 0]

SharedNextWorker(w, exclude) == NextWorker(w, exclude) /\ Selected(w, exclude)

(* Reports and the clock select nothing, but a worker that leaves the      *)
(* rotation, be it between two calls only, starts over.                    *)
SharedReport ==
  /\ \/ \E w \in Workers : ReportSuccess(w) \/ ReportFailure(w)
     \/ Elapse
  /\ passed' = [u \in Workers |-> IF Eligible(u)' THEN passed[u] ELSE 0]

ShareNext ==
  \/ \E w \in Workers, exclude \in SUBSET Workers : SharedNextWorker(w, exclude)
  \/ SharedReport

ShareSpec == ShareInit /\ [][ShareNext]_sharedVars

-----------------------------------------------------------------------------
(* Properties.                                                             *)

(* A worker that stays in rotation is returned by one of any NumWorkers    *)
(* consecutive calls that may use it, whatever the other workers' circuits *)
(* and the other requests' exclusions do to the scan meanwhile.            *)
FairShare == \A u \in Workers : passed[u] <= NumWorkers - 1

(* Why: every call that passes u over leaves the cursor nearer to u.       *)
CursorApproaches == \A u \in Workers : passed[u] + Offset(u) <= NumWorkers - 1
=============================================================================
