--------------------------- MODULE CircuitBreaker ---------------------------
(***************************************************************************)
(* What the pool promises about one worker, as the diagram under "Worker   *)
(* state machine" of docs/ARCHITECTURE.md draws it: a circuit is CLOSED,   *)
(* OPEN or PROBING, the three states that Snapshot in pool.go reports.     *)
(* The counters, deadlines and cursor that decide when it moves are the    *)
(* business of WorkerPool, which implements this module.                   *)
(*                                                                         *)
(* The diagram has no edge from OPEN to CLOSED, but the text under it has: *)
(* any successful check or response resets the failures, so the success of *)
(* a request sent before the circuit opened closes it at once.             *)
(***************************************************************************)
CONSTANT Workers

VARIABLE circuit

(* Workers start unavailable, waiting for their first health result.       *)
Init == circuit = [w \in Workers |-> "PROBING"]

(* A success closes the circuit.                                           *)
Close(w) ==
  /\ circuit[w] \in {"PROBING", "OPEN"}
  /\ circuit' = [circuit EXCEPT ![w] = "CLOSED"]

(* A failure that reaches the threshold, or a failed probe, opens it.      *)
Trip(w) ==
  /\ circuit[w] \in {"CLOSED", "PROBING"}
  /\ circuit' = [circuit EXCEPT ![w] = "OPEN"]

(* Cooldowns expire; those of several workers may do so at the same tick.  *)
Expire ==
  \E S \in SUBSET {w \in Workers : circuit[w] = "OPEN"} :
    circuit' = [w \in Workers |-> IF w \in S THEN "PROBING" ELSE circuit[w]]

Next ==
  \/ \E w \in Workers : Close(w)
  \/ \E w \in Workers : Trip(w)
  \/ Expire

Spec == Init /\ [][Next]_circuit
=============================================================================
