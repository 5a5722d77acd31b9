------------------------------ MODULE Exchange ------------------------------
(***************************************************************************)
(* What the loop of ServeHTTP in internal/guardian/proxy.go makes of each  *)
(* request ("Request lifecycle" and "Failure semantics" of                 *)
(* docs/ARCHITECTURE.md describe it): workers are asked one after the      *)
(* other, none twice and no more than MaxAttempts; the first that answers  *)
(* becomes the source of the response, and from then on nobody else is     *)
(* asked; a request that no worker answered ends in an error, which tells  *)
(* whether any was asked.                                                  *)
(*                                                                         *)
(* Circuits, routing, contexts and buffers are the business of Proxy and   *)
(* ResponseStream, which both implement this module.                       *)
(***************************************************************************)
EXTENDS Integers, FiniteSets

CONSTANTS Requests, Workers, Nobody, MaxAttempts

VARIABLE exchange   \* of each request

Closed(outcome) == [stage |-> "closed", failed |-> {}, source |-> Nobody, outcome |-> outcome]
Fresh == [stage |-> "open", failed |-> {}, source |-> Nobody, outcome |-> "none"]

(* Some requests may be under way from the beginning.                      *)
Init == exchange \in [Requests -> {Closed("none"), Fresh}]

Is(r, stage) == exchange[r].stage = stage
Close(r, outcome) == exchange' = [exchange EXCEPT ![r] = Closed(outcome)]

Open(r) == Is(r, "closed") /\ exchange' = [exchange EXCEPT ![r] = Fresh]

Refuse(r) == Is(r, "closed") /\ Close(r, "refused")

(* Worker w may be the next to be asked.                                   *)
MayAsk(r, w) ==
  /\ Is(r, "open")
  /\ w \notin exchange[r].failed
  /\ Cardinality(exchange[r].failed) < MaxAttempts

Fail(r, w) ==
  /\ MayAsk(r, w)
  /\ exchange' = [exchange EXCEPT ![r].failed = @ \cup {w}]

Commit(r, w) ==
  /\ MayAsk(r, w)
  /\ exchange' = [exchange EXCEPT ![r] =
                    [stage |-> "committed", failed |-> @.failed, source |-> w, outcome |-> "none"]]

(* The source's response has been passed on, as a whole or up to a break.  *)
End(r) == Is(r, "committed") /\ \E outcome \in {"whole", "cut"} : Close(r, outcome)

GiveUp(r) ==
  /\ Is(r, "open")
  /\ Close(r, IF exchange[r].failed = {} THEN "unavailable" ELSE "failed")

Next ==
  \E r \in Requests :
    \/ Open(r) \/ Refuse(r) \/ End(r) \/ GiveUp(r)
    \/ \E w \in Workers : Fail(r, w) \/ Commit(r, w)

Spec == Init /\ [][Next]_exchange
=============================================================================
