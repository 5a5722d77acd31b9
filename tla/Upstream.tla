------------------------------ MODULE Upstream ------------------------------
(***************************************************************************)
(* The inference workers behind the guardian, as far as the guardian can   *)
(* tell them apart.  Two modes are the mock worker of                      *)
(* internal/mockworker/server.go, whose failing flag turns both its health *)
(* endpoint and its chat endpoint to 503:                                  *)
(*                                                                         *)
(*   "serving"  200 on /health, an answer below 500 on /v1/*               *)
(*   "failing"  503 on both                                                *)
(*                                                                         *)
(* The others are what real llama.cpp and vLLM processes do:               *)
(*                                                                         *)
(*   "sick"     200 on /health, 5xx on /v1/*                               *)
(*   "down"     no process or no network: connections fail or break        *)
(*   "hung"     connections are accepted and never answered                *)
(***************************************************************************)
EXTENDS WorkerPool

CONSTANTS
  Modes,   \* the modes a worker may take in this model
  Sound    \* the workers that never leave "serving"

AllModes == {"serving", "failing", "sick", "down", "hung"}

ASSUME UpstreamAssumption ==
  /\ "serving" \in Modes /\ Modes \subseteq AllModes
  /\ Sound \subseteq Workers

VARIABLE mode

UpstreamTypeOK == mode \in [Workers -> Modes] /\ \A w \in Sound : mode[w] = "serving"

UpstreamInit == UpstreamTypeOK

(* POST /admin/failure on a mock; a kill, a restart or a stall of a real   *)
(* worker.                                                                 *)
ChangeMode(w) ==
  /\ w \notin Sound
  /\ \E m \in Modes \ {mode[w]} : mode' = [mode EXCEPT ![w] = m]

(* GET /health answers with a 2xx status.                                  *)
HealthOK(m) == m \in {"serving", "sick"}

(* What client.Do can return for a request to /v1/*: a response below 500, *)
(* one at or above it, a connection error, or the dialer's own timeout,    *)
(* which the net package makes errors.Is-equal to DeadlineExceeded.        *)
ChatOutcomes(m) ==
  CASE m = "serving" -> {"ok"}
    [] m \in {"failing", "sick"} -> {"5xx"}
    [] m = "down" -> {"transport", "dial_timeout"}
    [] OTHER -> {}

(* A response body under way reaches its end / is cut.  The failing flag   *)
(* is read once, when the request comes in.                                *)
StreamCanEnd(m) == m \in {"serving", "failing", "sick"}
StreamCanBreak(m) == m = "down"
=============================================================================
