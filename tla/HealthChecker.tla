---------------------------- MODULE HealthChecker ----------------------------
(***************************************************************************)
(* The active health checker: internal/guardian/health.go.                 *)
(*                                                                         *)
(* One goroutine takes a snapshot of the workers it may probe, then probes *)
(* them one after the other, in the order of the configuration, reporting  *)
(* each result to the pool and to the worker_healthy gauge.  Snapshot,     *)
(* probe, report and gauge are separate steps: proxies report to the same  *)
(* pool in between, and the context of the process may be canceled.        *)
(*                                                                         *)
(*   start     Run has been launched, its first CheckOnce is due           *)
(*   idle      in the select of Run, between two rounds                    *)
(*   next      in CheckOnce, about to probe the first worker of todo       *)
(*   probing   in client.Do                                                *)
(*   probed    the result is known, not reported yet                       *)
(*   observing reported to the pool, not to the gauge yet                  *)
(*   exited    Run has returned                                            *)
(***************************************************************************)
EXTENDS Upstream

VARIABLES
  phase,     \* where the goroutine is
  todo,      \* the workers of the snapshot that CheckOnce has not finished
  verdict,   \* err == nil, for the probe that has just returned
  gauge,     \* llm_guardian_worker_healthy
  stopping   \* ctx.Err() # nil: a termination signal has been received

checkerVars == <<phase, todo, verdict, gauge, stopping>>

Phases == {"start", "idle", "next", "probing", "probed", "observing", "exited"}

CheckerInit ==
  /\ phase = "start"
  /\ todo = {}
  /\ verdict = FALSE
  /\ gauge = [w \in Workers |-> FALSE]
  /\ stopping = FALSE

(* The worker at which CheckOnce is; it visits them in slice order.        *)
AtHead(w) == w \in todo /\ \A v \in todo : w <= v

-----------------------------------------------------------------------------
(* The first round begins at once, the others when the ticker fires.  If   *)
(* the context is done as well, the select of Run may take either branch.  *)
BeginRound ==
  /\ phase \in {"start", "idle"}
  /\ todo' = ProbeCandidates
  /\ phase' = IF ProbeCandidates = {} THEN "idle" ELSE "next"
  /\ UNCHANGED <<poolVars, mode, verdict, gauge, stopping>>

(* client.Do refuses a canceled context without contacting the worker.     *)
BeginProbe ==
  /\ phase = "next"
  /\ phase' = IF stopping THEN "probed" ELSE "probing"
  /\ UNCHANGED <<poolVars, mode, todo, verdict, gauge, stopping>>

(* The worker answers as its mode says, or Health.Timeout cuts the probe,  *)
(* or the cancellation of the process does.                                *)
ProbeReturns ==
  /\ phase = "probing"
  /\ phase' = "probed"
  /\ \E w \in todo : AtHead(w)
       /\ verdict' \in {HealthOK(mode[w])} \cup (IF stopping THEN {FALSE} ELSE {})
  /\ UNCHANGED <<poolVars, mode, todo, gauge, stopping>>

(* Mutants: the result goes to the last worker of the round; a failure is  *)
(* not reported.                                                           *)
ReportProbeLast ==
  /\ phase = "probed"
  /\ phase' = "observing"
  /\ \E w \in todo : (\A v \in todo : v <= w) /\ IF verdict THEN ReportSuccess(w) ELSE ReportFailure(w)
  /\ UNCHANGED <<mode, todo, verdict, gauge, stopping>>

ReportProbeSuccessOnly ==
  /\ phase = "probed"
  /\ phase' = "observing"
  /\ \E w \in todo : AtHead(w) /\ IF verdict THEN ReportSuccess(w) ELSE UNCHANGED poolVars
  /\ UNCHANGED <<mode, todo, verdict, gauge, stopping>>

ReportProbe ==
  /\ phase = "probed"
  /\ phase' = "observing"
  /\ \E w \in todo : AtHead(w) /\ IF verdict THEN ReportSuccess(w) ELSE ReportFailure(w)
  /\ UNCHANGED <<mode, todo, verdict, gauge, stopping>>

(* Mutant: the gauge is raised by a success and never lowered.             *)
ObserveHealthSticky ==
  /\ phase = "observing"
  /\ \E w \in todo :
       /\ AtHead(w)
       /\ gauge' = [gauge EXCEPT ![w] = @ \/ verdict]
       /\ todo' = todo \ {w}
       /\ phase' = IF todo = {w} THEN "idle" ELSE "next"
  /\ verdict' = FALSE
  /\ UNCHANGED <<poolVars, mode, stopping>>

ObserveHealth ==
  /\ phase = "observing"
  /\ \E w \in todo :
       /\ AtHead(w)
       /\ gauge' = [gauge EXCEPT ![w] = verdict]
       /\ todo' = todo \ {w}
       /\ phase' = IF todo = {w} THEN "idle" ELSE "next"
  /\ verdict' = FALSE
  /\ UNCHANGED <<poolVars, mode, stopping>>

(* ctx.Done() is ready in the select of Run. *)
StopChecking ==
  /\ phase = "idle"
  /\ stopping
  /\ phase' = "exited"
  /\ UNCHANGED <<poolVars, mode, todo, verdict, gauge, stopping>>

CheckerStep ==
  \/ BeginRound
  \/ BeginProbe
  \/ ProbeReturns
  \/ ReportProbe
  \/ ObserveHealth
  \/ StopChecking

-----------------------------------------------------------------------------
(* The checker in a guardian without traffic, that a signal may stop.      *)

QuietInit == PoolInit /\ UpstreamInit /\ CheckerInit

(* signal.NotifyContext cancels the context of Run.                        *)
Cancel ==
  /\ ~stopping
  /\ stopping' = TRUE
  /\ UNCHANGED <<poolVars, mode, phase, todo, verdict, gauge>>

CheckerNext ==
  \/ CheckerStep
  \/ Cancel
  \/ Elapse /\ UNCHANGED <<mode, checkerVars>>
  \/ \E w \in Workers : ChangeMode(w) /\ UNCHANGED <<poolVars, checkerVars>>

(* Probes return within Health.Timeout and the ticker never stops, so the  *)
(* goroutine always moves on; time always passes.                          *)
CheckerSpec ==
  /\ QuietInit
  /\ [][CheckerNext]_<<poolVars, mode, checkerVars>>
  /\ WF_<<poolVars, mode, checkerVars>>(CheckerStep)
  /\ WF_<<poolVars, mode, checkerVars>>(Elapse /\ UNCHANGED <<mode, checkerVars>>)

-----------------------------------------------------------------------------
(* Properties.                                                             *)

(* The locals of the checker have the shape its phase implies.             *)
CheckerTypeOK ==
  /\ phase \in Phases
  /\ todo \subseteq Workers
  /\ verdict \in BOOLEAN
  /\ gauge \in [Workers -> BOOLEAN]
  /\ stopping \in BOOLEAN
  /\ todo = {} <=> phase \in {"start", "idle", "exited"}
  /\ verdict => phase \in {"probed", "observing"}

(* health.go:52: CheckOnce probes the workers that their cooldown allows   *)
(* to be probed.  The snapshot of a round is not refreshed, and a round    *)
(* may last as long as several probes time out; as long as nobody else     *)
(* reports to the pool, it still contacts no worker in its cooldown.       *)
ProbesRespectCooldown ==
  [][\A w \in todo :
       phase = "next" /\ phase' = "probing" /\ AtHead(w) => openFor[w] <= 0
    ]_<<poolVars, mode, checkerVars>>

(* Without traffic the gauge lags the pool only by the report under way: a *)
(* worker is exported as healthy exactly when it is eligible and its last  *)
(* probe succeeded, so a CLOSED worker shows 0 only below the threshold.   *)
GaugeTracksPool ==
  \A w \in Workers :
    ~(phase = "observing" /\ w \in todo /\ AtHead(w))
      => /\ gauge[w] <=> Eligible(w) /\ failures[w] = 0
         /\ ~gauge[w] /\ Eligible(w) => failures[w] \in 1 .. FailureThreshold - 1

(* Rounds are serial, cooldowns expire at any point of a round, and hung   *)
(* workers hold a round up; still a worker that keeps answering its probes *)
(* ends up eligible for good, and one that keeps failing them ends up out  *)
(* of rotation for good, unless the process is told to stop.               *)
RotationSettles ==
  \A w \in Workers :
    /\ <>[]HealthOK(mode[w]) => <>[]Eligible(w) \/ <>stopping
    /\ <>[]~HealthOK(mode[w]) => <>[]~Eligible(w) \/ <>stopping
=============================================================================
