------------------------------ MODULE Guardian ------------------------------
(***************************************************************************)
(* The guardian process: cmd/guardian/main.go with everything it starts.   *)
(*                                                                         *)
(* Handler goroutines and the health checker share the pool and nothing    *)
(* else.  main launches the checker and the server, waits for a signal or  *)
(* for the server to fail, and on a signal shuts the server down while     *)
(* requests are still in flight.  The signal cancels the context of the    *)
(* checker, not those of the requests.                                     *)
(*                                                                         *)
(*   serving   ListenAndServe runs                                         *)
(*   draining  server.Shutdown waits for the handlers                      *)
(*   drained, aborted, failed   the process has exited: all handlers had   *)
(*             returned, ShutdownTimeout was over, ListenAndServe failed   *)
(***************************************************************************)
EXTENDS Proxy, HealthChecker

CONSTANT Stops   \* what may end the process in this model

ASSUME GuardianAssumption == Stops \subseteq {"signal", "failure"}

VARIABLES
  life,    \* where main is
  vetted   \* history: the workers that have passed a health probe

guardianVars == <<poolVars, mode, req, checkerVars, life, vetted>>

Running == life \in {"serving", "draining"}

GuardianInit ==
  /\ PoolInit /\ UpstreamInit /\ ProxyInit /\ CheckerInit
  /\ life = "serving"
  /\ vetted = {}

-----------------------------------------------------------------------------
(* The steps of the parts, while the process runs.                         *)

Handlers == Running /\ UNCHANGED <<checkerVars, life, vetted>>

Arrive(r) == Enter(r) /\ Handlers
Handle(r) == HandlerStep(r) /\ Handlers
Await(r) == UpstreamStep(r) /\ Handlers
Expire(r) == DeadlineExpires(r) /\ Handlers
Interrupt(r) == ClientStep(r) /\ Handlers

Check ==
  /\ Running
  /\ CheckerStep
  /\ vetted' = IF phase = "probed" /\ verdict THEN vetted \cup {w \in todo : AtHead(w)} ELSE vetted
  /\ UNCHANGED <<req, life>>

TimePasses == Running /\ Elapse /\ UNCHANGED <<mode, req, checkerVars, life, vetted>>

WorkerChanges ==
  /\ Running
  /\ \E w \in Workers : ChangeMode(w)
  /\ UNCHANGED <<poolVars, req, checkerVars, life, vetted>>

-----------------------------------------------------------------------------
(* The steps of main.                                                      *)

(* SIGINT or SIGTERM: signal.NotifyContext cancels the checker's context.  *)
Signal ==
  /\ "signal" \in Stops
  /\ Running
  /\ Cancel
  /\ UNCHANGED <<req, life, vetted>>

MoveTo(state) ==
  /\ life' = state
  /\ UNCHANGED <<poolVars, mode, req, checkerVars, vetted>>

(* Mutant: main shuts the server down without being told.                  *)
StartDrainUnasked == life = "serving" /\ MoveTo("draining")

(* main takes the ctx.Done() branch and calls server.Shutdown.  Requests   *)
(* on connections the server has accepted may still come in.               *)
StartDrain == life = "serving" /\ stopping /\ MoveTo("draining")

Drained == life = "draining" /\ (\A r \in Requests : req[r].pc = "idle") /\ MoveTo("drained")

(* Mutant: server.Shutdown is given a context that never ends.             *)
ShutdownNeverTimesOut == FALSE

ShutdownTimesOut == life = "draining" /\ MoveTo("aborted")

ServerFails == "failure" \in Stops /\ life = "serving" /\ MoveTo("failed")

MainStep == StartDrain \/ Drained \/ ShutdownTimesOut

-----------------------------------------------------------------------------

GuardianNext ==
  \/ \E r \in Requests :
       Arrive(r) \/ Handle(r) \/ Await(r) \/ Expire(r) \/ Interrupt(r)
  \/ Check
  \/ TimePasses
  \/ WorkerChanges
  \/ Signal
  \/ MainStep
  \/ ServerFails

GuardianSafetySpec == GuardianInit /\ [][GuardianNext]_guardianVars

(* Goroutines that can run do run; what a worker will do it does in the    *)
(* end; a request's deadline, a cooldown and the shutdown timeout fire;    *)
(* probes time out and the ticker goes on ticking.  Nothing is assumed of  *)
(* clients, of workers changing their mode or of signals.                  *)
Fairness ==
  /\ \A r \in Requests :
       /\ WF_guardianVars(Handle(r))
       /\ WF_guardianVars(Await(r))
       /\ WF_guardianVars(Expire(r))
  /\ WF_guardianVars(Check)
  /\ WF_guardianVars(TimePasses)
  /\ WF_guardianVars(MainStep)

GuardianSpec == GuardianSafetySpec /\ Fairness

-----------------------------------------------------------------------------
(* Properties.                                                             *)

(* The state of every part has its type, and the process is draining or    *)
(* has exited after that only if it was signaled.                          *)
GuardianTypeOK ==
  /\ PoolTypeOK /\ UpstreamTypeOK /\ ProxyTypeOK /\ CheckerTypeOK
  /\ life \in {"serving", "draining", "drained", "aborted", "failed"}
  /\ life \in {"draining", "drained", "aborted"} => stopping
  /\ vetted \subseteq Workers

(* docs/ARCHITECTURE.md:24: no traffic races ahead of the first real       *)
(* health result.  Whatever handlers, probes and stale results do to the   *)
(* pool, a request only ever goes to a worker that has passed a probe.     *)
NoTrafficBeforeProbe ==
  \A r \in Requests : req[r].attempted \subseteq vetted

(* Whatever becomes of the other workers, one that answers every request   *)
(* and every probe is never charged with a failure, so its circuit, once   *)
(* closed, stays closed.  (It takes requests that run to their end and a   *)
(* process that is not being stopped.)                                     *)
SoundNeverCharged == \A w \in Sound : failures[w] = 0

(* This step counts a failure of w, or makes its cooldown start again.     *)
Charged(w) == failures'[w] > failures[w] \/ openFor'[w] > openFor[w]

(* Handler r lets go of w after the end of its own context.                *)
DropsAfterItsEnd(r, w) ==
  req[r].worker = w /\ req'[r].worker # w /\ req[r].ctx # "live"

(* A worker that answers everything pays for nobody but the requests it    *)
(* was given: it is charged only by a request that has outlived its        *)
(* deadline or lost its client, or by a probe of a process that is being   *)
(* stopped, and never for another worker, for another request, or for a    *)
(* client that reads slowly.                                               *)
SoundChargedForCause ==
  [][\A w \in Sound : Charged(w) =>
       \/ stopping /\ phase = "probed" /\ AtHead(w)
       \/ \E r \in Requests : DropsAfterItsEnd(r, w)]_guardianVars

(* The retries of one request cover the faulty workers: if options         *)
(* .MaxAttempts exceeds their number, a request whose context lives fails  *)
(* only if no sound worker is eligible at that moment.                     *)
FailoverReachesSound ==
  [][\A r \in Requests :
       /\ MaxAttempts > Cardinality(Workers \ Sound)
       /\ req[r].pc = "choosing" /\ req'[r].pc = "failing" /\ req[r].ctx = "live"
       => \A w \in Sound : ~Eligible(w)]_guardianVars

(* Every admitted request is answered unless the process exits first.      *)
EveryRequestAnswered ==
  \A r \in Requests :
    req[r].pc # "idle" ~> (req[r].pc = "idle" \/ ~Running)

(* docs/RUNBOOK.md:22: a restored worker comes back without a restart,     *)
(* whatever requests in flight still report about it; docs/SPEC.md:88: one *)
(* that has stopped serving both endpoints leaves the rotation.            *)
RestoredWorkerReturns ==
  \A w \in Workers :
    <>[](mode[w] = "serving") => ([]<>Eligible(w) \/ <>(stopping \/ ~Running))

DeadWorkerLeaves ==
  \A w \in Workers :
    <>[](mode[w] \in {"failing", "down", "hung"}) => (<>[]~Eligible(w) \/ <>(stopping \/ ~Running))

(* Once signaled the process exits, whatever the workers and the clients   *)
(* of the requests in flight do.                                           *)
ShutdownCompletes == stopping ~> ~Running
=============================================================================
