---------------------------- MODULE GuardianProofs ----------------------------
(***************************************************************************)
(* Proofs about the whole guardian, for any number of workers, requests    *)
(* and attempts and any workers that misbehave: its types, what the        *)
(* attempt counter counts, that handlers and checker use the pool as       *)
(* WorkerPool allows, so that the circuits keep their promises in the      *)
(* process; that every request is treated as Exchange promises and only    *)
(* ever comes nearer to its answer; that a timeout has a cause; that no    *)
(* request goes to a worker that has not passed a health probe.            *)
(*                                                                         *)
(* The retries of a request whose context lives cover the faulty workers;  *)
(* a sound worker is charged only by its own requests whose context has    *)
(* ended or by the stop of the process, so never if neither happens. When  *)
(* every worker can be dialed, a timeout means the deadline.               *)
(***************************************************************************)
EXTENDS Guardian, WorkerPoolProofs

(* One handler's locals.  ProxyTypeOK and AttemptsAreWorkers speak of the  *)
(* same record; together they are inductive, since the bound on the        *)
(* attempt counter of one step is the bound on the attempts of the other.  *)
Places == {"idle", "choosing", "waiting", "returned", "failing",
           "relaying", "blocked", "interrupted"}

Outcomes == Failures \cup {"none", "ok"}

Handler ==
  [pc : Places,
   worker : Workers \cup {NoWorker},
   attempted : SUBSET Workers,
   attempt : 0 .. MaxAttempts + 1,
   outcome : Outcomes,
   lastFailure : Failures \cup {"none"},
   ctx : {"live", "expired", "canceled"},
   reply : Replies]

HandlerOK(q) ==
  /\ q \in Handler
  /\ q.pc \in {"idle", "choosing", "failing"} => q.worker = NoWorker
  /\ q.pc \notin {"idle", "choosing", "failing"} => q.worker \in q.attempted
  /\ q.outcome # "none" <=> q.pc = "returned"
  /\ q.pc = "idle" => q.attempted = {}
  /\ q.pc \in {"choosing", "failing"} => q.attempt = Cardinality(q.attempted) + 1
  /\ q.pc \notin {"idle", "choosing", "failing"} =>
       q.attempt = Cardinality(q.attempted) /\ q.attempt <= MaxAttempts

RequestsOK == req \in [Requests -> Handler] /\ \A r \in Requests : HandlerOK(req[r])

LEMMA RequestsOKMeans == RequestsOK => ProxyTypeOK /\ AttemptsAreWorkers
<1>1. ASSUME RequestsOK, NEW r \in Requests
      PROVE  HandlerOK(req[r])
  BY <1>1 DEF RequestsOK
<1>2. RequestsOK => ProxyTypeOK
  BY <1>1 DEF HandlerOK, Handler, Places, Outcomes, ProxyTypeOK
<1>3. RequestsOK => AttemptsAreWorkers
  BY <1>1, FS_EmptySet DEF HandlerOK, AttemptsAreWorkers
<1>4. QED
  BY <1>2, <1>3

-----------------------------------------------------------------------------
(* Handlers. *)

(* A step that replaces one handler's locals by sound ones.                *)
LEMMA OneHandler ==
  ASSUME RequestsOK, NEW r \in Requests, NEW q, HandlerOK(q), req' = [req EXCEPT ![r] = q]
  PROVE  RequestsOK'
<1>1. q \in Handler
  BY DEF HandlerOK
<1>2. req' \in [Requests -> Handler]
  BY <1>1 DEF RequestsOK
<1>3. \A s \in Requests : req'[s] = IF s = r THEN q ELSE req[s]
  BY DEF RequestsOK
<1>4. \A s \in Requests : HandlerOK(req'[s])
  BY <1>3 DEF RequestsOK
<1>5. QED
  BY <1>2, <1>4 DEF RequestsOK

LEMMA LocalsOK ==
  ASSUME NEW reply \in Replies
  PROVE  HandlerOK(Locals("idle", 0, reply)) /\ HandlerOK(Locals("choosing", 1, reply))
  BY ProxyAssumption, FS_EmptySet DEF Locals, HandlerOK, Handler, Places, Outcomes

LEMMA AnswerOK ==
  ASSUME RequestsOK, NEW r \in Requests, NEW reply \in Replies, Answer(r, reply)
  PROVE  RequestsOK'
  BY LocalsOK, OneHandler DEF Answer

LEMMA EnterOK ==
  ASSUME RequestsOK, NEW r \in Requests, Enter(r)
  PROVE  RequestsOK'
<1>1. CASE Refuse(r)
  BY <1>1, AnswerOK DEF Refuse, Replies
<1>2. CASE Admit(r)
  <2>1. "none" \in Replies
    BY DEF Replies
  <2>2. QED
    BY <1>2, <2>1, LocalsOK, OneHandler DEF Admit
<1>3. QED
  BY <1>1, <1>2 DEF Enter

-----------------------------------------------------------------------------

(* A step that rewrites some locals of one handler. *)
LEMMA OneHandlerMoves ==
  ASSUME RequestsOK, NEW r \in Requests,
         req' \in [Requests -> Handler], HandlerOK(req'[r]),
         \A s \in Requests \ {r} : req'[s] = req[s]
  PROVE  RequestsOK'
  BY DEF RequestsOK

LEMMA EndContextOK ==
  ASSUME RequestsOK, NEW r \in Requests, NEW cause \in {"expired", "canceled"}, EndContext(r, cause)
  PROVE  RequestsOK'
<1>1. /\ req' \in [Requests -> Handler]
      /\ req'[r].pc = req[r].pc /\ req'[r].worker = req[r].worker
      /\ req'[r].attempted = req[r].attempted /\ req'[r].attempt = req[r].attempt
      /\ req'[r].outcome = req[r].outcome
      /\ \A s \in Requests \ {r} : req'[s] = req[s]
  BY DEF EndContext, RequestsOK, Handler, Places, Outcomes
<1>2. HandlerOK(req'[r])
  BY <1>1 DEF HandlerOK, RequestsOK
<1>3. QED
  BY <1>1, <1>2, OneHandlerMoves

LEMMA ChooseOK ==
  ASSUME RequestsOK, NEW r \in Requests, NEW w \in Workers, Choose(r, w)
  PROVE  RequestsOK'
<1>1. /\ req' \in [Requests -> Handler]
      /\ req'[r].pc = IF req[r].ctx = "live" THEN "waiting" ELSE "returned"
      /\ req'[r].worker = w
      /\ req'[r].attempted = req[r].attempted \cup {w} /\ req'[r].attempt = req[r].attempt
      /\ req'[r].outcome = IF req[r].ctx = "live" THEN "none" ELSE ContextError(r)
      /\ \A s \in Requests \ {r} : req'[s] = req[s]
  BY DEF Choose, RequestsOK, Handler, ContextError, Failures, Places, Outcomes
<1>2. w \notin req[r].attempted /\ req[r].pc = "choosing" /\ req[r].attempt <= MaxAttempts
  BY DEF Choose, NextWorker, FirstInScan, Selectable
<1>3. IsFiniteSet(req[r].attempted)
  <2>1. IsFiniteSet(Workers)
    BY PoolAssumption, FS_Interval DEF Workers
  <2>2. req[r].attempted \subseteq Workers
    BY DEF RequestsOK, Handler
  <2>3. QED
    BY <2>1, <2>2, FS_Subset
<1>4. Cardinality(req'[r].attempted) = Cardinality(req[r].attempted) + 1
  <2> DEFINE tried == req[r].attempted
  <2>1. w \notin tried /\ IsFiniteSet(tried)
    BY <1>2, <1>3
  <2> HIDE DEF tried
  <2>2. Cardinality(tried \cup {w}) = Cardinality(tried) + 1
    BY <2>1, FS_AddElement
  <2>3. QED
    BY <1>1, <2>2 DEF tried
<1>5. req'[r] \in Handler /\ req[r].attempt = Cardinality(req[r].attempted) + 1
  BY <1>1, <1>2 DEF RequestsOK, HandlerOK
<1>6. HandlerOK(req'[r])
  <2>1. CASE req[r].ctx = "live"
    BY <1>1, <1>2, <1>4, <1>5, <2>1 DEF HandlerOK
  <2>2. CASE req[r].ctx # "live"
    <3>1. ContextError(r) # "none"
      BY DEF ContextError
    <3>2. QED
      BY <1>1, <1>2, <1>4, <1>5, <2>2, <3>1 DEF HandlerOK
  <2>3. QED
    BY <2>1, <2>2
<1>7. QED
  BY <1>1, <1>6, OneHandlerMoves

(* The actions that only move a handler from one place to another, where   *)
(* the shape of its locals is the same.                                    *)
LEMMA MoveOK ==
  ASSUME RequestsOK, NEW r \in Requests, NEW pc \in Places,
         req' = [req EXCEPT ![r].pc = pc],
         pc \notin {"idle", "returned"}, req[r].pc \notin {"idle", "returned"},
         pc \in {"choosing", "failing"} <=> req[r].pc \in {"choosing", "failing"}
  PROVE  RequestsOK'
<1>1. /\ req' \in [Requests -> Handler]
      /\ req'[r].pc = pc /\ req'[r].worker = req[r].worker
      /\ req'[r].attempted = req[r].attempted /\ req'[r].attempt = req[r].attempt
      /\ req'[r].outcome = req[r].outcome
      /\ \A s \in Requests \ {r} : req'[s] = req[s]
  BY DEF RequestsOK, Handler
<1>2. HandlerOK(req'[r])
  BY <1>1 DEF HandlerOK, RequestsOK
<1>3. QED
  BY <1>1, <1>2, OneHandlerMoves

LEMMA LeaveLoopOK ==
  ASSUME RequestsOK, NEW r \in Requests, LeaveLoop(r)
  PROVE  RequestsOK'
  BY MoveOK DEF LeaveLoop, Places, Outcomes

LEMMA RelayMovesOK ==
  ASSUME RequestsOK, NEW r \in Requests, RelayBreaks(r) \/ ClientStalls(r) \/ ClientReadsOn(r)
  PROVE  RequestsOK'
  BY MoveOK DEF RelayBreaks, ClientStalls, ClientReadsOn, Places, Outcomes

LEMMA OutcomeTyped ==
  ASSUME req \in [Requests -> Handler], NEW r \in Requests,
         NEW pc \in Places, NEW o \in Outcomes,
         req' = [req EXCEPT ![r].pc = pc, ![r].outcome = o]
  PROVE  req' \in [Requests -> Handler]
<1>0. req[r] \in Handler
  OBVIOUS
<1>1. [req[r] EXCEPT !.pc = pc] \in Handler
  BY <1>0 DEF Handler
<1>2. [[req[r] EXCEPT !.pc = pc] EXCEPT !.outcome = o] \in Handler
  BY <1>1 DEF Handler
<1>3. req' = [req EXCEPT ![r] = [[req[r] EXCEPT !.pc = pc] EXCEPT !.outcome = o]]
  OBVIOUS
<1>4. QED
  BY <1>2, <1>3

LEMMA ReturnOK ==
  ASSUME RequestsOK, NEW r \in Requests, Return(r)
  PROVE  RequestsOK'
<1>1. PICK o \in ChatOutcomes(mode[req[r].worker])
                 \cup (IF req[r].ctx = "live" THEN {} ELSE {ContextError(r)}) :
        req' = [req EXCEPT ![r].pc = "returned", ![r].outcome = o]
  BY DEF Return
<1>2. o \in Failures \cup {"ok"}
  BY DEF ChatOutcomes, ContextError, Failures
<1>a. req' \in [Requests -> Handler]
  BY <1>1, <1>2, OutcomeTyped DEF Places, Outcomes, RequestsOK
<1>b. req[r] \in Handler /\ req \in [Requests -> Handler]
  BY DEF RequestsOK
<1>3. /\ req'[r].pc = "returned" /\ req'[r].worker = req[r].worker
      /\ req'[r].attempted = req[r].attempted /\ req'[r].attempt = req[r].attempt
      /\ req'[r].outcome = o
      /\ \A s \in Requests \ {r} : req'[s] = req[s]
  BY <1>1, <1>b DEF Handler
<1>4. o # "none"
  BY <1>2 DEF Failures
<1>5. req[r].pc = "waiting"
  BY DEF Return
<1>6. HandlerOK(req'[r])
  BY <1>a, <1>3, <1>4, <1>5 DEF HandlerOK, RequestsOK
<1>7. QED
  BY <1>a, <1>3, <1>6, OneHandlerMoves

LEMMA ReportAttemptOK ==
  ASSUME RequestsOK, NEW r \in Requests, ReportAttempt(r)
  PROVE  RequestsOK'
<1>1. /\ req[r].pc = "returned" /\ req[r].outcome # "ok"
      /\ req[r].outcome # "none" /\ req[r].outcome \in Failures \cup {"none", "ok"}
      /\ req[r].attempt = Cardinality(req[r].attempted)
      /\ req[r].attempt \in 0 .. MaxAttempts + 1 /\ req[r].attempt <= MaxAttempts
  BY DEF ReportAttempt, RequestsOK, HandlerOK, Handler
<1>2. req[r].attempt + 1 \in 0 .. MaxAttempts + 1
  BY <1>1, ProxyAssumption
<1>3. /\ req' \in [Requests -> Handler]
      /\ req'[r].pc = "choosing" /\ req'[r].worker = NoWorker
      /\ req'[r].attempted = req[r].attempted /\ req'[r].attempt = req[r].attempt + 1
      /\ req'[r].outcome = "none"
      /\ \A s \in Requests \ {r} : req'[s] = req[s]
  BY <1>1, <1>2 DEF ReportAttempt, RequestsOK, Handler, Places, Outcomes
<1>4. HandlerOK(req'[r])
  BY <1>1, <1>3 DEF HandlerOK, RequestsOK
<1>5. QED
  BY <1>3, <1>4, OneHandlerMoves

LEMMA CommitOK ==
  ASSUME RequestsOK, NEW r \in Requests, Commit(r)
  PROVE  RequestsOK'
<1>1. /\ req' \in [Requests -> Handler]
      /\ req'[r].pc = "relaying" /\ req'[r].worker = req[r].worker
      /\ req'[r].attempted = req[r].attempted /\ req'[r].attempt = req[r].attempt
      /\ req'[r].outcome = "none"
      /\ \A s \in Requests \ {r} : req'[s] = req[s]
  BY DEF Commit, RequestsOK, Handler, Places, Outcomes, Replies
<1>2. req[r].pc = "returned"
  BY DEF Commit
<1>3. HandlerOK(req'[r])
  BY <1>1, <1>2 DEF HandlerOK, RequestsOK
<1>4. QED
  BY <1>1, <1>3, OneHandlerMoves

(* The ways a handler returns. *)
LEMMA ReturnFromServeOK ==
  ASSUME RequestsOK, NEW r \in Requests,
         RelayEnds(r) \/ ReportInterruption(r) \/ WriteFailure(r)
  PROVE  RequestsOK'
<1>1. "UPSTREAM" \in Replies /\ "TRUNCATED" \in Replies /\ FailureCode(r) \in Replies
  BY DEF Replies, Errors, FailureCode
<1>2. QED
  BY <1>1, AnswerOK DEF RelayEnds, ReportInterruption, WriteFailure

LEMMA GuardianStepRequestsOK ==
  ASSUME RequestsOK, [GuardianNext]_guardianVars
  PROVE  RequestsOK'
<1>1. ASSUME NEW r \in Requests, Arrive(r)
      PROVE  RequestsOK'
  BY <1>1, EnterOK DEF Arrive
<1>2. ASSUME NEW r \in Requests, Handle(r)
      PROVE  RequestsOK'
  BY <1>2, ChooseOK, LeaveLoopOK, ReportAttemptOK, CommitOK, ReturnFromServeOK
     DEF Handle, HandlerStep
<1>3. ASSUME NEW r \in Requests, Await(r)
      PROVE  RequestsOK'
  BY <1>3, ReturnOK, ReturnFromServeOK, RelayMovesOK DEF Await, UpstreamStep
<1>4. ASSUME NEW r \in Requests, Expire(r) \/ Interrupt(r)
      PROVE  RequestsOK'
  BY <1>4, EndContextOK, RelayMovesOK
     DEF Expire, Interrupt, ClientStep, DeadlineExpires, ClientLeaves
<1>5. UNCHANGED req => RequestsOK'
  BY DEF RequestsOK
<1>6. CASE Check \/ TimePasses \/ WorkerChanges \/ Signal \/ MainStep \/ ServerFails
  BY <1>5, <1>6
     DEF Check, TimePasses, WorkerChanges, Signal, MainStep, StartDrain, Drained,
         ShutdownTimesOut, ServerFails, MoveTo
<1>7. CASE UNCHANGED guardianVars
  BY <1>5, <1>7 DEF guardianVars
<1>8. QED
  BY <1>1, <1>2, <1>3, <1>4, <1>6, <1>7 DEF GuardianNext

LEMMA InitRequestsOK == GuardianInit => RequestsOK
<1>1. "none" \in Replies
  BY DEF Replies
<1>2. Locals("idle", 0, "none") \in Handler
  BY <1>1, LocalsOK DEF HandlerOK
<1>3. QED
  BY <1>1, <1>2, LocalsOK DEF GuardianInit, ProxyInit, RequestsOK

(* What X-Guardian-Attempts reports is the number of workers the request   *)
(* was sent to, for any number of concurrent requests and any behaviour of *)
(* workers, checker and clients.                                           *)
THEOREM AttemptsCounted == GuardianSafetySpec => []AttemptsAreWorkers
<1>1. RequestsOK => AttemptsAreWorkers
  BY RequestsOKMeans
<1>2. QED
  BY <1>1, InitRequestsOK, GuardianStepRequestsOK, PTL DEF GuardianSafetySpec

-----------------------------------------------------------------------------
(* The checker and main: their locals, and how they use the pool. *)

CheckerOK ==
  /\ UpstreamTypeOK /\ CheckerTypeOK
  /\ life \in {"serving", "draining", "drained", "aborted", "failed"}
  /\ life \in {"draining", "drained", "aborted"} => stopping
  /\ vetted \subseteq Workers

LEMMA InitCheckerOK == GuardianInit => CheckerOK
  BY DEF GuardianInit, UpstreamInit, CheckerInit, CheckerTypeOK, CheckerOK, Phases

LEMMA BeginRoundOK ==
  ASSUME CheckerTypeOK, BeginRound
  PROVE  CheckerTypeOK'
  BY DEF CheckerTypeOK, BeginRound, ProbeCandidates, Phases

LEMMA BeginProbeOK ==
  ASSUME CheckerTypeOK, BeginProbe
  PROVE  CheckerTypeOK'
  BY DEF CheckerTypeOK, BeginProbe, Phases

LEMMA ProbeReturnsOK ==
  ASSUME CheckerTypeOK, ProbeReturns
  PROVE  CheckerTypeOK'
<1>1. verdict' \in BOOLEAN
  <2>1. PICK w \in todo :
          verdict' \in {HealthOK(mode[w])} \cup (IF stopping THEN {FALSE} ELSE {})
    BY DEF ProbeReturns
  <2>2. HealthOK(mode[w]) \in BOOLEAN
    BY DEF HealthOK
  <2>3. verdict' = HealthOK(mode[w]) \/ verdict' = FALSE
    BY <2>1
  <2>4. QED
    BY <2>2, <2>3
<1>2. QED
  BY <1>1 DEF CheckerTypeOK, ProbeReturns, Phases

LEMMA ReportProbeOK ==
  ASSUME CheckerTypeOK, ReportProbe
  PROVE  CheckerTypeOK'
  BY DEF CheckerTypeOK, ReportProbe, Phases

LEMMA ObserveHealthOK ==
  ASSUME CheckerTypeOK, ObserveHealth
  PROVE  CheckerTypeOK'
<1>1. PICK w \in todo :
        /\ gauge' = [gauge EXCEPT ![w] = verdict]
        /\ todo' = todo \ {w}
        /\ phase' = IF todo = {w} THEN "idle" ELSE "next"
  BY DEF ObserveHealth
<1>2. gauge' \in [Workers -> BOOLEAN]
  BY <1>1 DEF CheckerTypeOK
<1>3. todo' = {} <=> phase' \in {"start", "idle", "exited"}
  BY <1>1
<1>4. QED
  BY <1>1, <1>2, <1>3 DEF CheckerTypeOK, ObserveHealth, Phases

LEMMA CheckerStepOK ==
  ASSUME CheckerTypeOK, CheckerStep
  PROVE  CheckerTypeOK'
<1>1. CASE StopChecking
  BY <1>1 DEF StopChecking, CheckerTypeOK, Phases
<1>2. QED
  BY <1>1, BeginRoundOK, BeginProbeOK, ProbeReturnsOK, ReportProbeOK, ObserveHealthOK
     DEF CheckerStep

(* Handlers have no say in what their workers do. *)
LEMMA HandlersKeepModes ==
  ASSUME NEW r \in Requests, Enter(r) \/ HandlerStep(r) \/ UpstreamStep(r) \/ ClientStep(r)
  PROVE  UNCHANGED mode
<1>1. Enter(r) => UNCHANGED mode
  BY DEF Enter, Refuse, Admit
<1>2. HandlerStep(r) => UNCHANGED mode
  BY DEF HandlerStep, Choose, LeaveLoop, ReportAttempt, Commit, ReportInterruption, WriteFailure
<1>3. UpstreamStep(r) => UNCHANGED mode
  BY DEF UpstreamStep, Return, RelayEnds, RelayBreaks
<1>4. ClientStep(r) => UNCHANGED mode
  BY DEF ClientStep, DeadlineExpires, ClientLeaves, EndContext, ClientStalls, ClientReadsOn
<1>5. QED
  BY <1>1, <1>2, <1>3, <1>4

(* Nothing but the checker and a signal touches the checker's locals.      *)
LEMMA GuardianStepCheckerOK ==
  ASSUME CheckerOK, [GuardianNext]_guardianVars
  PROVE  CheckerOK'
<1>1. CASE Check
  <2>1. CheckerTypeOK'
    BY <1>1, CheckerStepOK DEF Check, CheckerOK
  <2>2. UNCHANGED <<mode, stopping, life>>
    BY <1>1 DEF Check, CheckerStep, BeginRound, BeginProbe, ProbeReturns, ReportProbe,
                ObserveHealth, StopChecking
  <2>3. vetted' \subseteq Workers
    BY <1>1 DEF Check, CheckerOK, CheckerTypeOK
  <2>4. QED
    BY <2>1, <2>2, <2>3 DEF CheckerOK, UpstreamTypeOK
<1>2. CASE Signal
  BY <1>2 DEF Signal, Cancel, CheckerOK, CheckerTypeOK, UpstreamTypeOK
<1>3. CASE WorkerChanges
  <2>1. PICK w \in Workers : ChangeMode(w)
    BY <1>3 DEF WorkerChanges
  <2>2. UpstreamTypeOK'
    BY <2>1 DEF ChangeMode, CheckerOK, UpstreamTypeOK
  <2>3. QED
    BY <1>3, <2>2 DEF WorkerChanges, CheckerOK, CheckerTypeOK, checkerVars
<1>4. CASE MainStep \/ ServerFails
  BY <1>4
     DEF MainStep, ServerFails, StartDrain, Drained, ShutdownTimesOut, MoveTo,
         CheckerOK, CheckerTypeOK, UpstreamTypeOK, checkerVars
<1>5. CASE \/ \E r \in Requests :
                Arrive(r) \/ Handle(r) \/ Await(r) \/ Expire(r) \/ Interrupt(r)
           \/ TimePasses
           \/ UNCHANGED guardianVars
  <2>1. UNCHANGED <<checkerVars, life, vetted>>
    BY <1>5
       DEF Arrive, Handle, Await, Expire, Interrupt, Handlers, TimePasses, guardianVars
  <2>2. UNCHANGED mode
    BY <1>5, HandlersKeepModes
       DEF Arrive, Handle, Await, Expire, Interrupt, ClientStep, TimePasses, guardianVars
  <2>3. QED
    BY <2>1, <2>2 DEF CheckerOK, CheckerTypeOK, UpstreamTypeOK, checkerVars
<1>6. QED
  BY <1>1, <1>2, <1>3, <1>4, <1>5 DEF GuardianNext

(* Handlers, checker and clock use the pool only as WorkerPool lets its    *)
(* callers: one method at a time, on a configured worker.                  *)
LEMMA GuardianStepPool ==
  ASSUME RequestsOK, CheckerOK, [GuardianNext]_guardianVars
  PROVE  [PoolNext]_poolVars
<1>1. ASSUME NEW r \in Requests, req[r].pc \in {"returned", "interrupted"}
      PROVE  req[r].worker \in Workers
  BY <1>1 DEF RequestsOK, HandlerOK, Handler
<1>2. ASSUME NEW r \in Requests, Handle(r)
      PROVE  [PoolNext]_poolVars
  <2>1. ASSUME NEW w \in Workers, Choose(r, w)
        PROVE  PoolNext
    <3>1. req[r].attempted \in SUBSET Workers
      BY DEF RequestsOK, Handler
    <3>2. QED
      BY <2>1, <3>1 DEF Choose, PoolNext
  <2>2. CASE ReportAttempt(r) \/ Commit(r) \/ ReportInterruption(r)
    BY <1>1, <2>2 DEF ReportAttempt, Commit, ReportInterruption, PoolNext
  <2>3. CASE LeaveLoop(r) \/ WriteFailure(r)
    BY <2>3 DEF LeaveLoop, WriteFailure
  <2>4. QED
    BY <1>2, <2>1, <2>2, <2>3 DEF Handle, HandlerStep
<1>3. CASE Check
  <2>1. CASE ReportProbe
    <3>1. PICK w \in todo : IF verdict THEN ReportSuccess(w) ELSE ReportFailure(w)
      BY <2>1 DEF ReportProbe
    <3>2. w \in Workers
      BY DEF CheckerOK, CheckerTypeOK
    <3>3. QED
      BY <3>1, <3>2 DEF PoolNext
  <2>2. CASE BeginRound \/ BeginProbe \/ ProbeReturns \/ ObserveHealth \/ StopChecking
    BY <2>2 DEF BeginRound, BeginProbe, ProbeReturns, ObserveHealth, StopChecking
  <2>3. QED
    BY <1>3, <2>1, <2>2 DEF Check, CheckerStep
<1>4. CASE TimePasses
  BY <1>4 DEF TimePasses, PoolNext
<1>5. CASE WorkerChanges \/ Signal \/ MainStep \/ ServerFails \/ UNCHANGED guardianVars
  BY <1>5
     DEF WorkerChanges, Signal, Cancel, MainStep, StartDrain, Drained, ShutdownTimesOut,
         ServerFails, MoveTo, guardianVars
<1>6. ASSUME NEW r \in Requests, Arrive(r) \/ Await(r) \/ Expire(r) \/ Interrupt(r)
      PROVE  UNCHANGED poolVars
  BY <1>6
     DEF Arrive, Await, Expire, Interrupt, Enter, Refuse, Admit, UpstreamStep, Return,
         RelayEnds, RelayBreaks, ClientStep, DeadlineExpires, ClientLeaves, EndContext,
         ClientStalls, ClientReadsOn
<1>7. QED
  BY <1>2, <1>3, <1>4, <1>5, <1>6 DEF GuardianNext

(* The guardian, whatever its workers, clients and signals do, is a user   *)
(* of the pool as WorkerPool describes it: what holds of the pool under    *)
(* any calls in any order holds in the running process.                    *)
THEOREM GuardianUsesPool == GuardianSafetySpec => PoolSpec
<1>1. GuardianInit => PoolInit
  BY DEF GuardianInit
<1>2. QED
  BY <1>1, InitRequestsOK, InitCheckerOK, GuardianStepRequestsOK, GuardianStepCheckerOK,
     GuardianStepPool, PTL DEF GuardianSafetySpec, PoolSpec

(* So in the running process, under whatever traffic, probes and signals,  *)
(* no circuit closes but by a reported success and none opens but by       *)
(* failures; and deadline, count and health flag of a worker agree, so     *)
(* that the admin snapshot and /readyz show where requests may go.         *)
THEOREM ProcessBreaks == GuardianSafetySpec => ImplementsBreaker
  BY GuardianUsesPool, PoolImplementsBreaker, PTL

THEOREM ProcessConsistent == GuardianSafetySpec => [](CircuitConsistent /\ SnapshotShowsRouting)
  BY GuardianUsesPool, PoolConsistent, SnapshotHonest, PTL

(* The state of every part has its type, and the process drains or has     *)
(* exited after that only if it was signaled.                              *)
THEOREM GuardianTypeCorrect == GuardianSafetySpec => []GuardianTypeOK
<1>1. PoolInv /\ RequestsOK /\ CheckerOK => GuardianTypeOK
  BY RequestsOKMeans DEF CheckerOK, PoolInv, GuardianTypeOK
<1>2. QED
  BY <1>1, InitRequestsOK, InitCheckerOK, GuardianStepRequestsOK, GuardianStepCheckerOK,
     GuardianUsesPool, PoolInvariant, PTL DEF GuardianSafetySpec

-----------------------------------------------------------------------------
(* No traffic before a good probe.  Alone the property is not inductive: a *)
(* handler may choose any eligible worker, so it takes that no worker has  *)
(* health but those vetted.  That in turn needs the property, since a      *)
(* response below 500 gives its worker health, and only workers that were  *)
(* chosen respond.                                                         *)

OnlyVettedRoutable == (\A w \in Workers : healthy[w] => w \in vetted) /\ NoTrafficBeforeProbe

LEMMA InitVetted == GuardianInit => OnlyVettedRoutable
  BY DEF GuardianInit, PoolInit, ProxyInit, Locals, OnlyVettedRoutable, NoTrafficBeforeProbe

(* What a call of the pool may do to the health flags. *)
LEMMA SuccessGivesHealth ==
  ASSUME PoolTypeOK, NEW w \in Workers, ReportSuccess(w), NEW v \in Workers, healthy'[v]
  PROVE  healthy[v] \/ v = w
  BY DEF ReportSuccess, PoolTypeOK

LEMMA FailureGivesNoHealth ==
  ASSUME PoolTypeOK, NEW w \in Workers, ReportFailure(w), NEW v \in Workers, healthy'[v]
  PROVE  healthy[v]
<1>1. healthy \in [Workers -> BOOLEAN]
  BY DEF PoolTypeOK
<1>2. CASE v = w
  BY <1>1, <1>2 DEF ReportFailure
<1>3. CASE v # w
  BY <1>1, <1>3 DEF ReportFailure
<1>4. QED
  BY <1>2, <1>3

(* Health is gained from a response to a request or from a good probe.     *)
LEMMA HealthIsEarned ==
  ASSUME PoolTypeOK, RequestsOK, CheckerOK, OnlyVettedRoutable, [GuardianNext]_guardianVars,
         NEW v \in Workers, healthy'[v]
  PROVE  v \in vetted'
<1>1. vetted \subseteq vetted'
  BY DEF GuardianNext, Arrive, Handle, Await, Expire, Interrupt, Handlers, Check, TimePasses,
         WorkerChanges, Signal, MainStep, StartDrain, Drained, ShutdownTimesOut, ServerFails,
         MoveTo, guardianVars
<1>2. ASSUME healthy[v]
      PROVE  v \in vetted'
  BY <1>1, <1>2 DEF OnlyVettedRoutable
<1>3. ASSUME NEW r \in Requests, Handle(r)
      PROVE  v \in vetted'
  <2>1. ASSUME req[r].pc \in {"returned", "interrupted"}
        PROVE  req[r].worker \in Workers /\ req[r].worker \in vetted
    BY <2>1 DEF RequestsOK, HandlerOK, Handler, OnlyVettedRoutable, NoTrafficBeforeProbe
  <2>2. CASE Commit(r)
    BY <1>1, <1>2, <2>1, <2>2, SuccessGivesHealth DEF Commit
  <2>3. CASE ReportAttempt(r) \/ ReportInterruption(r)
    BY <1>2, <2>1, <2>3, FailureGivesNoHealth DEF ReportAttempt, ReportInterruption
  <2>4. CASE LeaveLoop(r) \/ WriteFailure(r) \/ \E w \in Workers : Choose(r, w)
    BY <1>2, <2>4 DEF LeaveLoop, WriteFailure, Choose, NextWorker, poolVars
  <2>5. QED
    BY <1>3, <2>2, <2>3, <2>4 DEF Handle, HandlerStep
<1>4. CASE Check
  <2>1. CASE ReportProbe
    <3>1. PICK w \in todo : AtHead(w) /\ IF verdict THEN ReportSuccess(w) ELSE ReportFailure(w)
      BY <2>1 DEF ReportProbe
    <3>2. w \in Workers
      BY DEF CheckerOK, CheckerTypeOK
    <3>3. CASE verdict
      <4>1. w \in vetted'
        BY <1>4, <2>1, <3>1, <3>3 DEF Check, ReportProbe
      <4>2. QED
        BY <1>2, <3>1, <3>2, <3>3, <4>1, SuccessGivesHealth
    <3>4. CASE ~verdict
      BY <1>2, <3>1, <3>2, <3>4, FailureGivesNoHealth
    <3>5. QED
      BY <3>3, <3>4
  <2>2. CASE BeginRound \/ BeginProbe \/ ProbeReturns \/ ObserveHealth \/ StopChecking
    BY <1>2, <2>2
       DEF BeginRound, BeginProbe, ProbeReturns, ObserveHealth, StopChecking, poolVars
  <2>3. QED
    BY <1>4, <2>1, <2>2 DEF Check, CheckerStep
<1>5. CASE TimePasses
  BY <1>2, <1>5 DEF TimePasses, Elapse
<1>6. CASE WorkerChanges \/ Signal \/ MainStep \/ ServerFails \/ UNCHANGED guardianVars
  BY <1>2, <1>6
     DEF WorkerChanges, Signal, Cancel, MainStep, StartDrain, Drained, ShutdownTimesOut,
         ServerFails, MoveTo, guardianVars, poolVars
<1>7. ASSUME NEW r \in Requests, Arrive(r) \/ Await(r) \/ Expire(r) \/ Interrupt(r)
      PROVE  v \in vetted'
  BY <1>2, <1>7
     DEF Arrive, Await, Expire, Interrupt, Enter, Refuse, Admit, UpstreamStep, Return,
         RelayEnds, RelayBreaks, ClientStep, DeadlineExpires, ClientLeaves, EndContext,
         ClientStalls, ClientReadsOn, poolVars
<1>8. QED
  BY <1>3, <1>4, <1>5, <1>6, <1>7 DEF GuardianNext

(* A handler tries nothing but eligible workers. *)
LEMMA OnlyEligibleTried ==
  ASSUME RequestsOK, [GuardianNext]_guardianVars, NEW r \in Requests, NEW v \in req'[r].attempted
  PROVE  v \in req[r].attempted \/ (v \in Workers /\ healthy[v])
<1>1. req \in [Requests -> Handler]
  BY DEF RequestsOK
<1>2. ASSUME NEW q \in Requests, NEW w \in Workers, Choose(q, w)
      PROVE  v \in req[r].attempted \/ (v \in Workers /\ healthy[v])
  <2>1. healthy[w]
    BY <1>2 DEF Choose, NextWorker, FirstInScan, Selectable, Eligible
  <2>2. req'[r].attempted = IF r = q THEN req[r].attempted \cup {w} ELSE req[r].attempted
    BY <1>1, <1>2 DEF Choose, Handler
  <2>3. QED
    BY <2>1, <2>2
<1>3. ASSUME NEW q \in Requests, NEW reply, Answer(q, reply)
      PROVE  v \in req[r].attempted
  <2>1. req'[r].attempted = IF r = q THEN {} ELSE req[r].attempted
    BY <1>1, <1>3 DEF Answer, Locals
  <2>2. QED
    BY <2>1
<1>4. ASSUME NEW q \in Requests, Admit(q)
      PROVE  v \in req[r].attempted
  <2>1. req'[r].attempted = IF r = q THEN {} ELSE req[r].attempted
    BY <1>1, <1>4 DEF Admit, Locals
  <2>2. QED
    BY <2>1
<1>5. ASSUME NEW q \in Requests,
             \/ LeaveLoop(q) \/ ReportAttempt(q) \/ Commit(q) \/ Return(q)
             \/ RelayBreaks(q) \/ ClientStep(q)
      PROVE  v \in req[r].attempted
  <2>1. req'[r].attempted = req[r].attempted
    BY <1>1, <1>5
       DEF LeaveLoop, ReportAttempt, Commit, Return, RelayBreaks, ClientStep, DeadlineExpires,
           ClientLeaves, EndContext, ClientStalls, ClientReadsOn, Handler
  <2>2. QED
    BY <2>1
<1>6. CASE UNCHANGED req
  BY <1>6
<1>7. CASE Check \/ TimePasses \/ WorkerChanges \/ Signal \/ MainStep \/ ServerFails
  BY <1>6, <1>7
     DEF Check, TimePasses, WorkerChanges, Signal, MainStep, StartDrain, Drained,
         ShutdownTimesOut, ServerFails, MoveTo
<1>8. ASSUME NEW q \in Requests, Arrive(q) \/ Handle(q) \/ Await(q) \/ Expire(q) \/ Interrupt(q)
      PROVE  v \in req[r].attempted \/ (v \in Workers /\ healthy[v])
  BY <1>2, <1>3, <1>4, <1>5, <1>8
     DEF Arrive, Handle, Await, Expire, Interrupt, Enter, Refuse, HandlerStep, UpstreamStep,
         RelayEnds, ReportInterruption, WriteFailure, ClientStep
<1>9. QED
  BY <1>6, <1>7, <1>8 DEF GuardianNext, guardianVars

LEMMA StepVetted ==
  ASSUME PoolTypeOK, RequestsOK, CheckerOK, OnlyVettedRoutable, [GuardianNext]_guardianVars
  PROVE  OnlyVettedRoutable'
<1>1. \A w \in Workers : healthy'[w] => w \in vetted'
  BY HealthIsEarned
<1>2. vetted \subseteq vetted'
  BY DEF GuardianNext, Arrive, Handle, Await, Expire, Interrupt, Handlers, Check, TimePasses,
         WorkerChanges, Signal, MainStep, StartDrain, Drained, ShutdownTimesOut, ServerFails,
         MoveTo, guardianVars
<1>3. ASSUME NEW r \in Requests, NEW v \in req'[r].attempted
      PROVE  v \in vetted'
  BY <1>2, <1>3, OnlyEligibleTried DEF OnlyVettedRoutable, NoTrafficBeforeProbe
<1>4. QED
  BY <1>1, <1>3 DEF OnlyVettedRoutable, NoTrafficBeforeProbe

(* No request goes to a worker that has not passed a health probe,         *)
(* whatever handlers, probes and late results do to the pool meanwhile.    *)
THEOREM TrafficFollowsProbe == GuardianSafetySpec => []NoTrafficBeforeProbe
<1>1. PoolInv => PoolTypeOK
  BY DEF PoolInv
<1>2. OnlyVettedRoutable => NoTrafficBeforeProbe
  BY DEF OnlyVettedRoutable
<1>3. QED
  BY <1>1, <1>2, InitRequestsOK, InitCheckerOK, InitVetted, GuardianStepRequestsOK,
     GuardianStepCheckerOK, StepVetted, GuardianUsesPool, PoolInvariant, PTL
     DEF GuardianSafetySpec

-----------------------------------------------------------------------------
(* Sound workers and requests whose context lives.  A handler that has a   *)
(* sound worker stays with it to the end, so the only sound worker it can  *)
(* have tried is its present one.                                          *)

Blameless(q) ==
  q.ctx = "live" =>
    /\ q.attempted \cap Sound \subseteq {q.worker}
    /\ q.pc = "returned" /\ q.worker \in Sound => q.outcome = "ok"
    /\ q.pc = "interrupted" => q.worker \notin Sound

AllBlameless == \A r \in Requests : Blameless(req[r])

LEMMA InitBlameless == GuardianInit => AllBlameless
  BY DEF GuardianInit, ProxyInit, Locals, AllBlameless, Blameless

LEMMA OneBlameless ==
  ASSUME AllBlameless, NEW r \in Requests, Blameless(req'[r]),
         \A s \in Requests \ {r} : req'[s] = req[s]
  PROVE  AllBlameless'
  BY DEF AllBlameless

LEMMA EnterBlameless ==
  ASSUME RequestsOK, AllBlameless, NEW r \in Requests,
         Admit(r) \/ \E reply \in Replies : Answer(r, reply)
  PROVE  AllBlameless'
<1>1. /\ req'[r].pc \in {"idle", "choosing"} /\ req'[r].ctx = "live"
      /\ req'[r].attempted = {}
      /\ \A s \in Requests \ {r} : req'[s] = req[s]
  BY DEF RequestsOK, Admit, Answer, Locals
<1>2. QED
  BY <1>1, OneBlameless DEF Blameless

LEMMA ChooseBlameless ==
  ASSUME RequestsOK, AllBlameless, NEW r \in Requests, NEW w \in Workers, Choose(r, w)
  PROVE  AllBlameless'
<1>1. /\ req'[r].ctx = req[r].ctx
      /\ req[r].ctx = "live" => req'[r].pc = "waiting"
      /\ req'[r].worker = w /\ req'[r].attempted = req[r].attempted \cup {w}
      /\ \A s \in Requests \ {r} : req'[s] = req[s]
  BY DEF Choose, RequestsOK, Handler
<1>2. NoWorker \notin Sound
  BY UpstreamAssumption, PoolAssumption DEF NoWorker, Workers
<1>3. req[r].ctx = "live" => req[r].attempted \cap Sound \subseteq {NoWorker}
  BY DEF Choose, AllBlameless, Blameless, RequestsOK, HandlerOK
<1>4. Blameless(req'[r])
  BY <1>1, <1>2, <1>3 DEF Blameless
<1>5. QED
  BY <1>1, <1>4, OneBlameless

LEMMA ReturnBlameless ==
  ASSUME RequestsOK, CheckerOK, AllBlameless, NEW r \in Requests, Return(r)
  PROVE  AllBlameless'
<1>1. PICK o \in ChatOutcomes(mode[req[r].worker])
                 \cup (IF req[r].ctx = "live" THEN {} ELSE {ContextError(r)}) :
        req' = [req EXCEPT ![r].pc = "returned", ![r].outcome = o]
  BY DEF Return
<1>2. ASSUME req[r].ctx = "live", req[r].worker \in Sound
      PROVE  o = "ok"
  <2>1. mode[req[r].worker] = "serving"
    BY <1>2 DEF CheckerOK, UpstreamTypeOK
  <2>2. ChatOutcomes(mode[req[r].worker]) = {"ok"}
    BY <2>1 DEF ChatOutcomes
  <2>3. QED
    BY <1>1, <1>2, <2>2
<1>3. req \in [Requests -> Handler]
  BY DEF RequestsOK
<1>4. /\ req'[r].pc = "returned" /\ req'[r].ctx = req[r].ctx /\ req'[r].outcome = o
      /\ req'[r].worker = req[r].worker /\ req'[r].attempted = req[r].attempted
      /\ \A s \in Requests \ {r} : req'[s] = req[s]
  BY <1>1, <1>3 DEF Handler
<1>5. Blameless(req'[r])
  BY <1>2, <1>4 DEF AllBlameless, Blameless
<1>6. QED
  BY <1>4, <1>5, OneBlameless

LEMMA ReportAttemptBlameless ==
  ASSUME RequestsOK, AllBlameless, NEW r \in Requests, ReportAttempt(r)
  PROVE  AllBlameless'
<1>1. req[r].ctx = "live" => req[r].attempted \cap Sound = {}
  BY DEF ReportAttempt, AllBlameless, Blameless
<1>2. /\ req'[r].pc = "choosing" /\ req'[r].ctx = req[r].ctx
      /\ req'[r].attempted = req[r].attempted
      /\ \A s \in Requests \ {r} : req'[s] = req[s]
  BY DEF ReportAttempt, RequestsOK, Handler
<1>3. Blameless(req'[r])
  BY <1>1, <1>2 DEF Blameless
<1>4. QED
  BY <1>2, <1>3, OneBlameless

(* Steps that change the place of a handler, keeping worker and context.   *)
LEMMA MoveBlameless ==
  ASSUME RequestsOK, AllBlameless, NEW r \in Requests,
         LeaveLoop(r) \/ Commit(r) \/ ClientStalls(r) \/ ClientReadsOn(r)
  PROVE  AllBlameless'
<1>1. /\ req'[r].pc \in {"failing", "relaying", "blocked"} /\ req'[r].ctx = req[r].ctx
      /\ req'[r].worker = req[r].worker /\ req'[r].attempted = req[r].attempted
      /\ \A s \in Requests \ {r} : req'[s] = req[s]
  BY DEF LeaveLoop, Commit, ClientStalls, ClientReadsOn, RequestsOK, Handler
<1>2. Blameless(req'[r])
  BY <1>1 DEF AllBlameless, Blameless
<1>3. QED
  BY <1>1, <1>2, OneBlameless

(* Once its context has ended, there is nothing left to show.              *)
LEMMA EndContextBlameless ==
  ASSUME RequestsOK, AllBlameless, NEW r \in Requests, DeadlineExpires(r) \/ ClientLeaves(r)
  PROVE  AllBlameless'
<1>1. /\ req'[r].ctx \in {"expired", "canceled"}
      /\ \A s \in Requests \ {r} : req'[s] = req[s]
  BY DEF DeadlineExpires, ClientLeaves, EndContext, RequestsOK, Handler
<1>2. QED
  BY <1>1, OneBlameless DEF Blameless

LEMMA RelayBreaksBlameless ==
  ASSUME RequestsOK, CheckerOK, AllBlameless, NEW r \in Requests, RelayBreaks(r)
  PROVE  AllBlameless'
<1>1. ASSUME req[r].ctx = "live"
      PROVE  req[r].worker \notin Sound
  <2>1. mode[req[r].worker] = "down"
    BY <1>1 DEF RelayBreaks, StreamCanBreak
  <2>2. QED
    BY <2>1 DEF CheckerOK, UpstreamTypeOK
<1>2. /\ req'[r].ctx = req[r].ctx
      /\ req'[r].pc = "interrupted"
      /\ req'[r].worker = req[r].worker /\ req'[r].attempted = req[r].attempted
      /\ \A s \in Requests \ {r} : req'[s] = req[s]
  BY DEF RelayBreaks, RequestsOK, Handler
<1>3. Blameless(req'[r])
  BY <1>1, <1>2 DEF AllBlameless, Blameless
<1>4. QED
  BY <1>2, <1>3, OneBlameless

LEMMA StepBlameless ==
  ASSUME RequestsOK, CheckerOK, AllBlameless, [GuardianNext]_guardianVars
  PROVE  AllBlameless'
<1>1. ASSUME NEW r \in Requests, Arrive(r) \/ Handle(r)
      PROVE  AllBlameless'
  <2>1. \A reply \in Refusals \cup {"TRUNCATED", FailureCode(r)} : reply \in Replies
    BY DEF Replies, Errors, FailureCode
  <2>2. CASE Enter(r) \/ ReportInterruption(r) \/ WriteFailure(r)
    BY <2>1, <2>2, EnterBlameless DEF Enter, Refuse, ReportInterruption, WriteFailure
  <2>3. QED
    BY <1>1, <2>2, ChooseBlameless, ReportAttemptBlameless, MoveBlameless
       DEF Arrive, Handle, HandlerStep
<1>2. ASSUME NEW r \in Requests, Await(r)
      PROVE  AllBlameless'
  <2>1. "UPSTREAM" \in Replies
    BY DEF Replies
  <2>2. CASE RelayEnds(r)
    BY <2>1, <2>2, EnterBlameless DEF RelayEnds
  <2>3. QED
    BY <1>2, <2>2, ReturnBlameless, RelayBreaksBlameless DEF Await, UpstreamStep
<1>3. ASSUME NEW r \in Requests, Expire(r) \/ Interrupt(r)
      PROVE  AllBlameless'
  BY <1>3, MoveBlameless, EndContextBlameless DEF Expire, Interrupt, ClientStep
<1>4. UNCHANGED req => AllBlameless'
  BY DEF AllBlameless
<1>5. CASE Check \/ TimePasses \/ WorkerChanges \/ Signal \/ MainStep \/ ServerFails
  BY <1>4, <1>5
     DEF Check, TimePasses, WorkerChanges, Signal, MainStep, StartDrain, Drained,
         ShutdownTimesOut, ServerFails, MoveTo
<1>6. QED
  BY <1>1, <1>2, <1>3, <1>4, <1>5 DEF GuardianNext, guardianVars

(* A request whose workers have all failed has tried no sound one; if it   *)
(* may try more workers than there are faulty ones, it has looked for one. *)
LEMMA FailsOnlyWithoutSound ==
  ASSUME RequestsOK, AllBlameless, [GuardianNext]_guardianVars, NEW r \in Requests,
         MaxAttempts > Cardinality(Workers \ Sound),
         req[r].pc = "choosing", req'[r].pc = "failing", req[r].ctx = "live", NEW w \in Sound
  PROVE  ~Eligible(w)
<1>1. req \in [Requests -> Handler]
  BY DEF RequestsOK
<1>2. req[r].attempted \cap Sound = {}
  <2>1. req[r].attempted \cap Sound \subseteq {NoWorker}
    BY DEF AllBlameless, Blameless, RequestsOK, HandlerOK
  <2>2. NoWorker \notin Sound
    BY UpstreamAssumption, PoolAssumption DEF NoWorker, Workers
  <2>3. QED
    BY <2>1, <2>2
<1>3. Cardinality(req[r].attempted) <= Cardinality(Workers \ Sound)
  <2>1. IsFiniteSet(Workers)
    BY PoolAssumption, FS_Interval DEF Workers
  <2>2. IsFiniteSet(Workers \ Sound)
    BY <2>1, FS_Subset
  <2>3. req[r].attempted \subseteq Workers \ Sound
    BY <1>1, <1>2 DEF Handler
  <2>4. QED
    BY <2>2, <2>3, FS_Subset
<1>4. req[r].attempt <= MaxAttempts
  <2>1. /\ Cardinality(Workers \ Sound) \in Nat /\ Cardinality(req[r].attempted) \in Nat
    <3>1. IsFiniteSet(Workers)
      BY PoolAssumption, FS_Interval DEF Workers
    <3>2. IsFiniteSet(Workers \ Sound) /\ IsFiniteSet(req[r].attempted)
      BY <1>1, <3>1, FS_Subset DEF Handler
    <3>3. QED
      BY <3>2, FS_CardinalityType
  <2>2. req[r].attempt = Cardinality(req[r].attempted) + 1
    BY DEF RequestsOK, HandlerOK
  <2>3. QED
    BY <1>3, <2>1, <2>2, ProxyAssumption
<1>5. LeaveLoop(r)
  <2>1. ASSUME NEW q \in Requests,
               Arrive(q) \/ Handle(q) \/ Await(q) \/ Expire(q) \/ Interrupt(q)
        PROVE  LeaveLoop(r)
    <3>1. ASSUME NEW v \in Workers, Choose(q, v)
          PROVE  req'[r].pc # "failing"
      BY <1>1, <3>1 DEF Choose, Handler
    <3>2. ASSUME NEW reply, Answer(q, reply)
          PROVE  req'[r].pc # "failing"
      BY <1>1, <3>2 DEF Answer, Locals
    <3>3. ASSUME Admit(q)
          PROVE  req'[r].pc # "failing"
      BY <1>1, <3>3 DEF Admit, Locals
    <3>4. ASSUME ReportAttempt(q) \/ Commit(q)
          PROVE  req'[r].pc # "failing"
      BY <1>1, <3>4 DEF ReportAttempt, Commit, Handler
    <3>5. ASSUME Return(q) \/ RelayBreaks(q)
          PROVE  req'[r].pc # "failing"
      BY <1>1, <3>5 DEF Return, RelayBreaks, Handler
    <3>6. ASSUME ClientStep(q)
          PROVE  req'[r].pc # "failing"
      BY <1>1, <3>6
         DEF ClientStep, DeadlineExpires, ClientLeaves, EndContext, ClientStalls, ClientReadsOn,
             Handler
    <3>7. ASSUME LeaveLoop(q), q # r
          PROVE  req'[r].pc # "failing"
      BY <1>1, <3>7 DEF LeaveLoop
    <3>8. QED
      BY <2>1, <3>1, <3>2, <3>3, <3>4, <3>5, <3>6, <3>7
         DEF Arrive, Handle, Await, Expire, Interrupt, Enter, Refuse, HandlerStep, UpstreamStep,
             RelayEnds, ReportInterruption, WriteFailure, ClientStep
  <2>2. ~UNCHANGED req
    OBVIOUS
  <2>3. QED
    BY <2>1, <2>2
       DEF GuardianNext, Check, TimePasses, WorkerChanges, Signal, MainStep, StartDrain,
           Drained, ShutdownTimesOut, ServerFails, MoveTo, guardianVars
<1>6. NoneSelectable(req[r].attempted)
  <2>1. req[r].attempt \in Int /\ MaxAttempts \in Int
    BY <1>1, ProxyAssumption DEF Handler
  <2>2. ~(req[r].attempt > MaxAttempts)
    BY <1>4, <2>1
  <2>3. QED
    BY <1>5, <2>2 DEF LeaveLoop
<1>7. QED
  BY <1>2, <1>6, UpstreamAssumption DEF NoneSelectable, Selectable

(* The retries of a request cover the faulty workers, for any number of    *)
(* both and whatever befalls other requests: no request whose context      *)
(* lives is failed while a sound worker is eligible.                       *)
THEOREM FailoverCovers == GuardianSafetySpec => FailoverReachesSound
<1>1. RequestsOK /\ AllBlameless /\ [GuardianNext]_guardianVars =>
        [\A r \in Requests :
           /\ MaxAttempts > Cardinality(Workers \ Sound)
           /\ req[r].pc = "choosing" /\ req'[r].pc = "failing" /\ req[r].ctx = "live"
           => \A w \in Sound : ~Eligible(w)]_guardianVars
  BY FailsOnlyWithoutSound
<1>2. RequestsOK /\ CheckerOK /\ AllBlameless /\ [GuardianNext]_guardianVars => AllBlameless'
  BY StepBlameless
<1>3. QED
  BY <1>1, <1>2, InitRequestsOK, InitCheckerOK, InitBlameless, GuardianStepRequestsOK,
     GuardianStepCheckerOK, PTL DEF GuardianSafetySpec, FailoverReachesSound

-----------------------------------------------------------------------------
(* The same for the checker: until a signal comes, a probe of a sound      *)
(* worker that has returned was good.                                      *)

ProbesHonest ==
  ~stopping /\ phase \in {"probed", "observing"} => \A w \in Sound : AtHead(w) => verdict

LEMMA InitHonest == GuardianInit => ProbesHonest
  BY DEF GuardianInit, CheckerInit, ProbesHonest

LEMMA CheckHonest ==
  ASSUME CheckerOK, ProbesHonest, CheckerStep
  PROVE  ProbesHonest'
<1>1. CASE ProbeReturns
  <2>1. PICK w \in todo :
          AtHead(w) /\ verdict' \in {HealthOK(mode[w])} \cup (IF stopping THEN {FALSE} ELSE {})
    BY <1>1 DEF ProbeReturns
  <2>2. ASSUME ~stopping, NEW v \in Sound, AtHead(v)
        PROVE  verdict'
    <3>1. v = w
      BY <2>1, <2>2, PoolAssumption DEF AtHead, CheckerOK, CheckerTypeOK, Workers
    <3>2. mode[w] = "serving"
      BY <2>2, <3>1 DEF CheckerOK, UpstreamTypeOK
    <3>3. HealthOK(mode[w])
      BY <3>2 DEF HealthOK
    <3>4. QED
      BY <2>1, <2>2, <3>3
  <2>3. UNCHANGED <<todo, stopping>>
    BY <1>1 DEF ProbeReturns
  <2>4. QED
    BY <2>2, <2>3 DEF ProbesHonest, AtHead
<1>2. CASE ReportProbe
  BY <1>2 DEF ReportProbe, ProbesHonest, AtHead
<1>3. CASE BeginRound \/ BeginProbe \/ ObserveHealth \/ StopChecking
  BY <1>3 DEF BeginRound, BeginProbe, ObserveHealth, StopChecking, ProbesHonest
<1>4. QED
  BY <1>1, <1>2, <1>3 DEF CheckerStep

LEMMA StepHonest ==
  ASSUME CheckerOK, ProbesHonest, [GuardianNext]_guardianVars
  PROVE  ProbesHonest'
<1>1. CASE Check
  BY <1>1, CheckHonest DEF Check
<1>2. CASE Signal
  BY <1>2 DEF Signal, Cancel, ProbesHonest
<1>3. CASE UNCHANGED checkerVars
  BY <1>3 DEF checkerVars, ProbesHonest, AtHead
<1>4. Check \/ Signal \/ UNCHANGED checkerVars
  BY DEF GuardianNext, Arrive, Handle, Await, Expire, Interrupt, Handlers, TimePasses,
         WorkerChanges, MainStep, StartDrain, Drained, ShutdownTimesOut, ServerFails, MoveTo,
         guardianVars
<1>5. QED
  BY <1>1, <1>2, <1>3, <1>4

-----------------------------------------------------------------------------
(* What a step may charge.                                                 *)

(* A success charges nobody, a failure nobody but its worker. *)
LEMMA SuccessChargesNobody ==
  ASSUME PoolTypeOK, NEW w \in Workers, ReportSuccess(w)
  PROVE  \A v \in Workers : ~Charged(v)
<1>1. /\ \A v \in Workers : failures[v] \in Nat /\ openFor[v] \in Int /\ openFor[v] >= Unset
  BY PoolAssumption DEF PoolTypeOK, Unset
<1>2. \A v \in Workers :
        /\ failures'[v] \in {failures[v], 0}
        /\ openFor'[v] \in {openFor[v], Unset}
  BY DEF ReportSuccess, PoolTypeOK
<1>3. QED
  BY <1>1, <1>2 DEF Charged, Unset

LEMMA FailureChargesOne ==
  ASSUME PoolTypeOK, NEW w \in Workers, ReportFailure(w)
  PROVE  \A v \in Workers \ {w} : ~Charged(v)
<1>1. \A v \in Workers : failures[v] \in Nat /\ openFor[v] \in Int
  BY PoolAssumption DEF PoolTypeOK, Unset
<1>2. \A v \in Workers \ {w} : failures'[v] = failures[v] /\ openFor'[v] = openFor[v]
  BY DEF ReportFailure, PoolTypeOK
<1>3. QED
  BY <1>1, <1>2 DEF Charged

LEMMA SameChargesNobody ==
  ASSUME PoolTypeOK, UNCHANGED <<failures, openFor>>
  PROVE  \A v \in Workers : ~Charged(v)
<1>1. \A v \in Workers : failures[v] \in Nat /\ openFor[v] \in Int
  BY PoolAssumption DEF PoolTypeOK, Unset
<1>2. QED
  BY <1>1 DEF Charged

LEMMA TimeChargesNobody ==
  ASSUME PoolTypeOK, Elapse
  PROVE  \A v \in Workers : ~Charged(v)
<1>1. \A v \in Workers : failures[v] \in Nat /\ openFor[v] \in Int
  BY PoolAssumption DEF PoolTypeOK, Unset
<1>2. failures' = failures
  BY DEF Elapse
<1>3. ASSUME NEW v \in Workers
      PROVE  openFor'[v] \in Int /\ openFor'[v] <= openFor[v]
  <2>1. openFor'[v] = IF openFor[v] > 0 THEN openFor[v] - 1 ELSE openFor[v]
    BY DEF Elapse
  <2>2. QED
    BY <1>1, <2>1
<1>4. QED
  BY <1>1, <1>2, <1>3 DEF Charged

(* What excuses a charge of w. *)
Cause(w) ==
  \/ stopping /\ phase = "probed" /\ AtHead(w)
  \/ \E r \in Requests : DropsAfterItsEnd(r, w)

LEMMA HandlerCharges ==
  ASSUME PoolTypeOK, RequestsOK, AllBlameless, NEW r \in Requests, HandlerStep(r),
         NEW w \in Sound, Charged(w)
  PROVE  DropsAfterItsEnd(r, w)
<1>1. w \in Workers /\ w # NoWorker
  BY UpstreamAssumption, PoolAssumption DEF NoWorker, Workers
<1>2. ASSUME req[r].pc \in {"returned", "interrupted"}
      PROVE  req[r].worker \in Workers
  BY <1>2 DEF RequestsOK, HandlerOK, Handler
<1>3. CASE Commit(r)
  BY <1>1, <1>2, <1>3, SuccessChargesNobody DEF Commit
<1>4. CASE ReportAttempt(r) \/ ReportInterruption(r)
  <2>1. req[r].worker = w
    BY <1>1, <1>2, <1>4, FailureChargesOne DEF ReportAttempt, ReportInterruption
  <2>2. req[r].ctx # "live"
    BY <1>4, <2>1 DEF ReportAttempt, ReportInterruption, AllBlameless, Blameless
  <2>3. req'[r].worker = NoWorker
    BY <1>4 DEF ReportAttempt, ReportInterruption, Answer, Locals, RequestsOK, Handler
  <2>4. QED
    BY <1>1, <2>1, <2>2, <2>3 DEF DropsAfterItsEnd
<1>5. CASE LeaveLoop(r) \/ WriteFailure(r) \/ \E v \in Workers : Choose(r, v)
  BY <1>1, <1>5, SameChargesNobody DEF LeaveLoop, WriteFailure, Choose, NextWorker, poolVars
<1>6. QED
  BY <1>3, <1>4, <1>5 DEF HandlerStep

LEMMA CheckCharges ==
  ASSUME PoolTypeOK, CheckerOK, ProbesHonest, CheckerStep, NEW w \in Sound, Charged(w)
  PROVE  stopping /\ phase = "probed" /\ AtHead(w)
<1>1. w \in Workers
  BY UpstreamAssumption
<1>2. CASE ReportProbe
  <2>1. PICK v \in todo : AtHead(v) /\ IF verdict THEN ReportSuccess(v) ELSE ReportFailure(v)
    BY <1>2 DEF ReportProbe
  <2>2. v \in Workers
    BY DEF CheckerOK, CheckerTypeOK
  <2>3. ~verdict /\ v = w
    BY <1>1, <2>1, <2>2, SuccessChargesNobody, FailureChargesOne
  <2>4. QED
    BY <1>2, <2>1, <2>3 DEF ReportProbe, ProbesHonest
<1>3. CASE BeginRound \/ BeginProbe \/ ProbeReturns \/ ObserveHealth \/ StopChecking
  BY <1>1, <1>3, SameChargesNobody
     DEF BeginRound, BeginProbe, ProbeReturns, ObserveHealth, StopChecking, poolVars
<1>4. QED
  BY <1>2, <1>3 DEF CheckerStep

LEMMA StepCharges ==
  ASSUME PoolTypeOK, RequestsOK, CheckerOK, AllBlameless, ProbesHonest,
         [GuardianNext]_guardianVars, NEW w \in Sound, Charged(w)
  PROVE  Cause(w)
<1>1. w \in Workers
  BY UpstreamAssumption
<1>2. ASSUME NEW r \in Requests, Handle(r)
      PROVE  Cause(w)
  BY <1>2, HandlerCharges DEF Handle, Cause
<1>3. CASE Check
  BY <1>3, CheckCharges DEF Check, Cause
<1>4. ~TimePasses
  BY <1>1, TimeChargesNobody DEF TimePasses
<1>5. ~UNCHANGED poolVars
  BY <1>1, SameChargesNobody DEF poolVars
<1>6. ~(WorkerChanges \/ Signal \/ MainStep \/ ServerFails \/ UNCHANGED guardianVars)
  BY <1>5
     DEF WorkerChanges, Signal, Cancel, MainStep, StartDrain, Drained, ShutdownTimesOut,
         ServerFails, MoveTo, guardianVars
<1>7. ASSUME NEW r \in Requests
      PROVE  ~(Arrive(r) \/ Await(r) \/ Expire(r) \/ Interrupt(r))
  BY <1>5
     DEF Arrive, Await, Expire, Interrupt, Enter, Refuse, Admit, UpstreamStep, Return,
         RelayEnds, RelayBreaks, ClientStep, DeadlineExpires, ClientLeaves, EndContext,
         ClientStalls, ClientReadsOn
<1>8. QED
  BY <1>2, <1>3, <1>4, <1>6, <1>7 DEF GuardianNext

(* A worker that answers every request and every probe pays for nobody but *)
(* the requests it was given, however the others misbehave and handlers,   *)
(* checker, clients, deadlines and signals interleave: only the end of the *)
(* context of such a request, or of the process, is charged to it.         *)
THEOREM SoundPaysForItsOwn == GuardianSafetySpec => SoundChargedForCause
<1>1. PoolInv => PoolTypeOK
  BY DEF PoolInv
<1>2. RequestsOK /\ CheckerOK /\ AllBlameless /\ [GuardianNext]_guardianVars => AllBlameless'
  BY StepBlameless
<1>3. CheckerOK /\ ProbesHonest /\ [GuardianNext]_guardianVars => ProbesHonest'
  BY StepHonest
<1>4. PoolTypeOK /\ RequestsOK /\ CheckerOK /\ AllBlameless /\ ProbesHonest
        /\ [GuardianNext]_guardianVars =>
      [\A w \in Sound : Charged(w) =>
         \/ stopping /\ phase = "probed" /\ AtHead(w)
         \/ \E r \in Requests : DropsAfterItsEnd(r, w)]_guardianVars
  BY StepCharges DEF Cause
<1>5. QED
  BY <1>1, <1>2, <1>3, <1>4, InitRequestsOK, InitCheckerOK, InitBlameless, InitHonest,
     GuardianStepRequestsOK, GuardianStepCheckerOK, GuardianUsesPool, PoolInvariant, PTL
     DEF GuardianSafetySpec, SoundChargedForCause

(* With no end of a context and no signal there is nothing to excuse a     *)
(* charge.                                                                 *)
Undisturbed == ~stopping /\ \A r \in Requests : req[r].ctx = "live"

LEMMA StepUndisturbed ==
  ASSUME Interruptions \subseteq {"stalled"}, "signal" \notin Stops,
         RequestsOK, Undisturbed, [GuardianNext]_guardianVars
  PROVE  Undisturbed'
<1>1. req \in [Requests -> Handler]
  BY DEF RequestsOK
<1>2. ~stopping'
  BY DEF Undisturbed, GuardianNext, Arrive, Handle, Await, Expire, Interrupt, Handlers, Check,
         CheckerStep, BeginRound, BeginProbe, ProbeReturns, ReportProbe, ObserveHealth,
         StopChecking, TimePasses, WorkerChanges, Signal, MainStep, StartDrain, Drained,
         ShutdownTimesOut, ServerFails, MoveTo, guardianVars, checkerVars
<1>3. ASSUME NEW r \in Requests,
             Arrive(r) \/ Handle(r) \/ Await(r) \/ Expire(r) \/ Interrupt(r)
      PROVE  \A s \in Requests : req'[s].ctx = "live"
  <2>1. ASSUME NEW reply, Answer(r, reply)
        PROVE  \A s \in Requests : req'[s].ctx = "live"
    BY <1>1, <2>1 DEF Answer, Locals, Undisturbed
  <2>2. CASE Admit(r)
    BY <1>1, <2>2 DEF Admit, Locals, Undisturbed
  <2>3. ASSUME NEW w \in Workers, Choose(r, w)
        PROVE  \A s \in Requests : req'[s].ctx = "live"
    BY <1>1, <2>3 DEF Choose, Handler, Undisturbed
  <2>4. CASE LeaveLoop(r) \/ ReportAttempt(r) \/ Commit(r)
    BY <1>1, <2>4 DEF LeaveLoop, ReportAttempt, Commit, Handler, Undisturbed
  <2>5. CASE Return(r) \/ RelayBreaks(r) \/ ClientStalls(r) \/ ClientReadsOn(r)
    BY <1>1, <2>5
       DEF Return, RelayBreaks, ClientStalls, ClientReadsOn, Handler, Undisturbed
  <2>6. ~DeadlineExpires(r) /\ ~ClientLeaves(r)
    BY DEF DeadlineExpires, ClientLeaves, EndContext
  <2>7. QED
    BY <1>3, <2>1, <2>2, <2>3, <2>4, <2>5, <2>6
       DEF Arrive, Handle, Await, Expire, Interrupt, Enter, Refuse, HandlerStep, UpstreamStep,
           RelayEnds, ReportInterruption, WriteFailure, ClientStep
<1>4. UNCHANGED req => \A s \in Requests : req'[s].ctx = "live"
  BY DEF Undisturbed
<1>5. QED
  BY <1>2, <1>3, <1>4
     DEF Undisturbed, GuardianNext, Check, TimePasses, WorkerChanges, Signal, MainStep,
         StartDrain, Drained, ShutdownTimesOut, ServerFails, MoveTo, guardianVars

LEMMA StaysClean ==
  ASSUME PoolTypeOK, PoolTypeOK', Undisturbed, SoundNeverCharged,
         \A w \in Sound : Charged(w) => Cause(w)
  PROVE  SoundNeverCharged'
<1>1. ASSUME NEW w \in Sound
      PROVE  failures'[w] = 0
  <2>1. ~Charged(w)
    BY DEF Undisturbed, Cause, DropsAfterItsEnd
  <2>2. failures[w] = 0 /\ failures'[w] \in Nat
    BY UpstreamAssumption, PoolAssumption DEF SoundNeverCharged, PoolTypeOK
  <2>3. QED
    BY <2>1, <2>2 DEF Charged
<1>2. QED
  BY <1>1 DEF SoundNeverCharged

(* A worker that answers every request and every probe is never charged    *)
(* with a failure, however the others misbehave and the handlers and the   *)
(* checker interleave.  It takes requests that run to their end and a      *)
(* process that is not told to stop.                                       *)
THEOREM SoundKeptClean ==
  ASSUME Interruptions \subseteq {"stalled"}, "signal" \notin Stops
  PROVE  GuardianSafetySpec => []SoundNeverCharged
<1>1. GuardianInit => Undisturbed /\ SoundNeverCharged
  BY UpstreamAssumption
     DEF GuardianInit, PoolInit, ProxyInit, CheckerInit, Locals, Undisturbed, SoundNeverCharged
<1>2. RequestsOK /\ Undisturbed /\ [GuardianNext]_guardianVars => Undisturbed'
  BY StepUndisturbed
<1>3. PoolInv => PoolTypeOK
  BY DEF PoolInv
<1>4. /\ PoolTypeOK /\ PoolTypeOK' /\ Undisturbed /\ SoundNeverCharged
      /\ [\A w \in Sound : Charged(w) =>
            \/ stopping /\ phase = "probed" /\ AtHead(w)
            \/ \E r \in Requests : DropsAfterItsEnd(r, w)]_guardianVars
      => SoundNeverCharged'
  <2>1. UNCHANGED guardianVars /\ SoundNeverCharged => SoundNeverCharged'
    BY DEF guardianVars, poolVars, SoundNeverCharged
  <2>2. QED
    BY <2>1, StaysClean DEF Cause
<1>5. QED
  BY <1>1, <1>2, <1>3, <1>4, SoundPaysForItsOwn, InitRequestsOK, GuardianStepRequestsOK,
     GuardianUsesPool, PoolInvariant, PTL DEF GuardianSafetySpec, SoundChargedForCause

-----------------------------------------------------------------------------
(* Every handler keeps the promise of Exchange.                            *)

LEMMA NobodyIsNoWorker == NoWorker \notin Workers
  BY PoolAssumption DEF NoWorker, Workers

(* A step that shows in the exchange of one request only. *)
LEMMA OneExchange ==
  ASSUME NEW r \in Requests, \A s \in Requests \ {r} : req'[s] = req[s]
  PROVE  exchange' = [exchange EXCEPT ![r] = ExchangeOf(req'[r])]
  BY DEF exchange

LEMMA SameExchange ==
  ASSUME NEW r \in Requests, \A s \in Requests \ {r} : req'[s] = req[s],
         ExchangeOf(req'[r]) = ExchangeOf(req[r])
  PROVE  UNCHANGED exchange
  BY DEF exchange

LEMMA LocalsPromise ==
  ASSUME NEW reply \in Replies
  PROVE  /\ ExchangeOf(Locals("choosing", 1, "none")) = Promise!Fresh
         /\ reply \in Refusals => ExchangeOf(Locals("idle", 0, reply)) = Promise!Closed("refused")
         /\ ExchangeOf(Locals("idle", 0, "none")) = Promise!Closed("none")
         /\ ExchangeOf(Locals("idle", 0, "UPSTREAM")) = Promise!Closed("whole")
         /\ ExchangeOf(Locals("idle", 0, "TRUNCATED")) = Promise!Closed("cut")
         /\ ExchangeOf(Locals("idle", 0, "NO_HEALTHY_WORKER")) = Promise!Closed("unavailable")
         /\ ExchangeOf(Locals("idle", 0, "REQUEST_TIMEOUT")) = Promise!Closed("failed")
         /\ ExchangeOf(Locals("idle", 0, "UPSTREAM_FAILURE")) = Promise!Closed("failed")
<1>1. \A re \in Refusals : re \notin {"none", "UPSTREAM", "TRUNCATED"}
  BY DEF Refusals
<1>2. "UPSTREAM" \notin Refusals /\ "TRUNCATED" \notin Refusals /\ "none" \notin Refusals
      /\ Errors \cap Refusals = {}
  BY DEF Refusals, Errors
<1>3. QED
  BY <1>1, <1>2
     DEF ExchangeOf, Locals, StageOf, OutcomeOf, Promise!Fresh, Promise!Closed, Errors

(* The locals with which a request is asked of a worker leave one more     *)
(* attempt to fail.                                                        *)
LEMMA AskedBelow ==
  ASSUME NEW q, HandlerOK(q), q.pc = "returned"
  PROVE  /\ q.worker \in Workers
         /\ Cardinality(q.attempted \ {q.worker}) < MaxAttempts
<1>1. /\ q.attempted \subseteq Workers /\ q.worker \in q.attempted
      /\ q.attempt = Cardinality(q.attempted) /\ q.attempt <= MaxAttempts
      /\ q.attempt \in Nat
  BY ProxyAssumption DEF HandlerOK, Handler
<1>2. IsFiniteSet(q.attempted)
  <2>1. IsFiniteSet(Workers)
    BY PoolAssumption, FS_Interval DEF Workers
  <2>2. QED
    BY <1>1, <2>1, FS_Subset
<1> DEFINE tried == q.attempted
           w == q.worker
<1>3. Cardinality(tried \ {w}) = Cardinality(tried) - 1
  <2>1. w \in tried /\ IsFiniteSet(tried)
    BY <1>1, <1>2
  <2> HIDE DEF tried, w
  <2>2. QED
    BY <2>1, FS_RemoveElement
<1>4. QED
  BY <1>1, <1>3, ProxyAssumption

LEMMA SameCardinality == \A S : Promise!Cardinality(S) = Cardinality(S)
  BY Zenon DEF Cardinality, Promise!Cardinality

LEMMA MayAskMeans ==
  ASSUME NEW r \in Requests, NEW tried, NEW w, Cardinality(tried \ {w}) < MaxAttempts,
         exchange[r] = [stage |-> "open", failed |-> tried \ {w},
                        source |-> NoWorker, outcome |-> "none"]
  PROVE  Promise!MayAsk(r, w)
<1> DEFINE others == tried \ {w}
<1>1. w \notin others /\ Cardinality(others) < MaxAttempts
  OBVIOUS
<1>2. exchange[r].stage = "open" /\ exchange[r].failed = others
  OBVIOUS
<1> HIDE DEF others
<1>3. QED
  BY <1>1, <1>2, SameCardinality DEF Promise!MayAsk, Promise!Is

LEMMA EnterPromise ==
  ASSUME RequestsOK, NEW r \in Requests, Enter(r)
  PROVE  Promise!Open(r) \/ Promise!Refuse(r)
<1>1. Promise!Is(r, "closed")
  BY DEF Enter, Refuse, Admit, exchange, ExchangeOf, StageOf, Promise!Is
<1>2. CASE Refuse(r)
  <2>1. PICK code \in Refusals : req' = [req EXCEPT ![r] = Locals("idle", 0, code)]
    BY <1>2 DEF Refuse, Answer
  <2>2. exchange' = [exchange EXCEPT ![r] = Promise!Closed("refused")]
    <3>1. code \in Replies
      BY DEF Replies
    <3>2. req'[r] = Locals("idle", 0, code) /\ \A s \in Requests \ {r} : req'[s] = req[s]
      BY <2>1 DEF RequestsOK
    <3>3. QED
      BY <3>1, <3>2, OneExchange, LocalsPromise
  <2>3. QED
    BY <1>1, <2>2 DEF Promise!Refuse, Promise!Close
<1>3. CASE Admit(r)
  <2>1. req'[r] = Locals("choosing", 1, "none") /\ \A s \in Requests \ {r} : req'[s] = req[s]
    BY <1>3 DEF Admit, RequestsOK
  <2>2. exchange' = [exchange EXCEPT ![r] = Promise!Fresh]
    <3>1. "none" \in Replies
      BY DEF Replies
    <3>2. QED
      BY <2>1, <3>1, OneExchange, LocalsPromise
  <2>3. QED
    BY <1>1, <2>2 DEF Promise!Open
<1>4. QED
  BY <1>2, <1>3 DEF Enter

(* The steps that a client could not tell from waiting. *)
LEMMA QuietSteps ==
  ASSUME RequestsOK, NEW r \in Requests,
         \/ LeaveLoop(r) \/ Return(r) \/ RelayBreaks(r) \/ ClientStalls(r) \/ ClientReadsOn(r)
         \/ \E cause \in {"expired", "canceled"} : EndContext(r, cause)
         \/ \E w \in Workers : Choose(r, w)
  PROVE  UNCHANGED exchange
<1>0. req \in [Requests -> Handler] /\ req[r] \in Handler /\ HandlerOK(req[r])
  BY DEF RequestsOK
<1>1. CASE LeaveLoop(r) \/ RelayBreaks(r) \/ ClientStalls(r) \/ ClientReadsOn(r)
  <2>1. /\ StageOf(req'[r]) = StageOf(req[r]) /\ OutcomeOf(req'[r]) = OutcomeOf(req[r])
        /\ req'[r].attempted = req[r].attempted /\ req'[r].worker = req[r].worker
        /\ \A s \in Requests \ {r} : req'[s] = req[s]
    BY <1>0, <1>1 DEF LeaveLoop, RelayBreaks, ClientStalls, ClientReadsOn, Handler, StageOf, OutcomeOf
  <2>2. QED
    BY <2>1, SameExchange DEF ExchangeOf
<1>2. CASE Return(r)
  <2>1. PICK o : req' = [req EXCEPT ![r].pc = "returned", ![r].outcome = o]
    BY <1>2 DEF Return
  <2>2. /\ req'[r].pc = "returned"
        /\ req'[r].attempted = req[r].attempted /\ req'[r].worker = req[r].worker
        /\ \A s \in Requests \ {r} : req'[s] = req[s]
    BY <1>0, <2>1 DEF Handler
  <2>3. StageOf(req'[r]) = StageOf(req[r]) /\ OutcomeOf(req'[r]) = OutcomeOf(req[r])
    BY <1>2, <2>2 DEF Return, StageOf, OutcomeOf
  <2>4. QED
    BY <2>2, <2>3, SameExchange DEF ExchangeOf
<1>3. ASSUME NEW cause \in {"expired", "canceled"}, EndContext(r, cause)
      PROVE  UNCHANGED exchange
  <2>1. /\ req'[r].pc = req[r].pc /\ req'[r].reply = req[r].reply
        /\ req'[r].attempted = req[r].attempted /\ req'[r].worker = req[r].worker
        /\ \A s \in Requests \ {r} : req'[s] = req[s]
    BY <1>0, <1>3 DEF EndContext, Handler
  <2>2. StageOf(req'[r]) = StageOf(req[r]) /\ OutcomeOf(req'[r]) = OutcomeOf(req[r])
    BY <2>1 DEF StageOf, OutcomeOf
  <2>3. QED
    BY <2>1, <2>2, SameExchange DEF ExchangeOf
<1>4. ASSUME NEW w \in Workers, Choose(r, w)
      PROVE  UNCHANGED exchange
  <2>1. /\ req'[r].pc \in {"waiting", "returned"} /\ req[r].pc = "choosing"
        /\ req'[r].attempted = req[r].attempted \cup {w} /\ req'[r].worker = w
        /\ \A s \in Requests \ {r} : req'[s] = req[s]
    BY <1>0, <1>4 DEF Choose, Handler
  <2>2. w \notin req[r].attempted
    BY <1>4 DEF Choose, NextWorker, FirstInScan, Selectable
  <2>3. req[r].worker = NoWorker /\ NoWorker \notin req[r].attempted
    BY <1>0, <2>1, NobodyIsNoWorker DEF HandlerOK, Handler
  <2>4. req'[r].attempted \ {req'[r].worker} = req[r].attempted \ {req[r].worker}
    BY <2>1, <2>2, <2>3
  <2>5. StageOf(req'[r]) = StageOf(req[r]) /\ OutcomeOf(req'[r]) = OutcomeOf(req[r])
        /\ StageOf(req[r]) # "committed"
    BY <2>1 DEF StageOf, OutcomeOf
  <2>6. QED
    BY <2>1, <2>4, <2>5, SameExchange DEF ExchangeOf
<1>5. QED
  BY <1>1, <1>2, <1>3, <1>4

(* An attempt that failed shows when it is reported. *)
LEMMA ReportAttemptPromise ==
  ASSUME RequestsOK, NEW r \in Requests, ReportAttempt(r)
  PROVE  Promise!Fail(r, req[r].worker) /\ req[r].worker \in Workers
<1> DEFINE q == req[r]
<1>0. req \in [Requests -> Handler] /\ q \in Handler /\ HandlerOK(q) /\ q.pc = "returned"
  BY DEF RequestsOK, ReportAttempt
<1>1. q.worker \in Workers /\ q.worker \in q.attempted
      /\ Cardinality(q.attempted \ {q.worker}) < MaxAttempts
  BY <1>0, AskedBelow DEF HandlerOK
<1>2. /\ req'[r].pc = "choosing" /\ req'[r].attempted = q.attempted /\ req'[r].worker = NoWorker
      /\ \A s \in Requests \ {r} : req'[s] = req[s]
  BY <1>0 DEF ReportAttempt, Handler
<1>3. exchange[r] = [stage |-> "open", failed |-> q.attempted \ {q.worker},
                     source |-> NoWorker, outcome |-> "none"]
  BY <1>0 DEF exchange, ExchangeOf, StageOf, OutcomeOf
<1>4. NoWorker \notin q.attempted
  BY <1>0, NobodyIsNoWorker DEF Handler
<1>5. ExchangeOf(req'[r]) = [stage |-> "open", failed |-> q.attempted,
                             source |-> NoWorker, outcome |-> "none"]
  BY <1>2, <1>4 DEF ExchangeOf, StageOf, OutcomeOf
<1>6. ExchangeOf(req'[r]) = [exchange[r] EXCEPT !.failed = @ \cup {q.worker}]
  <2>1. exchange[r].failed = q.attempted \ {q.worker}
    BY <1>3
  <2>2. exchange[r].failed \cup {q.worker} = q.attempted
    BY <1>1, <2>1
  <2> DEFINE e == exchange[r]
  <2>3. [e EXCEPT !.failed = q.attempted] = ExchangeOf(req'[r])
    BY <1>3, <1>5
  <2>4. QED
    BY <2>2, <2>3
<1>7. exchange' = [exchange EXCEPT ![r].failed = @ \cup {q.worker}]
  BY <1>2, <1>6, OneExchange DEF exchange
<1>8. Promise!MayAsk(r, q.worker)
  BY <1>1, <1>3, MayAskMeans
<1>9. QED
  BY <1>1, <1>7, <1>8 DEF Promise!Fail

LEMMA CommitPromise ==
  ASSUME RequestsOK, NEW r \in Requests, Commit(r)
  PROVE  Promise!Commit(r, req[r].worker) /\ req[r].worker \in Workers
<1> DEFINE q == req[r]
<1>0. req \in [Requests -> Handler] /\ q \in Handler /\ HandlerOK(q) /\ q.pc = "returned"
  BY DEF RequestsOK, Commit
<1>1. q.worker \in Workers /\ Cardinality(q.attempted \ {q.worker}) < MaxAttempts
  BY <1>0, AskedBelow
<1>2. /\ req'[r].pc = "relaying" /\ req'[r].attempted = q.attempted /\ req'[r].worker = q.worker
      /\ \A s \in Requests \ {r} : req'[s] = req[s]
  BY <1>0 DEF Commit, Handler
<1>3. exchange[r] = [stage |-> "open", failed |-> q.attempted \ {q.worker},
                     source |-> NoWorker, outcome |-> "none"]
  BY <1>0 DEF exchange, ExchangeOf, StageOf, OutcomeOf
<1>4. ExchangeOf(req'[r]) = [stage |-> "committed", failed |-> q.attempted \ {q.worker},
                             source |-> q.worker, outcome |-> "none"]
  BY <1>2 DEF ExchangeOf, StageOf, OutcomeOf
<1>5. exchange' = [exchange EXCEPT ![r] =
                     [stage |-> "committed", failed |-> exchange[r].failed,
                      source |-> q.worker, outcome |-> "none"]]
  <2>1. exchange' = [exchange EXCEPT ![r] = ExchangeOf(req'[r])]
    BY <1>2, OneExchange
  <2>2. exchange[r].failed = q.attempted \ {q.worker}
    BY <1>3
  <2>3. QED
    BY <1>4, <2>1, <2>2
<1>6. Promise!MayAsk(r, q.worker)
  BY <1>1, <1>3, MayAskMeans
<1>7. QED
  BY <1>1, <1>5, <1>6 DEF Promise!Commit

(* The ways a handler returns. *)
LEMMA AnswerPromise ==
  ASSUME RequestsOK, NEW r \in Requests,
         RelayEnds(r) \/ ReportInterruption(r) \/ WriteFailure(r)
  PROVE  Promise!End(r) \/ Promise!GiveUp(r)
<1>0. req \in [Requests -> Handler] /\ req[r] \in Handler /\ HandlerOK(req[r])
  BY DEF RequestsOK
<1>1. ASSUME NEW reply, Answer(r, reply)
      PROVE  exchange' = [exchange EXCEPT ![r] = ExchangeOf(Locals("idle", 0, reply))]
  <2>1. req'[r] = Locals("idle", 0, reply) /\ \A s \in Requests \ {r} : req'[s] = req[s]
    BY <1>0, <1>1 DEF Answer
  <2>2. QED
    BY <2>1, OneExchange
<1>2. "none" \in Replies
  BY DEF Replies
<1>3. CASE RelayEnds(r)
  <2>1. Promise!Close(r, "whole")
    BY <1>1, <1>2, <1>3, LocalsPromise DEF RelayEnds, Promise!Close
  <2>2. Promise!Is(r, "committed")
    BY <1>3 DEF RelayEnds, Promise!Is, exchange, ExchangeOf, StageOf
  <2>3. QED
    BY <2>1, <2>2 DEF Promise!End
<1>4. CASE ReportInterruption(r)
  <2>1. Promise!Close(r, "cut")
    BY <1>1, <1>2, <1>4, LocalsPromise DEF ReportInterruption, Promise!Close
  <2>2. Promise!Is(r, "committed")
    BY <1>4 DEF ReportInterruption, Promise!Is, exchange, ExchangeOf, StageOf
  <2>3. QED
    BY <2>1, <2>2 DEF Promise!End
<1>5. CASE WriteFailure(r)
  <2>1. req[r].pc = "failing" /\ Answer(r, FailureCode(r))
    BY <1>5 DEF WriteFailure
  <2>2. Promise!Is(r, "open") /\ exchange[r].failed = req[r].attempted
    <3>1. req[r].worker = NoWorker /\ NoWorker \notin req[r].attempted
      BY <1>0, <2>1, NobodyIsNoWorker DEF HandlerOK, Handler
    <3>2. QED
      BY <2>1, <3>1 DEF Promise!Is, exchange, ExchangeOf, StageOf
  <2>3. ExchangeOf(Locals("idle", 0, FailureCode(r)))
          = Promise!Closed(IF exchange[r].failed = {} THEN "unavailable" ELSE "failed")
    BY <1>2, <2>2, LocalsPromise DEF FailureCode
  <2>4. Promise!Close(r, IF exchange[r].failed = {} THEN "unavailable" ELSE "failed")
    BY <1>1, <2>1, <2>3 DEF Promise!Close
  <2>5. QED
    BY <2>2, <2>4 DEF Promise!GiveUp
<1>6. QED
  BY <1>3, <1>4, <1>5

LEMMA StepPromise ==
  ASSUME RequestsOK, [GuardianNext]_guardianVars
  PROVE  [Promise!Next]_exchange
<1>1. ASSUME NEW r \in Requests, Arrive(r)
      PROVE  Promise!Next
  BY <1>1, EnterPromise DEF Arrive, Promise!Next
<1>2. ASSUME NEW r \in Requests, Handle(r) \/ Await(r) \/ Expire(r) \/ Interrupt(r)
      PROVE  [Promise!Next]_exchange
  <2>1. CASE ReportAttempt(r)
    BY <2>1, ReportAttemptPromise DEF Promise!Next
  <2>2. CASE Commit(r)
    BY <2>2, CommitPromise DEF Promise!Next
  <2>3. CASE RelayEnds(r) \/ ReportInterruption(r) \/ WriteFailure(r)
    BY <2>3, AnswerPromise DEF Promise!Next
  <2>4. CASE \/ LeaveLoop(r) \/ Return(r) \/ RelayBreaks(r) \/ ClientStalls(r) \/ ClientReadsOn(r)
             \/ \E cause \in {"expired", "canceled"} : EndContext(r, cause)
             \/ \E w \in Workers : Choose(r, w)
    BY <2>4, QuietSteps
  <2>5. QED
    BY <1>2, <2>1, <2>2, <2>3, <2>4
       DEF Handle, Await, Expire, Interrupt, HandlerStep, UpstreamStep, ClientStep,
           DeadlineExpires, ClientLeaves
<1>3. UNCHANGED req => UNCHANGED exchange
  BY DEF exchange
<1>4. CASE Check \/ TimePasses \/ WorkerChanges \/ Signal \/ MainStep \/ ServerFails
  BY <1>3, <1>4
     DEF Check, TimePasses, WorkerChanges, Signal, MainStep, StartDrain, Drained,
         ShutdownTimesOut, ServerFails, MoveTo
<1>5. CASE UNCHANGED guardianVars
  BY <1>3, <1>5 DEF guardianVars
<1>6. QED
  BY <1>1, <1>2, <1>4, <1>5 DEF GuardianNext

LEMMA InitPromise == GuardianInit => Promise!Init
<1>1. "none" \in Replies
  BY DEF Replies
<1>2. GuardianInit => exchange = [r \in Requests |-> Promise!Closed("none")]
  BY <1>1, LocalsPromise DEF GuardianInit, ProxyInit, exchange
<1>3. QED
  BY <1>2 DEF Promise!Init

(* For any number of concurrent requests: no worker is asked twice for one *)
(* request, none once a response has been committed, no more than          *)
(* MaxAttempts fail, and 503 is answered only if none was asked.           *)
THEOREM PromiseKept == GuardianSafetySpec => ImplementsExchange
  BY InitPromise, StepPromise, InitRequestsOK, GuardianStepRequestsOK, PTL
     DEF GuardianSafetySpec, ImplementsExchange, Promise!Spec
-----------------------------------------------------------------------------
(* Progress and the causes of errors.  Both are about one handler at a     *)
(* time: a step of the process is a step of one handler, or of none.       *)

HandlerMoves(r) == Enter(r) \/ HandlerStep(r) \/ UpstreamStep(r) \/ ClientStep(r)

LEMMA OthersStay ==
  ASSUME RequestsOK, NEW r \in Requests, HandlerMoves(r), NEW s \in Requests, s # r
  PROVE  req'[s] = req[s]
<1>1. req \in [Requests -> Handler]
  BY DEF RequestsOK
<1>2. CASE Enter(r)
  BY <1>1, <1>2 DEF Enter, Refuse, Admit, Answer
<1>3. CASE HandlerStep(r)
  BY <1>1, <1>3
     DEF HandlerStep, Choose, LeaveLoop, ReportAttempt, Commit, ReportInterruption, WriteFailure, Answer
<1>4. CASE UpstreamStep(r)
  BY <1>1, <1>4 DEF UpstreamStep, Return, RelayEnds, RelayBreaks, Answer
<1>5. CASE ClientStep(r)
  BY <1>1, <1>5 DEF ClientStep, DeadlineExpires, ClientLeaves, EndContext, ClientStalls, ClientReadsOn
<1>6. QED
  BY <1>2, <1>3, <1>4, <1>5 DEF HandlerMoves

LEMMA StepIsOneHandlers ==
  ASSUME RequestsOK, [GuardianNext]_guardianVars
  PROVE  UNCHANGED req \/ \E r \in Requests : HandlerMoves(r)
<1>1. ASSUME NEW r \in Requests, Arrive(r) \/ Handle(r) \/ Await(r) \/ Expire(r) \/ Interrupt(r)
      PROVE  HandlerMoves(r)
  BY <1>1 DEF Arrive, Handle, Await, Expire, Interrupt, HandlerMoves, ClientStep
<1>2. CASE Check \/ TimePasses \/ WorkerChanges \/ Signal \/ MainStep \/ ServerFails
  BY <1>2
     DEF Check, TimePasses, WorkerChanges, Signal, MainStep, StartDrain, Drained,
         ShutdownTimesOut, ServerFails, MoveTo
<1>3. CASE UNCHANGED guardianVars
  BY <1>3 DEF guardianVars
<1>4. QED
  BY <1>1, <1>2, <1>3 DEF GuardianNext

Advances(q, after) ==
  q.pc # "idle" =>
    \/ after = [q EXCEPT !.ctx = after.ctx]
    \/ {q.pc, after.pc} = {"relaying", "blocked"}
    \/ Remaining(after) < Remaining(q)

(* Replying is always the last step. *)
LEMMA AnswerAdvances ==
  ASSUME RequestsOK, NEW r \in Requests, NEW reply, Answer(r, reply), req[r].pc # "idle"
  PROVE  Advances(req[r], req'[r])
<1>1. req[r] \in Handler
  BY DEF RequestsOK
<1>2. Remaining(req[r]) > 0
  BY <1>1, ProxyAssumption DEF Remaining, Handler, Places
<1>3. Remaining(req'[r]) = 0
  BY DEF Answer, Locals, Remaining, RequestsOK
<1>4. QED
  BY <1>2, <1>3 DEF Advances

LEMMA LoopAdvances ==
  ASSUME RequestsOK, NEW r \in Requests,
         (\E w \in Workers : Choose(r, w)) \/ LeaveLoop(r) \/ Return(r) \/ ReportAttempt(r) \/ Commit(r)
  PROVE  Advances(req[r], req'[r])
<1>1. req[r] \in Handler /\ req \in [Requests -> Handler]
  BY DEF RequestsOK
<1>2. req[r].attempt \in Nat /\ req[r].attempt <= MaxAttempts + 1 /\ MaxAttempts \in Nat
  BY <1>1, ProxyAssumption DEF Handler
<1>3. ASSUME NEW w \in Workers, Choose(r, w)
      PROVE  Remaining(req'[r]) < Remaining(req[r])
  <2>1. /\ req[r].pc = "choosing" /\ req'[r].attempt = req[r].attempt
        /\ req'[r].pc \in {"waiting", "returned"}
    BY <1>1, <1>3 DEF Choose, Handler
  <2>2. QED
    BY <1>2, <2>1 DEF Remaining
<1>4. ASSUME LeaveLoop(r)
      PROVE  Remaining(req'[r]) < Remaining(req[r])
  <2>1. req[r].pc = "choosing" /\ req'[r].pc = "failing"
    BY <1>1, <1>4 DEF LeaveLoop, Handler
  <2>2. QED
    BY <1>2, <2>1 DEF Remaining
<1>5. ASSUME Return(r)
      PROVE  Remaining(req'[r]) < Remaining(req[r])
  <2>1. PICK o : req' = [req EXCEPT ![r].pc = "returned", ![r].outcome = o]
    BY <1>5 DEF Return
  <2>2. req[r].pc = "waiting" /\ req'[r].pc = "returned" /\ req'[r].attempt = req[r].attempt
    BY <1>1, <1>5, <2>1 DEF Return, Handler
  <2>3. QED
    BY <1>2, <2>2 DEF Remaining
<1>6. ASSUME ReportAttempt(r)
      PROVE  Remaining(req'[r]) < Remaining(req[r])
  <2>1. req[r].pc = "returned" /\ req'[r].pc = "choosing" /\ req'[r].attempt = req[r].attempt + 1
    BY <1>1, <1>6 DEF ReportAttempt, Handler
  <2>2. QED
    BY <1>2, <2>1 DEF Remaining
<1>7. ASSUME Commit(r)
      PROVE  Remaining(req'[r]) < Remaining(req[r])
  <2>1. req[r].pc = "returned" /\ req'[r].pc = "relaying"
    BY <1>1, <1>7 DEF Commit, Handler
  <2>2. QED
    BY <1>2, <2>1 DEF Remaining
<1>8. QED
  BY <1>3, <1>4, <1>5, <1>6, <1>7 DEF Advances

LEMMA RelayAdvances ==
  ASSUME RequestsOK, NEW r \in Requests,
         RelayBreaks(r) \/ ClientStalls(r) \/ ClientReadsOn(r)
         \/ (\E cause \in {"expired", "canceled"} : EndContext(r, cause))
  PROVE  Advances(req[r], req'[r])
<1>1. req[r] \in Handler /\ req \in [Requests -> Handler]
  BY DEF RequestsOK
<1>2. CASE RelayBreaks(r)
  <2>1. req[r].pc \in {"relaying", "blocked"} /\ req'[r].pc = "interrupted"
    BY <1>1, <1>2 DEF RelayBreaks, Handler
  <2>2. QED
    BY <2>1 DEF Remaining, Advances
<1>3. CASE ClientStalls(r) \/ ClientReadsOn(r)
  <2>1. {req[r].pc, req'[r].pc} = {"relaying", "blocked"}
    BY <1>1, <1>3 DEF ClientStalls, ClientReadsOn, Handler
  <2>2. QED
    BY <2>1 DEF Advances
<1>4. ASSUME NEW cause \in {"expired", "canceled"}, EndContext(r, cause)
      PROVE  req'[r] = [req[r] EXCEPT !.ctx = req'[r].ctx]
  BY <1>1, <1>4 DEF EndContext, Handler
<1>5. QED
  BY <1>2, <1>3, <1>4 DEF Advances

LEMMA HandlerAdvances ==
  ASSUME RequestsOK, NEW r \in Requests, HandlerMoves(r)
  PROVE  Advances(req[r], req'[r])
<1>1. CASE Enter(r)
  BY <1>1 DEF Enter, Refuse, Admit, Advances
<1>2. CASE RelayEnds(r) \/ ReportInterruption(r) \/ WriteFailure(r)
  BY <1>2, AnswerAdvances DEF RelayEnds, ReportInterruption, WriteFailure
<1>3. QED
  BY <1>1, <1>2, LoopAdvances, RelayAdvances
     DEF HandlerMoves, HandlerStep, UpstreamStep, ClientStep, DeadlineExpires, ClientLeaves

(* Only finitely many steps separate a request from its answer, whatever   *)
(* the workers do and the other requests do to the pool: the measure that  *)
(* the liveness of the proxy rests on never grows.                         *)
THEOREM RequestsDescend == GuardianSafetySpec => RequestsAdvance
<1>1. ASSUME RequestsOK, [GuardianNext]_guardianVars
      PROVE  [\A r \in Requests : Advances(req[r], req'[r])]_proxyVars
  <2>1. ASSUME NEW r \in Requests
        PROVE  Advances(req[r], req[r])
    <3>1. req[r] = [req[r] EXCEPT !.ctx = req[r].ctx]
      BY <1>1 DEF RequestsOK, Handler
    <3>2. QED
      BY <3>1 DEF Advances
  <2>2. ASSUME NEW r \in Requests, HandlerMoves(r), NEW s \in Requests
        PROVE  Advances(req[s], req'[s])
    BY <1>1, <2>1, <2>2, HandlerAdvances, OthersStay
  <2>3. QED
    BY <1>1, <2>2, StepIsOneHandlers DEF proxyVars
<1>2. RequestsOK /\ [GuardianNext]_guardianVars
        => [\A r \in Requests :
              LET q == req[r]
                  after == req'[r]
              IN q.pc # "idle" =>
                   \/ after = [q EXCEPT !.ctx = after.ctx]
                   \/ {q.pc, after.pc} = {"relaying", "blocked"}
                   \/ Remaining(after) < Remaining(q)]_proxyVars
  BY <1>1 DEF Advances
<1>3. QED
  BY <1>2, InitRequestsOK, GuardianStepRequestsOK, PTL DEF GuardianSafetySpec, RequestsAdvance
-----------------------------------------------------------------------------
(* What the errors of client.Do tell.  An error of the context is found at *)
(* a handler only if the context of that request has ended, and since the  *)
(* first cause stays, it names the same cause from then on.                *)

Errs(q) == {q.outcome, q.lastFailure}

CauseOK(q) ==
  /\ "deadline" \in Errs(q) => q.ctx = "expired"
  /\ "canceled" \in Errs(q) => q.ctx = "canceled"

CausesOK == \A r \in Requests : CauseOK(req[r])

(* The results of client.Do for request r. *)
Results(r) ==
  ChatOutcomes(mode[req[r].worker]) \cup (IF req[r].ctx = "live" THEN {} ELSE {ContextError(r)})

(* How a step changes what a handler knows: it starts afresh, it learns of *)
(* the end of its context, it stays as it is or forgets something, or it   *)
(* gets a result.                                                          *)
LEMMA WhatIsLearned ==
  ASSUME RequestsOK, NEW r \in Requests, HandlerMoves(r)
  PROVE  \/ req'[r].outcome = "none" /\ req'[r].lastFailure = "none"
         \/ req[r].ctx = "live" /\ Errs(req'[r]) = Errs(req[r])
         \/ req'[r].ctx = req[r].ctx /\ Errs(req'[r]) \subseteq Errs(req[r]) \cup {"none"}
         \/ /\ req'[r].ctx = req[r].ctx /\ req'[r].lastFailure = req[r].lastFailure
            /\ req'[r].outcome = "none" \/ (req'[r].outcome = ContextError(r) /\ req[r].ctx # "live")
         \/ /\ req'[r].ctx = req[r].ctx /\ req'[r].lastFailure = req[r].lastFailure
            /\ req[r].pc = "waiting" /\ req'[r].outcome \in Results(r)
<1>1. req \in [Requests -> Handler] /\ req[r] \in Handler
  BY DEF RequestsOK
<1>2. CASE Enter(r) \/ RelayEnds(r) \/ ReportInterruption(r) \/ WriteFailure(r)
  BY <1>1, <1>2 DEF Enter, Refuse, Admit, RelayEnds, ReportInterruption, WriteFailure, Answer, Locals
<1>3. ASSUME NEW cause, EndContext(r, cause)
      PROVE  req[r].ctx = "live" /\ Errs(req'[r]) = Errs(req[r])
  BY <1>1, <1>3 DEF EndContext, Handler, Errs
<1>4. CASE LeaveLoop(r) \/ RelayBreaks(r) \/ ClientStalls(r) \/ ClientReadsOn(r)
  <2>1. req'[r].ctx = req[r].ctx /\ Errs(req'[r]) = Errs(req[r])
    BY <1>1, <1>4 DEF LeaveLoop, RelayBreaks, ClientStalls, ClientReadsOn, Handler, Errs
  <2>2. QED
    BY <2>1
<1>5. CASE ReportAttempt(r)
  <2>1. req'[r].ctx = req[r].ctx /\ req'[r].outcome = "none" /\ req'[r].lastFailure = req[r].outcome
    BY <1>1, <1>5 DEF ReportAttempt, Handler
  <2>2. QED
    BY <2>1 DEF Errs
<1>6. CASE Commit(r)
  BY <1>1, <1>6 DEF Commit, Handler
<1>7. ASSUME NEW w \in Workers, Choose(r, w)
      PROVE  /\ req'[r].ctx = req[r].ctx /\ req'[r].lastFailure = req[r].lastFailure
             /\ req'[r].outcome = "none" \/ (req'[r].outcome = ContextError(r) /\ req[r].ctx # "live")
  <2>1. /\ req'[r].ctx = req[r].ctx /\ req'[r].lastFailure = req[r].lastFailure
        /\ req'[r].outcome = IF req[r].ctx = "live" THEN "none" ELSE ContextError(r)
    BY <1>1, <1>7 DEF Choose, Handler
  <2>2. QED
    BY <2>1
<1>8. CASE Return(r)
  <2>1. PICK o \in Results(r) : req' = [req EXCEPT ![r].pc = "returned", ![r].outcome = o]
    BY <1>8 DEF Return, Results
  <2>2. req'[r].ctx = req[r].ctx /\ req'[r].lastFailure = req[r].lastFailure /\ req'[r].outcome = o
    BY <1>1, <2>1 DEF Handler
  <2>3. QED
    BY <1>8, <2>2 DEF Return
<1>9. QED
  BY <1>2, <1>3, <1>4, <1>5, <1>6, <1>7, <1>8
     DEF HandlerMoves, Enter, HandlerStep, UpstreamStep, ClientStep, DeadlineExpires, ClientLeaves

LEMMA ContextErrorNamesCause ==
  ASSUME RequestsOK, NEW r \in Requests, req[r].ctx # "live"
  PROVE  /\ ContextError(r) = "deadline" <=> req[r].ctx = "expired"
         /\ ContextError(r) = "canceled" <=> req[r].ctx = "canceled"
         /\ ContextError(r) # "dial_timeout"
<1>1. req[r].ctx \in {"expired", "canceled"}
  BY DEF RequestsOK, Handler
<1>2. QED
  BY <1>1 DEF ContextError

LEMMA HandlerKeepsCause ==
  ASSUME RequestsOK, CausesOK, NEW r \in Requests, HandlerMoves(r)
  PROVE  CauseOK(req'[r])
<1>1. CauseOK(req[r])
  BY DEF CausesOK
<1>2. ASSUME NEW o \in Results(r)
      PROVE  (o = "deadline" => req[r].ctx = "expired") /\ (o = "canceled" => req[r].ctx = "canceled")
  <2>1. o \in ChatOutcomes(mode[req[r].worker]) => o \notin {"deadline", "canceled"}
    BY DEF ChatOutcomes
  <2>2. QED
    BY <1>2, <2>1, ContextErrorNamesCause DEF Results
<1>3. QED
  BY <1>1, <1>2, WhatIsLearned, ContextErrorNamesCause DEF CauseOK, Errs

LEMMA StepCauses ==
  ASSUME RequestsOK, CausesOK, [GuardianNext]_guardianVars
  PROVE  CausesOK'
<1>1. ASSUME NEW r \in Requests, HandlerMoves(r)
      PROVE  CausesOK'
  BY <1>1, HandlerKeepsCause, OthersStay DEF CausesOK
<1>2. QED
  BY <1>1, StepIsOneHandlers DEF CausesOK

LEMMA InitCauses == GuardianInit => CausesOK
  BY DEF GuardianInit, ProxyInit, Locals, CausesOK, CauseOK, Errs

(* A client is told REQUEST_TIMEOUT only if the deadline of its request    *)
(* has expired or the last worker could not be reached in time.            *)
THEOREM TimeoutExplained == GuardianSafetySpec => []TimeoutHasCause
<1>1. CausesOK => TimeoutHasCause
  BY DEF CausesOK, CauseOK, Errs, TimeoutHasCause, FailureCode, DeadlineFailures
<1>2. QED
  BY <1>1, InitCauses, StepCauses, InitRequestsOK, GuardianStepRequestsOK, PTL DEF GuardianSafetySpec

(* Where every worker can be reached, the dialer's timeout is out of the   *)
(* way and 504 means what docs/ARCHITECTURE.md says: the dialer's timeout  *)
(* is the only thing that stands between the code and that sentence.       *)
DialsOK == \A r \in Requests : "dial_timeout" \notin Errs(req[r])

LEMMA StepDials ==
  ASSUME "down" \notin Modes, RequestsOK, UpstreamTypeOK, DialsOK, [GuardianNext]_guardianVars
  PROVE  DialsOK'
<1>1. ASSUME NEW r \in Requests, req[r].pc = "waiting", NEW o \in Results(r)
      PROVE  o # "dial_timeout"
  <2>1. req[r].worker \in Workers
    BY <1>1 DEF RequestsOK, HandlerOK, Handler
  <2>2. mode[req[r].worker] # "down"
    BY <2>1 DEF UpstreamTypeOK
  <2>3. "dial_timeout" \notin ChatOutcomes(mode[req[r].worker])
    BY <2>2 DEF ChatOutcomes
  <2>4. QED
    BY <1>1, <2>3, ContextErrorNamesCause DEF Results
<1>2. ASSUME NEW r \in Requests, HandlerMoves(r)
      PROVE  "dial_timeout" \notin Errs(req'[r])
  BY <1>1, <1>2, WhatIsLearned, ContextErrorNamesCause DEF DialsOK, Errs
<1>3. ASSUME NEW r \in Requests, HandlerMoves(r)
      PROVE  DialsOK'
  BY <1>2, <1>3, OthersStay DEF DialsOK
<1>4. QED
  BY <1>3, StepIsOneHandlers DEF DialsOK

THEOREM ReachableMeansDeadline ==
  ASSUME "down" \notin Modes
  PROVE  GuardianSafetySpec => []TimeoutMeansDeadline
<1>1. GuardianInit => DialsOK
  BY DEF GuardianInit, ProxyInit, Locals, DialsOK, Errs
<1>2. DialsOK /\ TimeoutHasCause => TimeoutMeansDeadline
  BY DEF DialsOK, Errs, TimeoutHasCause, TimeoutMeansDeadline
<1>3. CheckerOK => UpstreamTypeOK
  BY DEF CheckerOK
<1>4. QED
  BY <1>1, <1>2, <1>3, StepDials, TimeoutExplained, InitRequestsOK, InitCheckerOK,
     GuardianStepRequestsOK, GuardianStepCheckerOK, PTL DEF GuardianSafetySpec
=============================================================================
