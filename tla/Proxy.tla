-------------------------------- MODULE Proxy --------------------------------
(***************************************************************************)
(* The retrying proxy: ServeHTTP of internal/guardian/proxy.go, run by any *)
(* number of handler goroutines that share the pool.                       *)
(*                                                                         *)
(* Every call of a pool method is one action, since it takes the pool's    *)
(* lock; client.Do and the copying of the response body are split into a   *)
(* start and an end, so that other goroutines, probes, the request's own   *)
(* deadline and the client may act in between.  A handler is at            *)
(*                                                                         *)
(*   idle         no request, or one that has been answered                *)
(*   choosing     the head of the attempt loop                             *)
(*   waiting      in client.Do                                             *)
(*   returned     client.Do has returned, its result is not acted on yet   *)
(*   failing      past the loop, no response found                         *)
(*   relaying     response headers committed, copying the body             *)
(*   blocked      in w.Write, to a client that has stopped reading         *)
(*   interrupted  the copy failed, not reported yet                        *)
(*                                                                         *)
(* The request body, headers, metrics and log lines are left out: nothing  *)
(* below depends on them.                                                  *)
(***************************************************************************)
EXTENDS Upstream

CONSTANTS
  Requests,        \* the handler goroutines
  MaxAttempts,     \* options.MaxAttempts
  Interruptions    \* what may happen to a request under way in this model

(* NewProxy is given a positive number of attempts by the configuration.   *)
(* A request may outlive options.RequestTimeout ("expired"), lose its      *)
(* client ("canceled"), or have a client that stops reading ("stalled").   *)
ASSUME ProxyAssumption ==
  /\ MaxAttempts \in Nat \ {0}
  /\ Interruptions \subseteq {"expired", "canceled", "stalled"}

NoWorker == -1

(* Results of client.Do: a response, or the error it returned.             *)
Failures == {"5xx", "transport", "dial_timeout", "deadline", "canceled"}

(* Error codes written before the attempt loop and after it, and the two   *)
(* ways a forwarded response can end.                                      *)
Refusals == {"RATE_LIMITED", "REQUEST_TOO_LARGE", "INVALID_REQUEST"}
Errors == {"NO_HEALTHY_WORKER", "REQUEST_TIMEOUT", "UPSTREAM_FAILURE"}
Replies == Refusals \cup Errors \cup {"none", "UPSTREAM", "TRUNCATED"}

VARIABLE req   \* the locals of each handler

proxyVars == <<req>>

(* The locals of a handler that has chosen no worker. *)
Locals(pc, attempt, reply) ==
  [pc |-> pc, worker |-> NoWorker, attempted |-> {}, attempt |-> attempt,
   outcome |-> "none", lastFailure |-> "none", ctx |-> "live", reply |-> reply]

ProxyInit == req = [r \in Requests |-> Locals("idle", 0, "none")]

(* The handler returns; its locals are gone, what the client got is kept.  *)
Answer(r, reply) == req' = [req EXCEPT ![r] = Locals("idle", 0, reply)]

-----------------------------------------------------------------------------
(* Before the loop: rate limit, declared length, body.                     *)

Refuse(r) ==
  /\ req[r].pc = "idle"
  /\ \E code \in Refusals : Answer(r, code)
  /\ UNCHANGED <<poolVars, mode>>

Admit(r) ==
  /\ req[r].pc = "idle"
  /\ req' = [req EXCEPT ![r] = Locals("choosing", 1, "none")]
  /\ UNCHANGED <<poolVars, mode>>

-----------------------------------------------------------------------------
(* The request context: context.WithTimeout over the client's context.     *)
(* The first of the two causes stays.                                      *)

ContextMatters(r) ==
  req[r].pc \in {"choosing", "waiting", "returned", "failing", "relaying", "blocked"}

EndContext(r, cause) ==
  /\ cause \in Interruptions
  /\ ContextMatters(r)
  /\ req[r].ctx = "live"
  /\ req' = [req EXCEPT ![r].ctx = cause]
  /\ UNCHANGED <<poolVars, mode>>

DeadlineExpires(r) == EndContext(r, "expired")
ClientLeaves(r) == EndContext(r, "canceled")

(* Mutant: the end of the context is always taken for the deadline.        *)
ContextErrorBlind(r) == "deadline"

ContextError(r) == IF req[r].ctx = "expired" THEN "deadline" ELSE "canceled"

-----------------------------------------------------------------------------
(* The attempt loop.                                                       *)

(* Pool.Next excludes what this request has tried; client.Do refuses a     *)
(* context that has ended without contacting the worker.                   *)
Choose(r, w) ==
  /\ req[r].pc = "choosing"
  /\ req[r].attempt <= MaxAttempts
  /\ NextWorker(w, req[r].attempted)
  /\ req' = [req EXCEPT ![r].worker = w,
                        ![r].attempted = @ \cup {w},
                        ![r].pc = IF req[r].ctx = "live" THEN "waiting" ELSE "returned",
                        ![r].outcome = IF req[r].ctx = "live" THEN "none" ELSE ContextError(r)]
  /\ UNCHANGED mode

(* Mutant: one attempt too few.                                            *)
LeaveLoopEarly(r) ==
  /\ req[r].pc = "choosing"
  /\ req[r].attempt >= MaxAttempts \/ NoneSelectable(req[r].attempted)
  /\ req' = [req EXCEPT ![r].pc = "failing"]
  /\ UNCHANGED <<poolVars, mode>>

(* The loop's condition fails, or Next finds no worker.                    *)
LeaveLoop(r) ==
  /\ req[r].pc = "choosing"
  /\ req[r].attempt > MaxAttempts \/ NoneSelectable(req[r].attempted)
  /\ req' = [req EXCEPT ![r].pc = "failing"]
  /\ UNCHANGED <<poolVars, mode>>

(* Mutant: the upstream request is built without the context.              *)
ReturnIgnoresContext(r) ==
  /\ req[r].pc = "waiting"
  /\ \E o \in ChatOutcomes(mode[req[r].worker]) :
       req' = [req EXCEPT ![r].pc = "returned", ![r].outcome = o]
  /\ UNCHANGED <<poolVars, mode>>

(* client.Do returns what the worker did, or the end of the context.       *)
Return(r) ==
  /\ req[r].pc = "waiting"
  /\ \E o \in ChatOutcomes(mode[req[r].worker])
              \cup (IF req[r].ctx = "live" THEN {} ELSE {ContextError(r)}) :
       req' = [req EXCEPT ![r].pc = "returned", ![r].outcome = o]
  /\ UNCHANGED <<poolVars, mode>>

(* Mutant: a canceled attempt is not counted.                              *)
ReportAttemptFree(r) ==
  /\ req[r].pc = "returned"
  /\ req[r].outcome # "ok"
  /\ ReportFailure(req[r].worker)
  /\ req' = [req EXCEPT ![r].pc = "choosing",
                        ![r].attempt = IF req[r].outcome = "canceled" THEN @ ELSE @ + 1,
                        ![r].lastFailure = req[r].outcome,
                        ![r].outcome = "none",
                        ![r].worker = NoWorker]
  /\ UNCHANGED mode

(* A transport error or a 5xx status: charge the worker, go round again.   *)
(* The body of a 5xx is read and thrown away first, until it or the        *)
(* context ends; a handler stays at "returned" for that long.              *)
ReportAttempt(r) ==
  /\ req[r].pc = "returned"
  /\ req[r].outcome # "ok"
  /\ ReportFailure(req[r].worker)
  /\ req' = [req EXCEPT ![r].pc = "choosing",
                        ![r].attempt = @ + 1,
                        ![r].lastFailure = req[r].outcome,
                        ![r].outcome = "none",
                        ![r].worker = NoWorker]
  /\ UNCHANGED mode

(* Any other response: credit the worker, forward status and headers.      *)
Commit(r) ==
  /\ req[r].pc = "returned"
  /\ req[r].outcome = "ok"
  /\ ReportSuccess(req[r].worker)
  /\ req' = [req EXCEPT ![r].pc = "relaying",
                        ![r].outcome = "none",
                        ![r].lastFailure = "none",
                        ![r].reply = "UPSTREAM"]
  /\ UNCHANGED mode

-----------------------------------------------------------------------------
(* copyStreaming: the body ends, or reading or writing it fails.  A client *)
(* that has left makes the write fail and ends the context, so that the    *)
(* read fails too.                                                         *)

RelayEnds(r) ==
  /\ req[r].pc = "relaying"
  /\ StreamCanEnd(mode[req[r].worker])
  /\ Answer(r, "UPSTREAM")
  /\ UNCHANGED <<poolVars, mode>>

(* Mutant: the server is given a write timeout, as http.Server would take. *)
RelayBreaksOnStall(r) ==
  /\ \/ req[r].pc = "relaying" /\ (StreamCanBreak(mode[req[r].worker]) \/ req[r].ctx # "live")
     \/ req[r].pc = "blocked"
  /\ req' = [req EXCEPT ![r].pc = "interrupted"]
  /\ UNCHANGED <<poolVars, mode>>

RelayBreaks(r) ==
  /\ \/ req[r].pc = "relaying" /\ (StreamCanBreak(mode[req[r].worker]) \/ req[r].ctx # "live")
     \/ req[r].pc = "blocked" /\ req[r].ctx = "canceled"
  /\ req' = [req EXCEPT ![r].pc = "interrupted"]
  /\ UNCHANGED <<poolVars, mode>>

(* The server has no write timeout, and the end of the request's deadline  *)
(* does not wake a goroutine that is writing to the client.                *)
ClientStalls(r) ==
  /\ "stalled" \in Interruptions
  /\ req[r].pc = "relaying"
  /\ req' = [req EXCEPT ![r].pc = "blocked"]
  /\ UNCHANGED <<poolVars, mode>>

ClientReadsOn(r) ==
  /\ req[r].pc = "blocked"
  /\ req' = [req EXCEPT ![r].pc = "relaying"]
  /\ UNCHANGED <<poolVars, mode>>

(* Mutant: a broken response is retried like an attempt that failed.       *)
ReportInterruptionRetries(r) ==
  /\ req[r].pc = "interrupted"
  /\ ReportFailure(req[r].worker)
  /\ req' = [req EXCEPT ![r].pc = "choosing", ![r].attempt = @ + 1, ![r].worker = NoWorker]
  /\ UNCHANGED mode

ReportInterruption(r) ==
  /\ req[r].pc = "interrupted"
  /\ ReportFailure(req[r].worker)
  /\ Answer(r, "TRUNCATED")
  /\ UNCHANGED mode

-----------------------------------------------------------------------------
(* After the loop.                                                         *)

(* The failures for which errors.Is(err, context.DeadlineExceeded) holds.  *)
DeadlineFailures == {"deadline", "dial_timeout"}

FailureCode(r) ==
  IF req[r].attempted = {} THEN "NO_HEALTHY_WORKER"
  ELSE IF req[r].lastFailure \in DeadlineFailures \/ req[r].ctx = "expired"
       THEN "REQUEST_TIMEOUT"
       ELSE "UPSTREAM_FAILURE"

WriteFailure(r) ==
  /\ req[r].pc = "failing"
  /\ Answer(r, FailureCode(r))
  /\ UNCHANGED <<poolVars, mode>>

-----------------------------------------------------------------------------
(* The handler's own steps, those that wait for a worker, those of the     *)
(* client and its deadline.                                                *)

HandlerStep(r) ==
  \/ \E w \in Workers : Choose(r, w)
  \/ LeaveLoop(r)
  \/ ReportAttempt(r)
  \/ Commit(r)
  \/ ReportInterruption(r)
  \/ WriteFailure(r)

UpstreamStep(r) == Return(r) \/ RelayEnds(r) \/ RelayBreaks(r)

ClientStep(r) ==
  \/ DeadlineExpires(r)
  \/ ClientLeaves(r)
  \/ ClientStalls(r)
  \/ ClientReadsOn(r)

Enter(r) == Refuse(r) \/ Admit(r)

-----------------------------------------------------------------------------
(* What a handler has promised its client, as its locals tell.             *)

StageOf(q) ==
  CASE q.pc = "idle" -> "closed"
    [] q.pc \in {"choosing", "waiting", "returned", "failing"} -> "open"
    [] OTHER -> "committed"

OutcomeOf(q) ==
  IF q.pc # "idle" THEN "none"
  ELSE CASE q.reply = "none" -> "none"
         [] q.reply \in Refusals -> "refused"
         [] q.reply = "UPSTREAM" -> "whole"
         [] q.reply = "TRUNCATED" -> "cut"
         [] q.reply = "NO_HEALTHY_WORKER" -> "unavailable"
         [] OTHER -> "failed"

ExchangeOf(q) ==
  [stage |-> StageOf(q),
   failed |-> q.attempted \ {q.worker},
   source |-> IF StageOf(q) = "committed" THEN q.worker ELSE NoWorker,
   outcome |-> OutcomeOf(q)]

exchange == [r \in Requests |-> ExchangeOf(req[r])]

Promise == INSTANCE Exchange WITH
       Requests <- Requests, Workers <- Workers, Nobody <- NoWorker,
       MaxAttempts <- MaxAttempts, exchange <- exchange

-----------------------------------------------------------------------------
(* Properties.                                                             *)

(* The locals of a handler have the shape its place in ServeHTTP implies.  *)
ProxyTypeOK ==
  \A r \in Requests :
    LET q == req[r] IN
    /\ q.pc \in {"idle", "choosing", "waiting", "returned", "failing",
                 "relaying", "blocked", "interrupted"}
    /\ q.attempted \subseteq Workers
    /\ q.attempt \in 0 .. MaxAttempts + 1
    /\ q.ctx \in {"live", "expired", "canceled"}
    /\ q.outcome \in Failures \cup {"none", "ok"}
    /\ q.lastFailure \in Failures \cup {"none"}
    /\ q.reply \in Replies
    /\ IF q.pc \in {"idle", "choosing", "failing"}
       THEN q.worker = NoWorker ELSE q.worker \in q.attempted
    /\ q.outcome # "none" <=> q.pc = "returned"

(* What X-Guardian-Attempts reports, the attempt counter, is the number of *)
(* different workers the request was sent to: no worker is tried twice,    *)
(* however its health changes meanwhile, and no attempt is skipped.        *)
AttemptsAreWorkers ==
  \A r \in Requests :
    LET tried == Cardinality(req[r].attempted) IN
    CASE req[r].pc = "idle" -> tried = 0
      [] req[r].pc \in {"choosing", "failing"} -> req[r].attempt = tried + 1
      [] OTHER -> req[r].attempt = tried /\ tried <= MaxAttempts

(* Every handler keeps the promise of Exchange, whatever the others do to  *)
(* the pool meanwhile: no worker is asked twice or after a response has    *)
(* been committed, and 503 is told from an error of workers that were asked.*)
ImplementsExchange == Promise!Spec

(* An upper bound of the steps that handler q has still to make: three for *)
(* each attempt it has left and five for the rest.                         *)
Remaining(q) ==
  LET attempts == 3 * (MaxAttempts + 1 - q.attempt)
  IN CASE q.pc = "idle" -> 0
       [] q.pc \in {"failing", "interrupted"} -> 1
       [] q.pc \in {"relaying", "blocked"} -> 2
       [] q.pc = "returned" -> attempts + 3
       [] q.pc = "waiting" -> attempts + 4
       [] OTHER -> attempts + 5

(* Whatever worker answers what and whenever the context ends, a request   *)
(* under way comes nearer to its end with every step but the end of its    *)
(* context: only a client that stops reading and goes on again holds it up.*)
RequestsAdvance ==
  [][\A r \in Requests :
       LET q == req[r]
           after == req'[r]
       IN q.pc # "idle" =>
            \/ after = [q EXCEPT !.ctx = after.ctx]
            \/ {q.pc, after.pc} = {"relaying", "blocked"}
            \/ Remaining(after) < Remaining(q)]_proxyVars

(* What client.Do returns for the end of the context, at whichever attempt,*)
(* is what ended the context of this very request, and 504 has no other    *)
(* cause but the dialer's timeout in the last attempt.                     *)
TimeoutHasCause ==
  \A r \in Requests :
    LET q == req[r] IN
    /\ "deadline" \in {q.outcome, q.lastFailure} => q.ctx = "expired"
    /\ "canceled" \in {q.outcome, q.lastFailure} => q.ctx = "canceled"
    /\ q.pc = "failing" /\ FailureCode(r) = "REQUEST_TIMEOUT" =>
         q.ctx = "expired" \/ q.lastFailure = "dial_timeout"

(* docs/ARCHITECTURE.md:33-34: 504 is for a request whose deadline has     *)
(* expired, 502 for attempts that all failed.  The code takes any error    *)
(* that matches context.DeadlineExceeded for the former, and the dialer's  *)
(* own timeout matches it too.                                             *)
TimeoutMeansDeadline ==
  \A r \in Requests :
    req[r].pc = "failing" /\ FailureCode(r) = "REQUEST_TIMEOUT" => req[r].ctx = "expired"
=============================================================================
