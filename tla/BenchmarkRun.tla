----------------------------- MODULE BenchmarkRun -----------------------------
(***************************************************************************)
(* The load benchmark: Run of internal/benchmark/run.go under the context  *)
(* of cmd/benchmark, which an interrupt cancels.                           *)
(*                                                                         *)
(* After the warmup, options.Concurrency goroutines share an atomic index, *)
(* a slice with one slot per measured request, and an error that is set    *)
(* once and cancels their context.  A goroutine is at                      *)
(*                                                                         *)
(*   ready       the head of its loop, about to take an index              *)
(*   checking    holding an index, about to look at the context            *)
(*   requesting  in Request                                                *)
(*   failed      Request has returned an error, errOnce.Do is next         *)
(*   done        returned                                                  *)
(*                                                                         *)
(* What a sample holds is left out.                                        *)
(***************************************************************************)
EXTENDS Integers, FiniteSets

CONSTANTS
  Goroutines,   \* as many as options.Concurrency
  Measured,     \* options.Requests
  Warmup        \* options.Warmup

(* Run refuses anything else. *)
ASSUME BenchmarkAssumption ==
  /\ IsFiniteSet(Goroutines) /\ Goroutines # {}
  /\ Measured \in Nat \ {0}
  /\ Warmup \in Nat

Slots == 0 .. Measured - 1

VARIABLES
  stage,         \* of Run: "warmup", "measuring", or what it has returned
  warmed,        \* warmup requests that have succeeded
  worker,        \* the goroutines: place, index, cause of their failure
  taken,         \* next: indices handed out; it grows beyond Measured
  sampled,       \* the slots of samples that have been written
  firstErr,      \* the cause of firstErr
  interrupted    \* ctx: the benchmark has been interrupted

benchVars == <<stage, warmed, worker, taken, sampled, firstErr, interrupted>>

Places == {"ready", "checking", "requesting", "failed", "done"}
Causes == {"none", "server", "canceled"}

BenchInit ==
  /\ stage = "warmup"
  /\ warmed = 0
  /\ worker = [g \in Goroutines |-> [pc |-> "ready", index |-> 0, cause |-> "none"]]
  /\ taken = 0
  /\ sampled = {}
  /\ firstErr = "none"
  /\ interrupted = FALSE

(* requestContext.Err() # nil: setting firstErr calls cancel as well.      *)
ContextDone == firstErr # "none" \/ interrupted

-----------------------------------------------------------------------------
(* The sequential warmup.  A request that succeeds while the interrupt     *)
(* comes in is one that succeeds just before it.                           *)

WarmUp ==
  /\ stage = "warmup" /\ warmed < Warmup /\ ~interrupted
  /\ warmed' = warmed + 1
  /\ UNCHANGED <<stage, worker, taken, sampled, firstErr, interrupted>>

MoveOn(next) ==
  /\ stage' = next
  /\ UNCHANGED <<warmed, worker, taken, sampled, firstErr, interrupted>>

WarmupFails == stage = "warmup" /\ warmed < Warmup /\ MoveOn("error")

Launch == stage = "warmup" /\ warmed = Warmup /\ MoveOn("measuring")

-----------------------------------------------------------------------------
(* The goroutines. *)

At(g, place) == stage = "measuring" /\ worker[g].pc = place

Goto(g, place) == worker' = [worker EXCEPT ![g].pc = place]

Take(g, i, over) ==
  /\ worker' = [worker EXCEPT ![g].index = i, ![g].pc = IF over THEN "done" ELSE "checking"]
  /\ taken' = taken + 1
  /\ UNCHANGED <<stage, warmed, sampled, firstErr, interrupted>>

(* Mutant: the index is read and then advanced, not atomically.            *)
TakeIndexTwice(g) ==
  /\ At(g, "ready")
  /\ \E seen \in {taken, taken - 1} \cap Nat : Take(g, seen, seen >= Measured)

TakeIndex(g) == At(g, "ready") /\ Take(g, taken, taken >= Measured)

(* A goroutine that finds the context done drops its index and returns.    *)
CheckContext(g) ==
  /\ At(g, "checking")
  /\ Goto(g, IF ContextDone THEN "done" ELSE "requesting")
  /\ UNCHANGED <<stage, warmed, taken, sampled, firstErr, interrupted>>

(* The last bytes may have come in before the context ended.               *)
RequestSucceeds(g) ==
  /\ At(g, "requesting")
  /\ sampled' = sampled \cup {worker[g].index}
  /\ Goto(g, "ready")
  /\ UNCHANGED <<stage, warmed, taken, firstErr, interrupted>>

(* The server, the client's timeout or the end of the context.             *)
RequestFails(g) ==
  /\ At(g, "requesting")
  /\ \E why \in {"server"} \cup (IF ContextDone THEN {"canceled"} ELSE {}) :
       worker' = [worker EXCEPT ![g].pc = "failed", ![g].cause = why]
  /\ UNCHANGED <<stage, warmed, taken, sampled, firstErr, interrupted>>

Fail(g, err) ==
  /\ firstErr' = err
  /\ Goto(g, "done")
  /\ UNCHANGED <<stage, warmed, taken, sampled, interrupted>>

(* Mutants: the last error wins; errors are dropped; a second error waits  *)
(* for ever.                                                               *)
ReportLastError(g) == At(g, "failed") /\ Fail(g, worker[g].cause)
ReportNoError(g) == At(g, "failed") /\ Fail(g, firstErr)
ReportOneError(g) == At(g, "failed") /\ firstErr = "none" /\ Fail(g, worker[g].cause)

(* errOnce.Do: the first error is kept and cancels the others.  Nobody     *)
(* else gets past Do meanwhile, so this is one step.                       *)
ReportError(g) ==
  At(g, "failed") /\ Fail(g, IF firstErr = "none" THEN worker[g].cause ELSE firstErr)

GoroutineStep(g) ==
  \/ TakeIndex(g)
  \/ CheckContext(g)
  \/ RequestSucceeds(g) \/ RequestFails(g)
  \/ ReportError(g)

-----------------------------------------------------------------------------
(* workers.Wait() has returned. *)
Collect ==
  /\ \A g \in Goroutines : At(g, "done")
  /\ MoveOn(IF firstErr = "none" THEN "samples" ELSE "error")

Interrupt ==
  /\ ~interrupted /\ stage \in {"warmup", "measuring"}
  /\ interrupted' = TRUE
  /\ UNCHANGED <<stage, warmed, worker, taken, sampled, firstErr>>

BenchNext ==
  \/ WarmUp \/ WarmupFails \/ Launch
  \/ \E g \in Goroutines : GoroutineStep(g)
  \/ Collect
  \/ Interrupt

(* cmd/benchmark gives its client a timeout, so every request ends.        *)
BenchFairness ==
  /\ WF_benchVars(WarmUp \/ WarmupFails \/ Launch)
  /\ \A g \in Goroutines : WF_benchVars(GoroutineStep(g))
  /\ WF_benchVars(Collect)

BenchSpec == BenchInit /\ [][BenchNext]_benchVars /\ BenchFairness

-----------------------------------------------------------------------------
(* The measured requests as goroutines share them out.  The overshoot of   *)
(* the index does not count.                                               *)

Left == IF taken < Measured THEN Measured - taken ELSE 0
Busy == {g \in Goroutines : worker[g].pc \in {"checking", "requesting", "failed"}}

Share == INSTANCE WorkShare WITH
  Total <- Measured, left <- Left, busy <- Busy,
  done <- Cardinality(sampled), broken <- ContextDone

-----------------------------------------------------------------------------
(* Properties.                                                             *)

(* Slots are within the slice, and the shared index overshoots it by at    *)
(* most one per goroutine.                                                 *)
BenchTypeOK ==
  /\ stage \in {"warmup", "measuring", "samples", "error"}
  /\ warmed \in 0 .. Warmup
  /\ worker \in [Goroutines -> [pc : Places, index : Nat, cause : Causes]]
  /\ taken \in 0 .. Measured + Cardinality(Goroutines)
  /\ sampled \subseteq Slots
  /\ firstErr \in Causes
  /\ interrupted \in BOOLEAN

Holds(g) == worker[g].pc \in {"checking", "requesting"}

(* However the goroutines interleave, a slot is written by one request:    *)
(* no two hold the same index, and none holds one that has been written.   *)
SlotsNotShared ==
  \A g \in Goroutines : Holds(g) =>
    /\ worker[g].index \notin sampled
    /\ \A h \in Goroutines \ {g} : Holds(h) => worker[h].index # worker[g].index

(* The error that Run returns is never the cancellation it caused itself:  *)
(* whichever failing goroutine is first, the cause is named.               *)
ErrorIsGenuine == firstErr = "canceled" => interrupted

(* Without an interrupt, samples are returned only if every slot has been  *)
(* measured.                                                               *)
CompleteUnlessInterrupted == stage = "samples" /\ ~interrupted => sampled = Slots

(* Each measured request is one goroutine's business from the index to the *)
(* sample, and none is dropped but by a run whose context has ended.       *)
ImplementsWorkShare == Share!Spec

(* Whatever fails, whenever, Run returns.                                  *)
RunReturns == <>(stage \in {"samples", "error"})
=============================================================================
