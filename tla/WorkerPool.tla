----------------------------- MODULE WorkerPool -----------------------------
(***************************************************************************)
(* The worker pool of the guardian: internal/guardian/pool.go.             *)
(*                                                                         *)
(* The pool owns, for every configured worker, its health flag, its count  *)
(* of consecutive failures and the deadline until which its circuit is     *)
(* open, and one round-robin cursor.  Every method of Pool runs under one  *)
(* mutex, so every method is one action here.                              *)
(*                                                                         *)
(* Workers are named by their index in the configured list (NewPool        *)
(* rejects duplicate names, so find(name) returns exactly one of them).    *)
(* Pool.lastCheck and Pool.lastError are only ever displayed and are left  *)
(* out.                                                                    *)
(*                                                                         *)
(* Time.  The code stores the instant circuitOpenUntil and only ever asks  *)
(* whether it is zero and whether now is before it.  The module stores the *)
(* time that remains instead: openFor[w] is Unset for the zero instant,    *)
(* n > 0 while the deadline is n ticks ahead, and 0 once it has passed.    *)
(* That keeps the state finite without a bound on the clock.               *)
(***************************************************************************)
EXTENDS Integers, FiniteSets

CONSTANTS
  NumWorkers,        \* len(p.workers)
  FailureThreshold,  \* p.failureThreshold
  Cooldown,          \* p.cooldown, in ticks of the clock
  FailureCap         \* bound: consecutive failures are counted up to here

(* NewPool refuses an empty list and non-positive circuit settings; the    *)
(* code only compares the count with the threshold, so a cap at or above   *)
(* the threshold loses nothing.                                            *)
ASSUME PoolAssumption ==
  /\ NumWorkers \in Nat \ {0}
  /\ FailureThreshold \in Nat \ {0}
  /\ Cooldown \in Nat \ {0}
  /\ FailureCap \in Nat /\ FailureCap >= FailureThreshold

Workers == 0 .. NumWorkers - 1
Unset == -1

VARIABLES
  healthy,   \* [Workers -> BOOLEAN]            workerState.healthy
  failures,  \* [Workers -> 0 .. FailureCap]    workerState.consecutiveFailures
  openFor,   \* [Workers -> -1 .. Cooldown]     workerState.circuitOpenUntil
  next       \* Workers                         Pool.next

poolVars == <<healthy, failures, openFor, next>>

(* Mutant: workers start in rotation.                                      *)
PoolInitHealthy ==
  /\ healthy = [w \in Workers |-> TRUE]
  /\ failures = [w \in Workers |-> 0]
  /\ openFor = [w \in Workers |-> Unset]
  /\ next = 0

PoolInit ==
  /\ healthy = [w \in Workers |-> FALSE]
  /\ failures = [w \in Workers |-> 0]
  /\ openFor = [w \in Workers |-> Unset]
  /\ next = 0

-----------------------------------------------------------------------------
(* Reading the pool.                                                       *)

(* The routing test of Next, and what HealthyCount counts.                 *)
Eligible(w) == healthy[w] /\ openFor[w] = Unset

HealthyCount == Cardinality({w \in Workers : Eligible(w)})

(* Mutants: no cooldown at all, and one that never ends.                   *)
ProbeCandidatesAll == Workers
ProbeCandidatesNeverExpired == {w \in Workers : openFor[w] = Unset}

(* The workers a round of probes visits: no deadline, or one in the past.  *)
ProbeCandidates == {w \in Workers : openFor[w] <= 0}

(* The circuit state Snapshot reports.                                     *)
CircuitState(w) ==
  IF openFor[w] > 0 THEN "OPEN" ELSE IF healthy[w] THEN "CLOSED" ELSE "PROBING"

-----------------------------------------------------------------------------
(* Routing.                                                                *)

(* i % NumWorkers for the indices below 2 * NumWorkers that Next computes. *)
Wrap(i) == IF i >= NumWorkers THEN i - NumWorkers ELSE i

(* The offset at which the scan of Next meets worker w.                    *)
Offset(w) == IF w >= next THEN w - next ELSE w + NumWorkers - next

Selectable(w, exclude) == Eligible(w) /\ w \notin exclude

(* The scan starts at the cursor and stops at the first worker it may use. *)
FirstInScan(w, exclude) ==
  /\ Selectable(w, exclude)
  /\ \A v \in Workers : Selectable(v, exclude) => Offset(w) <= Offset(v)

(* Mutant: the cursor stays at the selected worker.                        *)
NextWorkerKeepsCursor(w, exclude) ==
  /\ FirstInScan(w, exclude)
  /\ next' = w
  /\ UNCHANGED <<healthy, failures, openFor>>

(* Next(exclude) = w, TRUE *)
NextWorker(w, exclude) ==
  /\ FirstInScan(w, exclude)
  /\ next' = Wrap(w + 1)
  /\ UNCHANGED <<healthy, failures, openFor>>

(* Next(exclude) = nil, FALSE: nothing changes. *)
NoneSelectable(exclude) == \A w \in Workers : ~Selectable(w, exclude)

-----------------------------------------------------------------------------
(* Reports, from the proxy and from the health checker alike.              *)

(* Mutant: the consecutive failures survive a success.                     *)
ReportSuccessKeepsCount(w) ==
  /\ healthy' = [healthy EXCEPT ![w] = TRUE]
  /\ openFor' = [openFor EXCEPT ![w] = Unset]
  /\ UNCHANGED <<failures, next>>

ReportSuccess(w) ==
  /\ healthy' = [healthy EXCEPT ![w] = TRUE]
  /\ failures' = [failures EXCEPT ![w] = 0]
  /\ openFor' = [openFor EXCEPT ![w] = Unset]
  /\ UNCHANGED next

Bump(n) == IF n < FailureCap THEN n + 1 ELSE n

(* Mutants: an open circuit leaves the worker healthy; one failure makes   *)
(* it unhealthy without opening the circuit.                               *)
ReportFailureKeepsHealthy(w) ==
  LET count == Bump(failures[w])
  IN  /\ failures' = [failures EXCEPT ![w] = count]
      /\ openFor' = [openFor EXCEPT ![w] = IF count >= FailureThreshold THEN Cooldown ELSE @]
      /\ UNCHANGED <<healthy, next>>

ReportFailureDemotes(w) ==
  LET count == Bump(failures[w])
  IN  /\ failures' = [failures EXCEPT ![w] = count]
      /\ healthy' = [healthy EXCEPT ![w] = FALSE]
      /\ openFor' = [openFor EXCEPT ![w] = IF count >= FailureThreshold THEN Cooldown ELSE @]
      /\ UNCHANGED next

(* A failure at or beyond the threshold (re)starts the whole cooldown.     *)
ReportFailure(w) ==
  LET count == Bump(failures[w])
      trips == count >= FailureThreshold
  IN  /\ failures' = [failures EXCEPT ![w] = count]
      /\ healthy' = [healthy EXCEPT ![w] = @ /\ ~trips]
      /\ openFor' = [openFor EXCEPT ![w] = IF trips THEN Cooldown ELSE @]
      /\ UNCHANGED next

(* Time passes.  Nothing in the pool reacts to it before the next call     *)
(* that reads the clock.                                                   *)
Elapse ==
  /\ \E w \in Workers : openFor[w] > 0
  /\ openFor' = [w \in Workers |-> IF openFor[w] > 0 THEN openFor[w] - 1 ELSE openFor[w]]
  /\ UNCHANGED <<healthy, failures, next>>

-----------------------------------------------------------------------------
(* The pool on its own, called in any order by any number of goroutines.   *)

PoolNext ==
  \/ \E w \in Workers, exclude \in SUBSET Workers : NextWorker(w, exclude)
  \/ \E w \in Workers : ReportSuccess(w)
  \/ \E w \in Workers : ReportFailure(w)
  \/ Elapse

PoolSpec == PoolInit /\ [][PoolNext]_poolVars
-----------------------------------------------------------------------------
(* The documented state machine of one worker, as the code keeps it.       *)

circuit == [w \in Workers |-> CircuitState(w)]

Breaker == INSTANCE CircuitBreaker WITH Workers <- Workers, circuit <- circuit

-----------------------------------------------------------------------------
(* Properties.                                                             *)

(* Every field of the pool stays within the range the code gives it.       *)
PoolTypeOK ==
  /\ healthy \in [Workers -> BOOLEAN]
  /\ failures \in [Workers -> 0 .. FailureCap]
  /\ openFor \in [Workers -> Unset .. Cooldown]
  /\ next \in Workers

(* The three per-worker fields, written by ReportSuccess and ReportFailure *)
(* in any order, never contradict each other: a deadline is set exactly    *)
(* when the failures since the last success reached the threshold, and a   *)
(* healthy worker has no deadline.                                         *)
CircuitConsistent ==
  \A w \in Workers :
    /\ openFor[w] # Unset <=> failures[w] >= FailureThreshold
    /\ healthy[w] => openFor[w] = Unset

(* What the guardian shows is what routing does.  /admin/workers displays  *)
(* a worker CLOSED exactly when Next may return it, and its isHealthy flag *)
(* alone, which the failover benchmark reads, says the same; /readyz       *)
(* answers 200 exactly when a fresh request would find a worker.           *)
SnapshotShowsRouting ==
  /\ \A w \in Workers :
       /\ CircuitState(w) = "CLOSED" <=> Eligible(w)
       /\ healthy[w] <=> Eligible(w)
  /\ HealthyCount > 0 <=> ~NoneSelectable({})

(* Wherever the cursor is and whatever the request has tried, Next returns *)
(* a worker if there is one it may use, and the pool alone decides which.  *)
NextDecides ==
  \A exclude \in SUBSET Workers :
    ~NoneSelectable(exclude) =>
      \E w \in Workers : /\ FirstInScan(w, exclude)
                         /\ \A v \in Workers : FirstInScan(v, exclude) => v = w

(* The pool implements the circuit breaker: no worker drops out of CLOSED  *)
(* but by tripping to OPEN, and none comes back but by a success.          *)
ImplementsBreaker == Breaker!Spec
=============================================================================
