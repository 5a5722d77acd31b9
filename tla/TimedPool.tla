------------------------------ MODULE TimedPool ------------------------------
(***************************************************************************)
(* The worker pool with nothing abstracted from its numbers: the methods   *)
(* of internal/guardian/pool.go on the fields they really keep, an         *)
(* instant until which a circuit is open, a count of failures without a    *)
(* cap, and the scan of Next by offset and remainder.                      *)
(*                                                                         *)
(* WorkerPool, which everything else is built on, has a remaining time, a  *)
(* count up to a cap and distances from the cursor instead.  This module   *)
(* implements it, so nothing is lost by them.                              *)
(***************************************************************************)
EXTENDS Integers

CONSTANTS
  Listed,         \* len(p.workers)
  Threshold,      \* p.failureThreshold
  OpenTime,       \* p.cooldown
  LastInstant,    \* bound of this model: the clock stops here
  MostFailures    \* bound of this model: failures are counted up to here

(* What NewPool refuses, as in WorkerPool. *)
ASSUME TimedAssumption ==
  /\ Listed \in Nat \ {0}
  /\ Threshold \in Nat \ {0}
  /\ OpenTime \in Nat \ {0}
  /\ LastInstant \in Nat /\ MostFailures \in Nat

Indices == 0 .. Listed - 1
Zero == 0      \* time.Time{}
Start == 1     \* some instant after it

VARIABLES
  states,    \* p.workers: healthy, consecutiveFailures, circuitOpenUntil
  cursor,    \* p.next
  now        \* what p.now() returns

timedVars == <<states, cursor, now>>

WorkerState == [healthy : BOOLEAN, failures : Nat, until : Nat]

TimedInit ==
  /\ states = [i \in Indices |-> [healthy |-> FALSE, failures |-> 0, until |-> Zero]]
  /\ cursor = 0
  /\ now = Start

-----------------------------------------------------------------------------
(* Next: the loop over the offsets. *)

Met(offset) == (cursor + offset) % Listed

Usable(i, exclude) == states[i].healthy /\ states[i].until = Zero /\ i \notin exclude

Select(offset, exclude) ==
  /\ Usable(Met(offset), exclude)
  /\ \A earlier \in 0 .. offset - 1 : ~Usable(Met(earlier), exclude)
  /\ cursor' = (Met(offset) + 1) % Listed
  /\ UNCHANGED <<states, now>>

-----------------------------------------------------------------------------
(* The reports and the clock. *)

Succeed(i) ==
  /\ states' = [states EXCEPT ![i] = [healthy |-> TRUE, failures |-> 0, until |-> Zero]]
  /\ UNCHANGED <<cursor, now>>

(* Mutant: the circuit opens one failure late.                             *)
ChargeLate(i) ==
  LET n == states[i].failures + 1
  IN  /\ n <= MostFailures
      /\ states' = [states EXCEPT ![i] =
                      IF n > Threshold
                      THEN [healthy |-> FALSE, failures |-> n, until |-> now + OpenTime]
                      ELSE [@ EXCEPT !.failures = n]]
      /\ UNCHANGED <<cursor, now>>

Charge(i) ==
  LET n == states[i].failures + 1
  IN  /\ n <= MostFailures
      /\ states' = [states EXCEPT ![i] =
                      IF n >= Threshold
                      THEN [healthy |-> FALSE, failures |-> n, until |-> now + OpenTime]
                      ELSE [@ EXCEPT !.failures = n]]
      /\ UNCHANGED <<cursor, now>>

Tick ==
  /\ now < LastInstant
  /\ now' = now + 1
  /\ UNCHANGED <<states, cursor>>

TimedNext ==
  \/ \E offset \in Indices, exclude \in SUBSET Indices : Select(offset, exclude)
  \/ \E i \in Indices : Succeed(i) \/ Charge(i)
  \/ Tick

TimedSpec == TimedInit /\ [][TimedNext]_timedVars

-----------------------------------------------------------------------------
(* The views.                                                              *)

(* Mutant: a deadline that has just been reached counts as ahead.          *)
CandidatesLate ==
  {i \in Indices : states[i].until = Zero \/ now > states[i].until}

(* ProbeCandidates *)
Candidates ==
  {i \in Indices : states[i].until = Zero \/ ~(now < states[i].until)}

(* Snapshot *)
Shown(i) ==
  IF states[i].until # Zero /\ now < states[i].until THEN "OPEN"
  ELSE IF ~states[i].healthy THEN "PROBING" ELSE "CLOSED"

-----------------------------------------------------------------------------
(* Properties.                                                             *)

(* The cursor is an index, and no deadline is further ahead than a         *)
(* cooldown.                                                               *)
TimedTypeOK ==
  /\ states \in [Indices -> WorkerState]
  /\ cursor \in Indices
  /\ now \in Nat \ {Zero}
  /\ \A i \in Indices : states[i].until <= now + OpenTime

(* The pool as WorkerPool has it. *)
flags == [i \in Indices |-> states[i].healthy]

remaining ==
  [i \in Indices |->
     IF states[i].until = Zero THEN -1
     ELSE IF now < states[i].until THEN states[i].until - now ELSE 0]

counted ==
  [i \in Indices |-> IF states[i].failures < Threshold THEN states[i].failures ELSE Threshold]

Pool == INSTANCE WorkerPool WITH
       NumWorkers <- Listed, FailureThreshold <- Threshold, Cooldown <- OpenTime,
       FailureCap <- Threshold,
       healthy <- flags, failures <- counted, openFor <- remaining, next <- cursor

(* Instants, uncapped counts and remainders do nothing that WorkerPool     *)
(* does not: what holds there of the pool holds of the code's fields.      *)
ImplementsPool == Pool!PoolSpec

(* The two comparisons of the clock with a deadline, for the probes and    *)
(* for the admin view, split at the same instant as the remaining time.    *)
ViewsAgree ==
  /\ Candidates = Pool!ProbeCandidates
  /\ \A i \in Indices : Shown(i) = Pool!CircuitState(i)
=============================================================================
