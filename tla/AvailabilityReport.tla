------------------------- MODULE AvailabilityReport -------------------------
(***************************************************************************)
(* What the availability report says of the target worker:                 *)
(* NewAvailabilityReport of internal/benchmark/availability_report.go      *)
(* reads, in one pass over the observations of the admin API, when the     *)
(* circuit of the target was first seen open after the fault, and when it  *)
(* was first seen closed after that.                                       *)
(*                                                                         *)
(* An observation has an instant and what it says of the target:           *)
(* "healthy", "unhealthy", "unlisted" if it lists other workers only, or   *)
(* "failed" if the admin API gave no answer, in which case it lists none.  *)
(* The sums over the attempts are left out.                                *)
(***************************************************************************)
EXTENDS Integers, Sequences

NoTime == -1   \* time.Time{}

Sights == {"healthy", "unhealthy"}
Verdicts == Sights \cup {"unlisted", "failed"}

VARIABLES
  observations,   \* in the order of their instants
  fault,          \* parameters.FaultInjectedAt
  next,           \* the observation the loop is at
  detectedAt,     \* summary.DetectedAt
  recoveredAt     \* summary.RecoveredAt

scanVars == <<next, detectedAt, recoveredAt>>

ScanInit == next = 1 /\ detectedAt = NoTime /\ recoveredAt = NoTime

(* observedWorker finds the target in the snapshot. *)
Counts(o) == o.at >= fault /\ o.target \in Sights

Detects(o) == Counts(o) /\ detectedAt = NoTime /\ o.target = "unhealthy"

(* Mutant: the first healthy observation of all.                           *)
RecoversAtOnce(o) == Counts(o) /\ recoveredAt = NoTime /\ o.target = "healthy"

Recovers(o) ==
  Counts(o) /\ detectedAt # NoTime /\ recoveredAt = NoTime /\ o.target = "healthy"

(* Mutant: a worker that is not listed has the zero value, not healthy.    *)
ScanUnlisted ==
  /\ next <= Len(observations)
  /\ LET o == observations[next] IN
       /\ detectedAt' = IF o.at >= fault /\ detectedAt = NoTime /\ o.target # "healthy" THEN o.at ELSE detectedAt
       /\ recoveredAt' = IF Recovers(o) THEN o.at ELSE recoveredAt
  /\ next' = next + 1

(* One iteration of the loop over the observations.                        *)
Scan ==
  /\ next <= Len(observations)
  /\ LET o == observations[next] IN
       /\ detectedAt' = IF Detects(o) THEN o.at ELSE detectedAt
       /\ recoveredAt' = IF Recovers(o) THEN o.at ELSE recoveredAt
  /\ next' = next + 1

Scanned == next = Len(observations) + 1

-----------------------------------------------------------------------------
(* What the two instants are meant to be, over the first n observations.   *)

Sightings(n, verdict) ==
  {i \in 1 .. n : observations[i].at >= fault /\ observations[i].target = verdict}

(* t is the instant of the first observation in S, if there is one.        *)
IsFirst(t, S) ==
  IF S = {} THEN t = NoTime
  ELSE \E i \in S : t = observations[i].at /\ \A j \in S : i <= j

(* Recovery is the first healthy sighting after the first unhealthy one.   *)
Recoveries(n) ==
  {i \in Sightings(n, "healthy") : \E d \in Sightings(n, "unhealthy") : d < i}

Definition(n) ==
  /\ IsFirst(detectedAt, Sightings(n, "unhealthy"))
  /\ IsFirst(recoveredAt, Recoveries(n))

(* docs/BENCHMARKING.md:67, circuit detection and recovery: the pass over  *)
(* a sampled and partly failed sequence of observations finds the first    *)
(* unhealthy sighting since the fault and the first healthy one after it.  *)
ScanMeetsDefinition == Scanned => Definition(Len(observations))
=============================================================================
