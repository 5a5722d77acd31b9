------------------------- MODULE HealthCheckerProofs -------------------------
(***************************************************************************)
(* Proofs about the health checker in a guardian without traffic, for      *)
(* every number of workers, threshold and cooldown: the shape of its       *)
(* locals, that no worker is contacted during its cooldown although a      *)
(* round works from an old snapshot, and what the gauge says of the pool.  *)
(***************************************************************************)
EXTENDS HealthChecker, WorkerPoolProofs

quietVars == <<poolVars, mode, checkerVars>>

(* The worker whose result the pool knows and the gauge does not.          *)
Pending(w) == phase = "observing" /\ w \in todo /\ AtHead(w)

(* Only the worker just reported on can be in a cooldown.                  *)
SnapshotFresh == \A w \in todo : ~Pending(w) => openFor[w] <= 0

Sure(w) == Eligible(w) /\ failures[w] = 0

(* The verdict under way and the gauge follow the last report.             *)
VerdictsFollow ==
  \A w \in Workers : IF Pending(w) THEN verdict <=> Sure(w) ELSE gauge[w] <=> Sure(w)

IInv == PoolInv /\ CheckerTypeOK /\ SnapshotFresh /\ VerdictsFollow

LEMMA OneHead ==
  ASSUME todo \subseteq Workers, NEW v \in todo, NEW w \in todo, AtHead(v), AtHead(w)
  PROVE  v = w
<1>1. v <= w /\ w <= v
  BY DEF AtHead
<1>2. v \in Int /\ w \in Int
  BY PoolAssumption DEF Workers
<1>3. QED
  BY <1>1, <1>2

-----------------------------------------------------------------------------
(* A round that begins takes the workers whose deadline is not ahead.      *)
LEMMA BeginRoundKeeps ==
  ASSUME IInv, BeginRound
  PROVE  IInv'
<1>1. /\ phase \in {"start", "idle"} /\ phase' \in {"idle", "next"}
      /\ phase' = "idle" <=> ProbeCandidates = {}
      /\ todo' = ProbeCandidates
      /\ UNCHANGED <<poolVars, verdict, gauge, stopping>>
  BY DEF BeginRound
<1>2. UNCHANGED <<healthy, failures, openFor, next>>
  BY <1>1 DEF poolVars
<1>3. PoolInv'
  BY <1>2 DEF IInv, PoolInv, PoolTypeOK, CircuitConsistent
<1>4. CheckerTypeOK'
  BY <1>1 DEF IInv, CheckerTypeOK, Phases, ProbeCandidates
<1>5. SnapshotFresh'
  BY <1>1, <1>2 DEF SnapshotFresh, ProbeCandidates
<1>6. \A w \in Workers : ~Pending(w) /\ ~Pending(w)'
  BY <1>1 DEF Pending
<1>7. VerdictsFollow'
  BY <1>1, <1>2, <1>6 DEF IInv, VerdictsFollow, Sure, Eligible
<1>8. QED
  BY <1>3, <1>4, <1>5, <1>7 DEF IInv

LEMMA HealthOKBoolean == \A m : HealthOK(m) \in BOOLEAN
  BY SMT DEF HealthOK

(* The probe itself, and the end of Run, touch neither pool nor gauge.     *)
LEMMA ProbingKeeps ==
  ASSUME IInv, BeginProbe \/ ProbeReturns \/ StopChecking
  PROVE  IInv'
<1>1. /\ UNCHANGED <<poolVars, todo, gauge, stopping>>
      /\ phase # "observing" /\ phase' # "observing"
  BY DEF BeginProbe, ProbeReturns, StopChecking
<1>2. UNCHANGED <<healthy, failures, openFor, next>>
  BY <1>1 DEF poolVars
<1>3. PoolInv'
  BY <1>2 DEF IInv, PoolInv, PoolTypeOK, CircuitConsistent
<1>4. CheckerTypeOK'
  <2>1. CASE BeginProbe
    BY <1>1, <2>1 DEF IInv, CheckerTypeOK, Phases, BeginProbe
  <2>2. CASE ProbeReturns
    <3>1. verdict' \in BOOLEAN
      <4>1. PICK w \in todo :
              verdict' \in {HealthOK(mode[w])} \cup (IF stopping THEN {FALSE} ELSE {})
        BY <2>2 DEF ProbeReturns
      <4>2. HealthOK(mode[w]) \in BOOLEAN
        BY HealthOKBoolean
      <4>3. verdict' = HealthOK(mode[w]) \/ verdict' = FALSE
        BY <4>1
      <4>4. QED
        BY <4>2, <4>3, Zenon
    <3>2. phase = "probing" /\ phase' = "probed"
      BY <2>2 DEF ProbeReturns
    <3>3. QED
      BY <1>1, <3>1, <3>2 DEF IInv, CheckerTypeOK, Phases
  <2>3. CASE StopChecking
    BY <1>1, <2>3 DEF IInv, CheckerTypeOK, Phases, StopChecking
  <2>4. QED
    BY <2>1, <2>2, <2>3
<1>5. \A w \in Workers : ~Pending(w) /\ ~Pending(w)'
  BY <1>1 DEF Pending
<1>6. SnapshotFresh'
  BY <1>1, <1>2, <1>5 DEF IInv, SnapshotFresh, CheckerTypeOK
<1>7. VerdictsFollow'
  BY <1>1, <1>2, <1>5 DEF IInv, VerdictsFollow, Sure, Eligible
<1>8. QED
  BY <1>3, <1>4, <1>6, <1>7 DEF IInv

(* After a report the pool says of the worker what the verdict says.       *)
LEMMA ReportFollows ==
  ASSUME PoolInv, NEW w \in Workers, verdict \in BOOLEAN,
         IF verdict THEN ReportSuccess(w) ELSE ReportFailure(w)
  PROVE  /\ verdict <=> Sure(w)'
         /\ \A v \in Workers \ {w} : (Sure(v)' <=> Sure(v)) /\ openFor'[v] = openFor[v]
         /\ PoolInv'
<1>1. CASE verdict
  <2>1. ReportSuccess(w)
    BY <1>1
  <2>2. PoolInv'
    BY <2>1, ReportSuccessInv
  <2>3. healthy'[w] = TRUE /\ failures'[w] = 0 /\ openFor'[w] = Unset
    BY <2>1 DEF ReportSuccess, PoolInv, PoolTypeOK
  <2>4. \A v \in Workers \ {w} : healthy'[v] = healthy[v] /\ failures'[v] = failures[v] /\ openFor'[v] = openFor[v]
    BY <2>1 DEF ReportSuccess, PoolInv, PoolTypeOK
  <2>5. QED
    BY <1>1, <2>2, <2>3, <2>4 DEF Sure, Eligible
<1>2. CASE ~verdict
  <2>1. ReportFailure(w)
    BY <1>2
  <2>2. PoolInv'
    BY <2>1, ReportFailureInv
  <2>3. failures'[w] = Bump(failures[w]) /\ failures[w] \in 0 .. FailureCap
    BY <2>1 DEF ReportFailure, PoolInv, PoolTypeOK
  <2>4. failures'[w] # 0
    BY <2>3, PoolAssumption DEF Bump
  <2>5. \A v \in Workers \ {w} : healthy'[v] = healthy[v] /\ failures'[v] = failures[v] /\ openFor'[v] = openFor[v]
    BY <2>1 DEF ReportFailure, PoolInv, PoolTypeOK
  <2>6. QED
    BY <1>2, <2>2, <2>4, <2>5 DEF Sure, Eligible
<1>3. QED
  BY <1>1, <1>2

LEMMA ReportKeeps ==
  ASSUME IInv, ReportProbe
  PROVE  IInv'
<1>1. PICK w \in todo : AtHead(w) /\ IF verdict THEN ReportSuccess(w) ELSE ReportFailure(w)
  BY DEF ReportProbe
<1>2. /\ phase = "probed" /\ phase' = "observing"
      /\ UNCHANGED <<todo, verdict, gauge, stopping>>
  BY DEF ReportProbe
<1>3. todo \subseteq Workers /\ w \in Workers /\ verdict \in BOOLEAN
  BY <1>1 DEF IInv, CheckerTypeOK
<1>4. /\ verdict <=> Sure(w)'
      /\ \A v \in Workers \ {w} : (Sure(v)' <=> Sure(v)) /\ openFor'[v] = openFor[v]
      /\ PoolInv'
  BY <1>1, <1>3, ReportFollows DEF IInv
<1>5. \A v \in Workers : Pending(v)' <=> v = w
  <2>1. \A v \in todo : AtHead(v)' <=> AtHead(v)
    BY <1>2 DEF AtHead
  <2>2. \A v \in todo : AtHead(v) <=> v = w
    BY <1>1, <1>3, OneHead
  <2>3. QED
    BY <1>1, <1>2, <2>1, <2>2 DEF Pending
<1>6. \A v \in Workers : ~Pending(v)
  BY <1>2 DEF Pending
<1>7. CheckerTypeOK'
  BY <1>2 DEF IInv, CheckerTypeOK, Phases
<1>8. SnapshotFresh'
  BY <1>2, <1>3, <1>4, <1>5, <1>6 DEF IInv, SnapshotFresh
<1>9. VerdictsFollow'
  BY <1>2, <1>4, <1>5, <1>6 DEF IInv, VerdictsFollow
<1>10. QED
  BY <1>4, <1>7, <1>8, <1>9 DEF IInv

LEMMA ObserveKeeps ==
  ASSUME IInv, ObserveHealth
  PROVE  IInv'
<1>1. PICK w \in todo :
        /\ AtHead(w)
        /\ gauge' = [gauge EXCEPT ![w] = verdict]
        /\ todo' = todo \ {w}
        /\ phase' = IF todo = {w} THEN "idle" ELSE "next"
  BY DEF ObserveHealth
<1>2. phase = "observing" /\ verdict' = FALSE /\ UNCHANGED <<poolVars, stopping>>
  BY DEF ObserveHealth
<1>3. UNCHANGED <<healthy, failures, openFor, next>>
  BY <1>2 DEF poolVars
<1>4. todo \subseteq Workers /\ w \in Workers /\ gauge \in [Workers -> BOOLEAN] /\ verdict \in BOOLEAN
  BY <1>1 DEF IInv, CheckerTypeOK
<1>5. \A v \in Workers : Pending(v) <=> v = w
  BY <1>1, <1>2, <1>4, OneHead DEF Pending
<1>6. \A v \in Workers : ~Pending(v)'
  BY <1>1 DEF Pending
<1>7. PoolInv'
  BY <1>3 DEF IInv, PoolInv, PoolTypeOK, CircuitConsistent
<1>8. gauge' \in [Workers -> BOOLEAN] /\ gauge'[w] = verdict /\ \A v \in Workers \ {w} : gauge'[v] = gauge[v]
  BY <1>1, <1>4
<1>9. CheckerTypeOK'
  BY <1>1, <1>2, <1>4, <1>8 DEF IInv, CheckerTypeOK, Phases
<1>10. SnapshotFresh'
  BY <1>1, <1>3, <1>4, <1>5 DEF IInv, SnapshotFresh
<1>11. VerdictsFollow'
  BY <1>3, <1>5, <1>6, <1>8 DEF IInv, VerdictsFollow, Sure, Eligible
<1>12. QED
  BY <1>7, <1>9, <1>10, <1>11 DEF IInv

LEMMA CancelKeeps ==
  ASSUME IInv, Cancel
  PROVE  IInv'
<1>1. stopping' = TRUE /\ UNCHANGED <<poolVars, phase, todo, verdict, gauge>>
  BY DEF Cancel
<1>2. UNCHANGED <<healthy, failures, openFor, next>>
  BY <1>1 DEF poolVars
<1>3. PoolInv' /\ CheckerTypeOK'
  BY <1>1, <1>2 DEF IInv, PoolInv, PoolTypeOK, CircuitConsistent, CheckerTypeOK
<1>4. SnapshotFresh' /\ VerdictsFollow'
  BY <1>1, <1>2 DEF IInv, SnapshotFresh, VerdictsFollow, Pending, AtHead, Sure, Eligible
<1>5. QED
  BY <1>3, <1>4 DEF IInv

(* Time takes no worker out of the rotation and starts no cooldown.        *)
LEMMA ElapseKeeps ==
  ASSUME IInv, Elapse, UNCHANGED checkerVars
  PROVE  IInv'
<1>1. UNCHANGED <<phase, todo, verdict, gauge, stopping>>
  BY DEF checkerVars
<1>2. UNCHANGED <<healthy, failures, next>>
  BY DEF Elapse
<1>3. \A w \in Workers : openFor[w] \in Unset .. Cooldown
  BY DEF IInv, PoolInv, PoolTypeOK
<1>4. \A w \in Workers : openFor'[w] = IF openFor[w] > 0 THEN openFor[w] - 1 ELSE openFor[w]
  BY DEF Elapse
<1>5. \A w \in Workers : (openFor'[w] = Unset <=> openFor[w] = Unset) /\ (openFor[w] <= 0 => openFor'[w] <= 0)
  BY <1>3, <1>4, PoolAssumption DEF Unset
<1>6. PoolInv'
  BY ElapseInv DEF IInv
<1>7. CheckerTypeOK'
  BY <1>1 DEF IInv, CheckerTypeOK
<1>8. \A w : Pending(w)' <=> Pending(w)
  BY <1>1 DEF Pending, AtHead
<1>9. \A w \in Workers : Sure(w)' <=> Sure(w)
  BY <1>2, <1>5 DEF Sure, Eligible
<1>10. SnapshotFresh'
  BY <1>1, <1>5, <1>8 DEF IInv, CheckerTypeOK, SnapshotFresh
<1>11. VerdictsFollow'
  BY <1>1, <1>8, <1>9 DEF IInv, VerdictsFollow
<1>12. QED
  BY <1>6, <1>7, <1>10, <1>11 DEF IInv

LEMMA PoolAndCheckerUnchanged ==
  ASSUME IInv, UNCHANGED <<poolVars, checkerVars>>
  PROVE  IInv'
<1>1. UNCHANGED <<healthy, failures, openFor, next, phase, todo, verdict, gauge, stopping>>
  BY DEF poolVars, checkerVars
<1>2. PoolInv' /\ CheckerTypeOK'
  BY <1>1 DEF IInv, PoolInv, PoolTypeOK, CircuitConsistent, CheckerTypeOK
<1>3. SnapshotFresh' /\ VerdictsFollow'
  BY <1>1 DEF IInv, SnapshotFresh, VerdictsFollow, Pending, AtHead, Sure, Eligible
<1>4. QED
  BY <1>2, <1>3 DEF IInv

-----------------------------------------------------------------------------

LEMMA InitKeeps == QuietInit => IInv
<1> SUFFICES ASSUME QuietInit PROVE IInv
  OBVIOUS
<1>1. PoolInv
  BY InitPoolInv DEF QuietInit
<1>2. CheckerTypeOK
  BY DEF QuietInit, CheckerInit, CheckerTypeOK, Phases
<1>3. SnapshotFresh /\ VerdictsFollow
  BY DEF QuietInit, CheckerInit, PoolInit, SnapshotFresh, VerdictsFollow, Pending, Sure, Eligible
<1>4. QED
  BY <1>1, <1>2, <1>3 DEF IInv

LEMMA StepKeeps == IInv /\ [CheckerNext]_quietVars => IInv'
<1> SUFFICES ASSUME IInv, [CheckerNext]_quietVars PROVE IInv'
  OBVIOUS
<1>1. CASE CheckerStep
  BY <1>1, BeginRoundKeeps, ProbingKeeps, ReportKeeps, ObserveKeeps DEF CheckerStep
<1>2. CASE Cancel
  BY <1>2, CancelKeeps
<1>3. CASE Elapse /\ UNCHANGED <<mode, checkerVars>>
  BY <1>3, ElapseKeeps
<1>4. CASE \E w \in Workers : ChangeMode(w) /\ UNCHANGED <<poolVars, checkerVars>>
  BY <1>4, PoolAndCheckerUnchanged
<1>5. CASE UNCHANGED quietVars
  BY <1>5, PoolAndCheckerUnchanged DEF quietVars
<1>6. QED
  BY <1>1, <1>2, <1>3, <1>4, <1>5 DEF CheckerNext

LEMMA AlwaysIInv == CheckerSpec => []IInv
  BY InitKeeps, StepKeeps, PTL DEF CheckerSpec, quietVars

-----------------------------------------------------------------------------
(* Theorems.                                                               *)

(* The locals of the checker always have the shape its phase implies.      *)
THEOREM CheckerTypeCorrect == CheckerSpec => []CheckerTypeOK
<1>1. IInv => CheckerTypeOK
  BY DEF IInv
<1>2. QED
  BY <1>1, AlwaysIInv, PTL

(* However long a round lasts, a worker it comes to is not in its          *)
(* cooldown, as long as nobody else reports to the pool.                   *)
THEOREM CooldownsRespected == CheckerSpec => ProbesRespectCooldown
<1>1. IInv /\ [CheckerNext]_quietVars =>
        [\A w \in todo : phase = "next" /\ phase' = "probing" /\ AtHead(w) => openFor[w] <= 0]_quietVars
  BY DEF IInv, SnapshotFresh, Pending
<1>2. QED
  BY <1>1, AlwaysIInv, PTL DEF CheckerSpec, ProbesRespectCooldown, quietVars

(* Without traffic the gauge is 1 exactly for the eligible workers whose   *)
(* last probe succeeded, but for the one whose result is being reported.   *)
THEOREM GaugeTracks == CheckerSpec => []GaugeTracksPool
<1>1. IInv => GaugeTracksPool
  <2> SUFFICES ASSUME IInv, NEW w \in Workers, ~Pending(w)
               PROVE  /\ gauge[w] <=> Eligible(w) /\ failures[w] = 0
                      /\ ~gauge[w] /\ Eligible(w) => failures[w] \in 1 .. FailureThreshold - 1
    BY DEF GaugeTracksPool, Pending
  <2>1. gauge[w] <=> Sure(w)
    BY DEF IInv, VerdictsFollow
  <2>2. failures[w] \in 0 .. FailureCap
    BY DEF IInv, PoolInv, PoolTypeOK
  <2>3. Eligible(w) => ~(failures[w] >= FailureThreshold)
    BY DEF IInv, PoolInv, CircuitConsistent, Eligible
  <2>4. QED
    BY <2>1, <2>2, <2>3, PoolAssumption DEF Sure
<1>2. QED
  BY <1>1, AlwaysIInv, PTL
=============================================================================
