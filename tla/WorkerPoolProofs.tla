--------------------------- MODULE WorkerPoolProofs ---------------------------
(***************************************************************************)
(* Proofs about the pool, for every number of workers, threshold and       *)
(* cooldown: its types, the agreement of its fields, what the admin API    *)
(* shows, and that it implements the circuit breaker.                      *)
(***************************************************************************)
EXTENDS WorkerPool, Sequences, FiniteSetTheorems, TLAPS

(* The inductive invariant.  CircuitConsistent needs the types, so that    *)
(* the counter can be compared with the threshold.                         *)
PoolInv == PoolTypeOK /\ CircuitConsistent

LEMMA InitPoolInv == PoolInit => PoolInv
  BY PoolAssumption DEF PoolInit, PoolInv, PoolTypeOK, CircuitConsistent, Workers, Unset

-----------------------------------------------------------------------------
(* One lemma per operation of the pool; the modules that call the pool     *)
(* cite them as well.                                                      *)

(* Next moves the cursor only. *)
LEMMA NextWorkerInv ==
  ASSUME PoolInv, NEW w \in Workers, NEW exclude, NextWorker(w, exclude)
  PROVE  PoolInv'
<1>1. Wrap(w + 1) \in Workers
  BY PoolAssumption DEF Wrap, Workers
<1>2. QED
  BY <1>1 DEF PoolInv, PoolTypeOK, CircuitConsistent, NextWorker

LEMMA ReportSuccessInv ==
  ASSUME PoolInv, NEW w \in Workers, ReportSuccess(w)
  PROVE  PoolInv'
<1>1. PoolTypeOK'
  BY PoolAssumption DEF PoolInv, PoolTypeOK, ReportSuccess, Unset
<1>2. CircuitConsistent'
  BY PoolAssumption DEF PoolInv, PoolTypeOK, CircuitConsistent, ReportSuccess, Unset
<1>3. QED
  BY <1>1, <1>2 DEF PoolInv

(* The counter grows, up to its cap, and the deadline is set exactly when  *)
(* the grown counter reaches the threshold.                                *)
LEMMA ReportFailureInv ==
  ASSUME PoolInv, NEW w \in Workers, ReportFailure(w)
  PROVE  PoolInv'
<1>1. failures[w] \in 0 .. FailureCap
  BY DEF PoolInv, PoolTypeOK
<1>2. /\ Bump(failures[w]) \in 0 .. FailureCap
      /\ failures[w] >= FailureThreshold => Bump(failures[w]) >= FailureThreshold
  BY <1>1, PoolAssumption DEF Bump
<1>3. PoolTypeOK'
  BY <1>2, PoolAssumption DEF PoolInv, PoolTypeOK, ReportFailure, Unset
<1>4. ASSUME NEW v \in Workers
      PROVE  /\ openFor'[v] # Unset <=> failures'[v] >= FailureThreshold
             /\ healthy'[v] => openFor'[v] = Unset
  <2>1. CASE v # w
    BY <2>1 DEF PoolInv, PoolTypeOK, CircuitConsistent, ReportFailure
  <2>2. CASE v = w /\ Bump(failures[w]) >= FailureThreshold
    <3>1. openFor'[w] = Cooldown /\ ~healthy'[w] /\ failures'[w] = Bump(failures[w])
      BY <2>2 DEF PoolInv, PoolTypeOK, ReportFailure
    <3>2. QED
      BY <2>2, <3>1, PoolAssumption DEF Unset
  <2>3. CASE v = w /\ ~(Bump(failures[w]) >= FailureThreshold)
    <3>1. openFor'[w] = openFor[w] /\ healthy'[w] = healthy[w]
          /\ failures'[w] = Bump(failures[w])
      BY <2>3 DEF PoolInv, PoolTypeOK, ReportFailure
    <3>2. QED
      BY <1>2, <2>3, <3>1 DEF PoolInv, CircuitConsistent
  <2>4. QED
    BY <2>1, <2>2, <2>3
<1>5. QED
  BY <1>3, <1>4 DEF PoolInv, CircuitConsistent

(* A deadline that passes is still a deadline that is set. *)
LEMMA ElapseInv ==
  ASSUME PoolInv, Elapse
  PROVE  PoolInv'
<1>1. PoolTypeOK'
  BY PoolAssumption DEF PoolInv, PoolTypeOK, Elapse, Unset
<1>2. \A v \in Workers : openFor'[v] = Unset <=> openFor[v] = Unset
  BY PoolAssumption DEF PoolInv, PoolTypeOK, Elapse, Unset
<1>3. QED
  BY <1>1, <1>2 DEF PoolInv, CircuitConsistent, Elapse

LEMMA PoolStepInv == PoolInv /\ [PoolNext]_poolVars => PoolInv'
<1> SUFFICES ASSUME PoolInv, [PoolNext]_poolVars PROVE PoolInv'
  OBVIOUS
<1>1. ASSUME NEW w \in Workers, NEW exclude \in SUBSET Workers, NextWorker(w, exclude)
      PROVE  PoolInv'
  BY <1>1, NextWorkerInv
<1>2. ASSUME NEW w \in Workers, ReportSuccess(w) PROVE PoolInv'
  BY <1>2, ReportSuccessInv
<1>3. ASSUME NEW w \in Workers, ReportFailure(w) PROVE PoolInv'
  BY <1>3, ReportFailureInv
<1>4. CASE Elapse
  BY <1>4, ElapseInv
<1>5. CASE UNCHANGED poolVars
  BY <1>5 DEF PoolInv, PoolTypeOK, CircuitConsistent, poolVars
<1>6. QED
  BY <1>1, <1>2, <1>3, <1>4, <1>5 DEF PoolNext

-----------------------------------------------------------------------------

THEOREM PoolInvariant == PoolSpec => []PoolInv
  BY InitPoolInv, PoolStepInv, PTL DEF PoolSpec

(* Every field of the pool stays within the range the code gives it: the   *)
(* cursor is always an index of the worker list.                           *)
THEOREM PoolTypeCorrect == PoolSpec => []PoolTypeOK
<1>1. PoolInv => PoolTypeOK
  BY DEF PoolInv
<1>2. QED
  BY <1>1, PoolInvariant, PTL

(* Whatever order reports come in, deadline, count and health flag of a    *)
(* worker never contradict each other.                                     *)
THEOREM PoolConsistent == PoolSpec => []CircuitConsistent
<1>1. PoolInv => CircuitConsistent
  BY DEF PoolInv
<1>2. QED
  BY <1>1, PoolInvariant, PTL

(* HealthyCount is positive exactly when some worker is eligible.          *)
LEMMA ReadyMeansRoutable == HealthyCount > 0 <=> ~NoneSelectable({})
<1> DEFINE E == {w \in Workers : Eligible(w)}
<1>1. IsFiniteSet(Workers)
  BY PoolAssumption, FS_Interval DEF Workers
<1>2. IsFiniteSet(E)
  BY <1>1, FS_Subset
<1>3. Cardinality(E) \in Nat /\ (Cardinality(E) = 0 <=> E = {})
  BY <1>2, FS_CardinalityType, FS_EmptySet
<1>4. E = {} <=> NoneSelectable({})
  BY DEF NoneSelectable, Selectable
<1>5. HealthyCount = Cardinality(E)
  BY DEF HealthyCount
<1>6. QED
  BY <1>3, <1>4, <1>5

(* The admin snapshot and /readyz tell which workers Next may return. *)
THEOREM SnapshotHonest == PoolSpec => []SnapshotShowsRouting
<1>1. ASSUME PoolInv, NEW w \in Workers
      PROVE  /\ CircuitState(w) = "CLOSED" <=> Eligible(w)
             /\ healthy[w] <=> Eligible(w)
  BY <1>1 DEF PoolInv, PoolTypeOK, CircuitConsistent, CircuitState, Eligible, Unset
<1>2. PoolInv => SnapshotShowsRouting
  BY <1>1, ReadyMeansRoutable DEF SnapshotShowsRouting
<1>3. QED
  BY <1>2, PoolInvariant, PTL

-----------------------------------------------------------------------------
(* The pool implements the circuit breaker, with the edge for late         *)
(* successes.                                                              *)

LEMMA InitCircuit == PoolInit => Breaker!Init
  BY DEF PoolInit, Breaker!Init, circuit, CircuitState, Unset

(* A success closes the circuit of its worker, if it was not closed.       *)
LEMMA ReportSuccessCloses ==
  ASSUME PoolInv, NEW w \in Workers, ReportSuccess(w)
  PROVE  Breaker!Close(w) \/ UNCHANGED circuit
<1>1. /\ CircuitState(w)' = "CLOSED"
      /\ \A v \in Workers \ {w} : CircuitState(v)' = CircuitState(v)
  BY DEF PoolInv, PoolTypeOK, ReportSuccess, CircuitState, Unset
<1>2. circuit' = [circuit EXCEPT ![w] = "CLOSED"]
  BY <1>1 DEF circuit
<1>3. circuit[w] \in {"OPEN", "PROBING", "CLOSED"}
  BY DEF circuit, CircuitState
<1>4. CASE circuit[w] = "CLOSED"
  BY <1>2, <1>4 DEF circuit
<1>5. QED
  BY <1>2, <1>3, <1>4 DEF Breaker!Close

(* A failure opens the circuit of its worker or leaves it where it was.    *)
LEMMA ReportFailureTrips ==
  ASSUME PoolInv, NEW w \in Workers, ReportFailure(w)
  PROVE  Breaker!Trip(w) \/ UNCHANGED circuit
<1>0. /\ w \in DOMAIN openFor /\ w \in DOMAIN healthy
      /\ Cooldown \in Nat \ {0}
      /\ healthy[w] \in BOOLEAN
  BY PoolAssumption DEF PoolInv, PoolTypeOK
<1>1. /\ \A v \in Workers \ {w} : CircuitState(v)' = CircuitState(v)
      /\ CircuitState(w)' \in {"OPEN", CircuitState(w)}
  BY <1>0 DEF PoolInv, PoolTypeOK, ReportFailure, CircuitState
<1>2. circuit' = [circuit EXCEPT ![w] = CircuitState(w)']
  BY <1>1 DEF circuit
<1>3. circuit[w] \in {"OPEN", "PROBING", "CLOSED"}
  BY DEF circuit, CircuitState
<1>4. CASE CircuitState(w)' = CircuitState(w)
  BY <1>2, <1>4 DEF circuit
<1>5. CASE CircuitState(w)' = "OPEN" /\ CircuitState(w) # "OPEN"
  BY <1>2, <1>3, <1>5 DEF Breaker!Trip, circuit
<1>6. QED
  BY <1>1, <1>4, <1>5

(* Deadlines that pass move their workers from OPEN to PROBING: a worker   *)
(* with a deadline is not healthy.                                         *)
LEMMA ElapseExpires ==
  ASSUME PoolInv, Elapse
  PROVE  Breaker!Expire
<1> DEFINE S == {v \in Workers : openFor[v] = 1}
<1>1. ASSUME NEW v \in Workers
      PROVE  /\ v \in S => CircuitState(v) = "OPEN" /\ CircuitState(v)' = "PROBING"
             /\ v \notin S => CircuitState(v)' = CircuitState(v)
  <2>1. openFor[v] \in Unset .. Cooldown /\ (healthy[v] => openFor[v] = Unset)
    BY DEF PoolInv, PoolTypeOK, CircuitConsistent
  <2>2. /\ openFor'[v] = IF openFor[v] > 0 THEN openFor[v] - 1 ELSE openFor[v]
        /\ healthy' = healthy
    BY DEF Elapse
  <2>3. QED
    BY <2>1, <2>2, PoolAssumption DEF CircuitState, Unset
<1>2. S \in SUBSET {v \in Workers : circuit[v] = "OPEN"}
  BY <1>1 DEF circuit
<1>3. circuit' = [v \in Workers |-> IF v \in S THEN "PROBING" ELSE circuit[v]]
  BY <1>1 DEF circuit
<1>4. QED
  BY <1>2, <1>3 DEF Breaker!Expire

LEMMA PoolStepRefines ==
  PoolInv /\ [PoolNext]_poolVars => [Breaker!Next]_circuit
<1> SUFFICES ASSUME PoolInv, [PoolNext]_poolVars PROVE [Breaker!Next]_circuit
  OBVIOUS
<1>1. ASSUME NEW w \in Workers, NEW exclude \in SUBSET Workers, NextWorker(w, exclude)
      PROVE  UNCHANGED circuit
  BY <1>1 DEF NextWorker, circuit, CircuitState
<1>2. ASSUME NEW w \in Workers, ReportSuccess(w) PROVE [Breaker!Next]_circuit
  BY <1>2, ReportSuccessCloses DEF Breaker!Next
<1>3. ASSUME NEW w \in Workers, ReportFailure(w) PROVE [Breaker!Next]_circuit
  BY <1>3, ReportFailureTrips DEF Breaker!Next
<1>4. CASE Elapse
  BY <1>4, ElapseExpires DEF Breaker!Next
<1>5. CASE UNCHANGED poolVars
  BY <1>5 DEF circuit, CircuitState, poolVars
<1>6. QED
  BY <1>1, <1>2, <1>3, <1>4, <1>5 DEF PoolNext

(* The pool implements CircuitBreaker: no worker leaves CLOSED but by      *)
(* tripping to OPEN, and none comes back but by a reported success.        *)
THEOREM PoolImplementsBreaker == PoolSpec => ImplementsBreaker
  BY PoolInvariant, InitCircuit, PoolStepRefines, PTL
     DEF PoolSpec, ImplementsBreaker, Breaker!Spec
-----------------------------------------------------------------------------
(* The configuration the pool is made from.                                *)

Conf == INSTANCE Configuration

LEMMA DefaultsAreIntegers == \A s \in Conf!Settings : Conf!Default[s] \in Int
  BY DEF Conf!Settings, Conf!Durations, Conf!Numbers, Conf!Default

(* Whatever file config.Load accepts: NewPool does not refuse it, the      *)
(* checker's ticker does not panic, the assumptions of the modules on      *)
(* their constants hold, and a report by name finds the worker it is about.*)
THEOREM ConfigurationFits ==
  ASSUME NEW names, NEW file \in Conf!Files(names, Int), Conf!Loads(file)
  PROVE  Conf!SettingsFit(file) /\ Conf!ReportsFind(file)
<1> DEFINE s == Conf!Decoded(file)
           workers == Conf!Trimmed(file)
<1>1. \A n \in Conf!Settings : s[n] \in Int
  <2>1. PICK S \in SUBSET Conf!Settings : file.given \in [S -> Int]
    BY DEF Conf!Files
  <2>2. QED
    BY <2>1, DefaultsAreIntegers DEF Conf!Decoded
<1>2. Conf!SettingsValid(s) /\ Conf!WorkersValid(workers)
  BY DEF Conf!Loads
<1>3. Len(file.workers) \in Nat /\ Len(workers) = Len(file.workers)
  <2>1. Len(file.workers) \in Nat
    BY DEF Conf!Files
  <2>2. QED
    BY <2>1 DEF Conf!Trimmed
<1> HIDE DEF s, workers
<1>4. \A n \in {"failureThreshold", "cooldown", "maxAttempts", "rateLimitBurst", "interval"} :
        s[n] \in Int /\ s[n] > 0
  BY <1>1, <1>2 DEF Conf!SettingsValid, Conf!Durations, Conf!Settings, Conf!Numbers
<1>5. Conf!NewPoolAccepts(workers, s["failureThreshold"], s["cooldown"])
  BY <1>2, <1>4 DEF Conf!NewPoolAccepts, Conf!WorkersValid
<1>6. Conf!SettingsFit(file)
  BY <1>2, <1>3, <1>4, <1>5 DEF Conf!SettingsFit, Conf!WorkersValid, s, workers
<1>7. Conf!ReportsFind(file)
  <2> SUFFICES ASSUME NEW i \in 1 .. Len(workers), NEW j \in 1 .. i - 1
               PROVE  workers[j].name # workers[i].name
    BY <1>3 DEF Conf!ReportsFind, Conf!IsFound, workers
  <2>1. j \in 1 .. Len(workers) /\ j # i
    BY <1>3
  <2>2. QED
    BY <1>2, <2>1 DEF Conf!WorkersValid, Conf!NamesDiffer
<1>8. QED
  BY <1>6, <1>7
=============================================================================
