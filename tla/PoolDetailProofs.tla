--------------------------- MODULE PoolDetailProofs ---------------------------
(***************************************************************************)
(* What WorkerPoolProofs leaves out of the pool, for every number of       *)
(* workers.                                                                *)
(*                                                                         *)
(* The scan of Next finds a worker exactly when one may be used, and only  *)
(* one.                                                                    *)
(*                                                                         *)
(* The round-robin order of Next is fair: each call that passes an         *)
(* eligible worker over leaves the cursor nearer to it, and no call for    *)
(* which the worker may be used, nor any report, ever moves the cursor     *)
(* away from it.                                                           *)
(*                                                                         *)
(* The pool with its real fields, instants and uncapped counts and a scan  *)
(* by remainders, implements WorkerPool, step by step, and shows the same. *)
(***************************************************************************)
EXTENDS RoundRobin, TimedPool, WorkerPoolProofs, WellFoundedInduction

ShareInv ==
  /\ PoolInv
  /\ passed \in [Workers -> Nat]
  /\ CursorApproaches

(* The scan meets every worker once, from whatever cursor.                 *)
LEMMA ScanLength ==
  \A u, at \in Workers :
    (IF u >= at THEN u - at ELSE u + NumWorkers - at) \in 0 .. NumWorkers - 1
  BY PoolAssumption DEF Workers

LEMMA OffsetBound ==
  ASSUME next \in Workers, NEW u \in Workers
  PROVE  Offset(u) \in 0 .. NumWorkers - 1
  BY ScanLength DEF Offset

(* Selecting w puts the cursor behind it, which brings every worker that   *)
(* the scan would have met later nearer by at least one place.             *)
LEMMA ScanApproaches ==
  ASSUME next \in Workers, NEW w \in Workers, NEW u \in Workers, u # w,
         Offset(w) <= Offset(u), next' = Wrap(w + 1)
  PROVE  Offset(u)' \in Int /\ Offset(u)' < Offset(u)
<1>1. next' = IF w = NumWorkers - 1 THEN 0 ELSE w + 1
  BY PoolAssumption DEF Wrap, Workers
<1>2. QED
  BY <1>1, PoolAssumption DEF Offset, Workers

LEMMA ShareNextWorker ==
  ASSUME ShareInv, NEW w \in Workers, NEW exclude, SharedNextWorker(w, exclude)
  PROVE  ShareInv'
<1>1. NextWorker(w, exclude) /\ Selected(w, exclude) /\ next \in Workers
  BY DEF SharedNextWorker, ShareInv, PoolInv, PoolTypeOK
<1>2. PoolInv' /\ next' \in Workers
  BY <1>1, NextWorkerInv DEF ShareInv, PoolInv, PoolTypeOK
<1>3. passed' \in [Workers -> Nat]
  BY <1>1 DEF Selected, ShareInv
<1>4. ASSUME NEW u \in Workers
      PROVE  passed'[u] + Offset(u)' <= NumWorkers - 1
  <2>1. CASE u # w /\ Selectable(u, exclude)
    <3>1. Offset(w) <= Offset(u) /\ next' = Wrap(w + 1)
      BY <1>1, <2>1 DEF NextWorker, FirstInScan
    <3>2. Offset(u)' \in Int /\ Offset(u)' < Offset(u)
      BY <1>1, <2>1, <3>1, ScanApproaches
    <3>3. passed'[u] = passed[u] + 1
      BY <1>1, <2>1 DEF Selected
    <3>4. passed[u] \in Nat /\ Offset(u) \in Int /\ passed[u] + Offset(u) <= NumWorkers - 1
      BY <1>1, OffsetBound DEF ShareInv, CursorApproaches
    <3>5. QED
      BY <3>2, <3>3, <3>4, PoolAssumption
  <2>2. CASE ~(u # w /\ Selectable(u, exclude))
    <3>1. passed'[u] = 0
      BY <1>1, <2>2 DEF Selected
    <3>2. Offset(u)' \in 0 .. NumWorkers - 1
      BY <1>2, ScanLength DEF Offset
    <3>3. QED
      BY <3>1, <3>2, PoolAssumption
  <2>3. QED
    BY <2>1, <2>2
<1>5. QED
  BY <1>2, <1>3, <1>4 DEF ShareInv, CursorApproaches

LEMMA ShareReport ==
  ASSUME ShareInv, SharedReport
  PROVE  ShareInv'
<1>1. PoolInv' /\ next' = next
  BY ReportSuccessInv, ReportFailureInv, ElapseInv
     DEF SharedReport, ShareInv, ReportSuccess, ReportFailure, Elapse
<1>2. passed' = [u \in Workers |-> IF Eligible(u)' THEN passed[u] ELSE 0]
  BY DEF SharedReport
<1>3. passed' \in [Workers -> Nat]
  BY <1>2 DEF ShareInv
<1>4. ASSUME NEW u \in Workers
      PROVE  passed'[u] + Offset(u)' <= NumWorkers - 1
  <2>1. Offset(u)' = Offset(u) /\ Offset(u) \in 0 .. NumWorkers - 1
    BY <1>1, OffsetBound DEF ShareInv, PoolInv, PoolTypeOK, Offset
  <2>2. passed'[u] \in {0, passed[u]} /\ passed[u] + Offset(u) <= NumWorkers - 1
    BY <1>2 DEF ShareInv, CursorApproaches
  <2>3. QED
    BY <2>1, <2>2, PoolAssumption
<1>5. QED
  BY <1>1, <1>3, <1>4 DEF ShareInv, CursorApproaches

LEMMA ShareInitInv == ShareInit => ShareInv
<1> SUFFICES ASSUME ShareInit PROVE ShareInv
  OBVIOUS
<1>1. PoolInv /\ next \in Workers
  BY InitPoolInv DEF ShareInit, PoolInv, PoolTypeOK
<1>2. passed = [u \in Workers |-> 0]
  BY DEF ShareInit
<1>3. \A u \in Workers : passed[u] + Offset(u) <= NumWorkers - 1
  BY <1>1, <1>2, OffsetBound, PoolAssumption
<1>4. QED
  BY <1>1, <1>2, <1>3 DEF ShareInv, CursorApproaches

THEOREM ShareInvariant == ShareSpec => []ShareInv
<1>1. ShareInv /\ [ShareNext]_sharedVars => ShareInv'
  <2> SUFFICES ASSUME ShareInv, [ShareNext]_sharedVars PROVE ShareInv'
    OBVIOUS
  <2>1. ASSUME NEW w \in Workers, NEW exclude \in SUBSET Workers, SharedNextWorker(w, exclude)
        PROVE  ShareInv'
    BY <2>1, ShareNextWorker
  <2>2. CASE SharedReport
    BY <2>2, ShareReport
  <2>3. CASE UNCHANGED sharedVars
    BY <2>3 DEF ShareInv, PoolInv, PoolTypeOK, CircuitConsistent, CursorApproaches,
               Offset, sharedVars, poolVars
  <2>4. QED
    BY <2>1, <2>2, <2>3 DEF ShareNext
<1>2. QED
  BY <1>1, ShareInitInv, PTL DEF ShareSpec

(* A call that passes a worker over brings the cursor nearer to it.        *)
THEOREM CursorNears == ShareSpec => []CursorApproaches
<1>1. ShareInv => CursorApproaches
  BY DEF ShareInv
<1>2. QED
  BY <1>1, ShareInvariant, PTL

(* A worker that stays in rotation is returned by one of any NumWorkers    *)
(* consecutive calls of Next that may use it.                              *)
THEOREM RoundRobinFair == ShareSpec => []FairShare
<1>1. ShareInv => FairShare
  <2> SUFFICES ASSUME ShareInv, NEW u \in Workers PROVE passed[u] <= NumWorkers - 1
    BY DEF FairShare
  <2>1. Offset(u) \in 0 .. NumWorkers - 1
    BY OffsetBound DEF ShareInv, PoolInv, PoolTypeOK
  <2>2. passed[u] \in Nat /\ passed[u] + Offset(u) <= NumWorkers - 1
    BY DEF ShareInv, CursorApproaches
  <2>3. QED
    BY <2>1, <2>2, PoolAssumption
<1>2. QED
  BY <1>1, ShareInvariant, PTL

-----------------------------------------------------------------------------
(* The scan decides.                                                       *)

(* A set of natural numbers that is not empty has a least element.  The    *)
(* induction it takes is that of the library on finite sets: the intervals *)
(* up to the elements of T are ordered by inclusion.                       *)
LEMMA LeastExists ==
  ASSUME NEW T, T \subseteq Nat, T # {}
  PROVE  \E m \in T : \A n \in T : m <= n
<1> DEFINE upTo == {0 .. n : n \in T}
           R == StrictSubsetOrdering(Nat)
<1>1. IsWellFoundedOn(R, FiniteSubsetsOf(Nat))
  BY FS_StrictSubsetOrderingWellFounded
<1>2. \A n \in Nat : 0 .. n \in FiniteSubsetsOf(Nat)
  BY FS_Interval DEF FiniteSubsetsOf
<1>3. upTo \subseteq FiniteSubsetsOf(Nat) /\ upTo # {}
  BY <1>2
<1> HIDE DEF R
<1>4. PICK x \in upTo : \A y \in upTo : ~(<<y, x>> \in R)
  BY <1>1, <1>3, WFMin, Zenon
<1>5. PICK m \in T : x = 0 .. m
  BY <1>4
<1>6. ASSUME NEW n \in T, n < m PROVE FALSE
  <2>1. 0 .. n \subseteq 0 .. m /\ 0 .. n # 0 .. m
    BY <1>6
  <2>2. <<0 .. n, 0 .. m>> \in R
    BY <1>6, <2>1 DEF R, StrictSubsetOrdering
  <2>3. QED
    BY <1>4, <1>5, <2>2
<1>7. QED
  BY <1>6

(* Two workers are never met at the same offset. *)
LEMMA OffsetsDiffer ==
  ASSUME next \in Workers, NEW v \in Workers, NEW w \in Workers, Offset(v) = Offset(w)
  PROVE  v = w
  BY PoolAssumption DEF Offset, Workers

(* Wherever the cursor is and whatever the request has tried, Next returns *)
(* exactly one worker if there is one that it may use.                     *)
THEOREM ScanDecides == PoolSpec => []NextDecides
<1>1. PoolInv => NextDecides
  <2> SUFFICES ASSUME PoolInv, NEW exclude \in SUBSET Workers, ~NoneSelectable(exclude)
               PROVE  \E w \in Workers :
                        /\ FirstInScan(w, exclude)
                        /\ \A v \in Workers : FirstInScan(v, exclude) => v = w
    BY DEF NextDecides
  <2> DEFINE usable == {w \in Workers : Selectable(w, exclude)}
             met == {Offset(w) : w \in usable}
  <2>1. next \in Workers
    BY DEF PoolInv, PoolTypeOK
  <2>2. met \subseteq Nat /\ met # {}
    BY <2>1, OffsetBound DEF NoneSelectable
  <2>3. PICK w \in usable : \A n \in met : Offset(w) <= n
    BY <2>2, LeastExists
  <2>4. FirstInScan(w, exclude)
    BY <2>3 DEF FirstInScan
  <2>5. ASSUME NEW v \in Workers, FirstInScan(v, exclude) PROVE v = w
    <3>1. Offset(v) <= Offset(w) /\ Offset(w) <= Offset(v)
      BY <2>4, <2>5 DEF FirstInScan
    <3>2. Offset(v) \in Nat /\ Offset(w) \in Nat
      BY <2>1, OffsetBound
    <3>3. QED
      BY <2>1, <3>1, <3>2, OffsetsDiffer
  <2>6. QED
    BY <2>4, <2>5
<1>2. QED
  BY <1>1, PoolInvariant, PTL

-----------------------------------------------------------------------------
(* The pool with its real fields.                                          *)

LEMMA TimedInitType == TimedInit => TimedTypeOK
  BY TimedAssumption DEF TimedInit, TimedTypeOK, Indices, WorkerState, Zero, Start

(* Next leaves the cursor an index, whatever index it was.                 *)
LEMMA RemainderIsIndex == \A n \in Nat : n % Listed \in Indices
  BY TimedAssumption DEF Indices

LEMMA SelectType ==
  ASSUME TimedTypeOK, NEW offset \in Indices, NEW exclude, Select(offset, exclude)
  PROVE  TimedTypeOK'
<1>1. cursor + offset \in Nat
  BY TimedAssumption DEF TimedTypeOK, Indices
<1>2. cursor' \in Indices
  <2>1. Met(offset) \in Indices
    BY <1>1, RemainderIsIndex DEF Met
  <2>2. Met(offset) + 1 \in Nat
    BY <2>1 DEF Indices
  <2>3. QED
    BY <2>2, RemainderIsIndex DEF Select
<1>3. QED
  BY <1>2 DEF TimedTypeOK, Select

LEMMA SucceedType ==
  ASSUME TimedTypeOK, NEW i \in Indices, Succeed(i)
  PROVE  TimedTypeOK'
<1> DEFINE fresh == [healthy |-> TRUE, failures |-> 0, until |-> Zero]
<1>1. fresh \in WorkerState
  BY DEF WorkerState, Zero
<1>2. \A j \in Indices : states'[j] = IF j = i THEN fresh ELSE states[j]
  BY DEF Succeed, TimedTypeOK
<1>3. QED
  BY <1>1, <1>2, TimedAssumption DEF TimedTypeOK, Succeed, Zero

(* What Charge makes of the worker that failed. *)
ChargedState(i) ==
  IF states[i].failures + 1 >= Threshold
  THEN [healthy |-> FALSE, failures |-> states[i].failures + 1, until |-> now + OpenTime]
  ELSE [states[i] EXCEPT !.failures = states[i].failures + 1]

LEMMA ChargeChanges ==
  ASSUME TimedTypeOK, NEW i \in Indices, Charge(i)
  PROVE  /\ ChargedState(i) \in WorkerState
         /\ states' \in [Indices -> WorkerState]
         /\ \A j \in Indices : states'[j] = IF j = i THEN ChargedState(i) ELSE states[j]
         /\ UNCHANGED <<cursor, now>>
<1>1. states[i] \in WorkerState
  BY DEF TimedTypeOK
<1>2. ChargedState(i) \in WorkerState
  BY <1>1, TimedAssumption DEF ChargedState, WorkerState, TimedTypeOK
<1>3. states' = [states EXCEPT ![i] = ChargedState(i)]
  BY DEF Charge, ChargedState
<1>4. QED
  BY <1>2, <1>3 DEF Charge, TimedTypeOK

LEMMA ChargeType ==
  ASSUME TimedTypeOK, NEW i \in Indices, Charge(i)
  PROVE  TimedTypeOK'
<1>1. ChargedState(i).until <= now + OpenTime
  BY TimedAssumption DEF TimedTypeOK, ChargedState, WorkerState
<1>2. QED
  BY <1>1, ChargeChanges DEF TimedTypeOK

LEMMA TickType ==
  ASSUME TimedTypeOK, Tick
  PROVE  TimedTypeOK'
<1>1. \A i \in Indices : states[i].until \in Nat
  BY DEF TimedTypeOK, WorkerState
<1>2. QED
  BY <1>1, TimedAssumption DEF TimedTypeOK, Tick, Zero

LEMMA TimedStepType == TimedTypeOK /\ [TimedNext]_timedVars => TimedTypeOK'
<1> SUFFICES ASSUME TimedTypeOK, [TimedNext]_timedVars PROVE TimedTypeOK'
  OBVIOUS
<1>1. ASSUME NEW offset \in Indices, NEW exclude \in SUBSET Indices, Select(offset, exclude)
      PROVE  TimedTypeOK'
  BY <1>1, SelectType
<1>2. ASSUME NEW i \in Indices, Succeed(i) \/ Charge(i) PROVE TimedTypeOK'
  BY <1>2, SucceedType, ChargeType
<1>3. CASE Tick
  BY <1>3, TickType
<1>4. CASE UNCHANGED timedVars
  BY <1>4 DEF TimedTypeOK, timedVars
<1>5. QED
  BY <1>1, <1>2, <1>3, <1>4 DEF TimedNext

(* In the code's own fields the cursor stays an index, and no deadline is  *)
(* ever further ahead than a cooldown.                                     *)
THEOREM TimedTypeCorrect == TimedSpec => []TimedTypeOK
  BY TimedInitType, TimedStepType, PTL DEF TimedSpec

-----------------------------------------------------------------------------
(* The mapping of TimedPool, worker by worker.                             *)

LEMMA IndicesAreWorkers == Indices = Pool!Workers
  BY DEF Indices, Pool!Workers

LEMMA RemainingUnset ==
  ASSUME TimedTypeOK, NEW i \in Indices
  PROVE  /\ remaining[i] \in Int
         /\ remaining[i] = Pool!Unset <=> states[i].until = Zero
         /\ remaining[i] > 0 <=> states[i].until # Zero /\ now < states[i].until
  BY TimedAssumption DEF TimedTypeOK, WorkerState, remaining, Pool!Unset, Zero

LEMMA UsableIsSelectable ==
  ASSUME TimedTypeOK, NEW i \in Indices, NEW exclude
  PROVE  Usable(i, exclude) <=> Pool!Selectable(i, exclude)
  BY RemainingUnset DEF Usable, Pool!Selectable, Pool!Eligible, flags

(* Adding below twice the number of workers, the remainder is at most one  *)
(* subtraction.                                                            *)
LEMMA RemainderWraps ==
  ASSUME NEW n \in 0 .. 2 * Listed - 1
  PROVE  n % Listed = Pool!Wrap(n)
<1>1. CASE n < Listed
  BY <1>1, TimedAssumption DEF Pool!Wrap
<1>2. CASE n >= Listed
  BY <1>2, TimedAssumption DEF Pool!Wrap
<1>3. QED
  BY <1>1, <1>2, TimedAssumption

(* The scan by offsets and the distances from the cursor are inverses.     *)
LEMMA MetAtOffset ==
  ASSUME TimedTypeOK, NEW n \in Indices
  PROVE  /\ Met(n) \in Indices /\ Pool!Offset(Met(n)) = n
         /\ Pool!Offset(n) \in Indices /\ Met(Pool!Offset(n)) = n
<1>1. cursor \in Indices /\ Listed \in Nat \ {0} /\ n \in Indices
  BY TimedAssumption DEF TimedTypeOK
<1>2. Met(n) = Pool!Wrap(cursor + n)
  BY <1>1, RemainderWraps DEF Met, Indices
<1>3. Met(n) \in Indices /\ Pool!Offset(Met(n)) = n
  BY <1>1, <1>2 DEF Pool!Offset, Pool!Wrap, Indices
<1>4. Pool!Offset(n) \in Indices
  BY <1>1 DEF Pool!Offset, Indices
<1>5. Met(Pool!Offset(n)) = Pool!Wrap(cursor + Pool!Offset(n))
  BY <1>1, <1>4, RemainderWraps DEF Met, Indices
<1>6. Met(Pool!Offset(n)) = n
  BY <1>1, <1>5 DEF Pool!Offset, Pool!Wrap, Indices
<1>7. QED
  BY <1>3, <1>4, <1>6

(* A function of the workers that changes at one of them only. *)
LEMMA ChangedAtOne ==
  ASSUME NEW f, NEW g, f = [j \in Indices |-> f[j]], g = [j \in Indices |-> g[j]],
         NEW i \in Indices, \A j \in Indices \ {i} : g[j] = f[j]
  PROVE  g = [f EXCEPT ![i] = g[i]]
  OBVIOUS

LEMMA RemainingIsFunction ==
  /\ remaining = [j \in Indices |-> remaining[j]]
  /\ remaining' = [j \in Indices |-> remaining'[j]]
<1>1. remaining = [j \in Indices |-> remaining[j]]
  BY Zenon DEF remaining
<1>2. remaining' = [j \in Indices |-> remaining'[j]]
  BY Zenon DEF remaining
<1>3. QED
  BY <1>1, <1>2

-----------------------------------------------------------------------------
(* One lemma per operation of TimedPool.                                   *)

LEMMA TimedInitMaps == TimedInit => Pool!PoolInit
  BY TimedAssumption
     DEF TimedInit, Pool!PoolInit, Pool!Workers, Pool!Unset, Indices, remaining, counted, flags, Zero

LEMMA SelectMaps ==
  ASSUME TimedTypeOK, NEW offset \in Indices, NEW exclude, Select(offset, exclude)
  PROVE  Pool!NextWorker(Met(offset), exclude)
<1>1. Met(offset) \in Indices /\ Pool!Offset(Met(offset)) = offset
  BY MetAtOffset
<1>2. Pool!FirstInScan(Met(offset), exclude)
  <2>1. Pool!Selectable(Met(offset), exclude)
    BY <1>1, UsableIsSelectable DEF Select
  <2>2. ASSUME NEW v \in Indices, Pool!Selectable(v, exclude), Pool!Offset(v) < offset
        PROVE  FALSE
    <3>1. Pool!Offset(v) \in 0 .. offset - 1 /\ Met(Pool!Offset(v)) = v
      BY <2>2, MetAtOffset DEF Indices
    <3>2. ~Usable(Met(Pool!Offset(v)), exclude)
      BY <3>1 DEF Select
    <3>3. QED
      BY <2>2, <3>1, <3>2, UsableIsSelectable
  <2>3. \A v \in Indices : Pool!Selectable(v, exclude) => offset <= Pool!Offset(v)
    BY <2>2, MetAtOffset DEF Indices
  <2>4. QED
    BY <1>1, <2>1, <2>3, IndicesAreWorkers DEF Pool!FirstInScan
<1>3. cursor' = Pool!Wrap(Met(offset) + 1)
  <2>1. Met(offset) + 1 \in 0 .. 2 * Listed - 1
    BY <1>1, TimedAssumption DEF Indices
  <2>2. QED
    BY <2>1, RemainderWraps DEF Select
<1>4. QED
  BY <1>2, <1>3 DEF Pool!NextWorker, Select, remaining, counted, flags

LEMMA SucceedMaps ==
  ASSUME TimedTypeOK, NEW i \in Indices, Succeed(i)
  PROVE  Pool!ReportSuccess(i)
<1>1. \A j \in Indices :
        states'[j] = IF j = i THEN [healthy |-> TRUE, failures |-> 0, until |-> Zero]
                     ELSE states[j]
  BY DEF Succeed, TimedTypeOK
<1>2. UNCHANGED <<cursor, now>>
  BY DEF Succeed
<1>3. /\ remaining'[i] = Pool!Unset /\ counted'[i] = 0 /\ flags'[i] = TRUE
      /\ \A j \in Indices \ {i} :
           remaining'[j] = remaining[j] /\ counted'[j] = counted[j] /\ flags'[j] = flags[j]
  BY <1>1, <1>2, TimedAssumption DEF remaining, counted, flags, Pool!Unset
<1>4. remaining' = [remaining EXCEPT ![i] = remaining'[i]]
  BY <1>3, ChangedAtOne, RemainingIsFunction
<1>5. counted' = [counted EXCEPT ![i] = counted'[i]]
  BY <1>3, ChangedAtOne DEF counted
<1>6. flags' = [flags EXCEPT ![i] = flags'[i]]
  BY <1>3, ChangedAtOne DEF flags
<1>7. QED
  BY <1>2, <1>3, <1>4, <1>5, <1>6 DEF Pool!ReportSuccess

(* The uncapped count and the capped one reach the threshold together, and *)
(* a deadline set now is a cooldown ahead.                                 *)
LEMMA ChargeMaps ==
  ASSUME TimedTypeOK, NEW i \in Indices, Charge(i)
  PROVE  Pool!ReportFailure(i)
<1> DEFINE count == Pool!Bump(counted[i])
           trips == count >= Threshold
<1>1. states[i] \in WorkerState /\ now \in Nat \ {Zero}
  BY DEF TimedTypeOK
<1>2. /\ trips <=> states[i].failures + 1 >= Threshold
      /\ count = IF states[i].failures + 1 < Threshold THEN states[i].failures + 1 ELSE Threshold
  BY <1>1, TimedAssumption DEF counted, Pool!Bump, WorkerState
<1>3. /\ \A j \in Indices : states'[j] = IF j = i THEN ChargedState(i) ELSE states[j]
      /\ UNCHANGED <<cursor, now>>
  BY ChargeChanges
<1>4. /\ ChargedState(i).failures = states[i].failures + 1
      /\ ChargedState(i).healthy = (states[i].healthy /\ ~trips)
      /\ ChargedState(i).until = IF trips THEN now + OpenTime ELSE states[i].until
  BY <1>1, <1>2 DEF ChargedState, WorkerState
<1>5. /\ counted'[i] = count
      /\ flags'[i] = (flags[i] /\ ~trips)
      /\ remaining'[i] = IF trips THEN OpenTime ELSE remaining[i]
  <2>1. counted'[i] = count
    BY <1>2, <1>3, <1>4 DEF counted
  <2>2. flags'[i] = (flags[i] /\ ~trips)
    BY <1>3, <1>4 DEF flags
  <2>3. remaining'[i] = IF trips THEN OpenTime ELSE remaining[i]
    BY <1>1, <1>3, <1>4, TimedAssumption DEF remaining, Zero
  <2>4. QED
    BY <2>1, <2>2, <2>3
<1>6. \A j \in Indices \ {i} :
        remaining'[j] = remaining[j] /\ counted'[j] = counted[j] /\ flags'[j] = flags[j]
  BY <1>3 DEF remaining, counted, flags
<1>7. remaining' = [remaining EXCEPT ![i] = remaining'[i]]
  BY <1>6, ChangedAtOne, RemainingIsFunction
<1>8. counted' = [counted EXCEPT ![i] = counted'[i]]
  BY <1>6, ChangedAtOne DEF counted
<1>9. flags' = [flags EXCEPT ![i] = flags'[i]]
  BY <1>6, ChangedAtOne DEF flags
<1> HIDE DEF count, trips
<1>10. Pool!ReportFailure(i) <=>
        /\ counted' = [counted EXCEPT ![i] = count]
        /\ flags' = [flags EXCEPT ![i] = @ /\ ~trips]
        /\ remaining' = [remaining EXCEPT ![i] = IF trips THEN OpenTime ELSE @]
        /\ UNCHANGED cursor
  BY DEF Pool!ReportFailure, count, trips
<1>11. QED
  BY <1>3, <1>5, <1>7, <1>8, <1>9, <1>10

(* A tick brings every deadline ahead nearer, and if there is none, it     *)
(* changes nothing a caller could see.                                     *)
LEMMA TickMaps ==
  ASSUME TimedTypeOK, Tick
  PROVE  Pool!Elapse \/ UNCHANGED Pool!poolVars
<1>1. /\ now' = now + 1 /\ UNCHANGED <<states, cursor>>
      /\ now \in Nat
      /\ \A i \in Indices : states[i].until \in Nat
  BY DEF Tick, TimedTypeOK, WorkerState
<1>2. \A i \in Indices : remaining'[i] = IF remaining[i] > 0 THEN remaining[i] - 1 ELSE remaining[i]
  BY <1>1 DEF remaining
<1>3. remaining' = [i \in Indices |-> IF remaining[i] > 0 THEN remaining[i] - 1 ELSE remaining[i]]
  BY <1>2 DEF remaining
<1>4. UNCHANGED <<flags, counted, cursor>>
  BY <1>1 DEF counted, flags
<1>5. CASE \E i \in Indices : remaining[i] > 0
  BY <1>3, <1>4, <1>5, IndicesAreWorkers DEF Pool!Elapse
<1>6. CASE \A i \in Indices : ~(remaining[i] > 0)
  <2>1. remaining' = remaining
    BY <1>3, <1>6 DEF remaining
  <2>2. QED
    BY <1>4, <2>1 DEF Pool!poolVars
<1>7. QED
  BY <1>5, <1>6

LEMMA TimedStepMaps ==
  TimedTypeOK /\ [TimedNext]_timedVars => [Pool!PoolNext]_(Pool!poolVars)
<1> SUFFICES ASSUME TimedTypeOK, [TimedNext]_timedVars PROVE [Pool!PoolNext]_(Pool!poolVars)
  OBVIOUS
<1>1. ASSUME NEW offset \in Indices, NEW exclude \in SUBSET Indices, Select(offset, exclude)
      PROVE  Pool!PoolNext
  BY <1>1, SelectMaps, MetAtOffset, IndicesAreWorkers DEF Pool!PoolNext
<1>2. ASSUME NEW i \in Indices, Succeed(i) \/ Charge(i) PROVE Pool!PoolNext
  BY <1>2, SucceedMaps, ChargeMaps, IndicesAreWorkers DEF Pool!PoolNext
<1>3. CASE Tick
  BY <1>3, TickMaps DEF Pool!PoolNext
<1>4. CASE UNCHANGED timedVars
  BY <1>4 DEF timedVars, Pool!poolVars, remaining, counted, flags
<1>5. QED
  BY <1>1, <1>2, <1>3, <1>4 DEF TimedNext

(* The code's instants, uncapped counts and remainders implement the pool  *)
(* everything else is built on.                                            *)
THEOREM TimedPoolImplements == TimedSpec => ImplementsPool
  BY TimedTypeCorrect, TimedInitMaps, TimedStepMaps, PTL
     DEF TimedSpec, ImplementsPool, Pool!PoolSpec

(* What is due for a probe and what is shown as OPEN split at one instant. *)
THEOREM DeadlineViewsAgree == TimedSpec => []ViewsAgree
<1>1. TimedTypeOK => ViewsAgree
  <2> SUFFICES ASSUME TimedTypeOK PROVE ViewsAgree
    OBVIOUS
  <2>1. ASSUME NEW i \in Indices
        PROVE  /\ i \in Candidates <=> i \in Pool!ProbeCandidates
               /\ Shown(i) = Pool!CircuitState(i)
    <3>1. states[i].until \in Nat /\ now \in Nat
      BY DEF TimedTypeOK, WorkerState
    <3>2. i \in Candidates <=> remaining[i] <= 0
      BY <3>1 DEF Candidates, remaining
    <3>3. QED
      BY <3>2, RemainingUnset, IndicesAreWorkers
         DEF Pool!ProbeCandidates, Shown, Pool!CircuitState, flags
  <2>2. Candidates = Pool!ProbeCandidates
    BY <2>1, IndicesAreWorkers DEF Candidates, Pool!ProbeCandidates
  <2>3. QED
    BY <2>1, <2>2 DEF ViewsAgree
<1>2. QED
  BY <1>1, TimedTypeCorrect, PTL
=============================================================================
