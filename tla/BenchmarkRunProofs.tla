-------------------------- MODULE BenchmarkRunProofs --------------------------
(***************************************************************************)
(* Proofs about the load benchmark, for every number of goroutines and     *)
(* requests: no slot is measured twice, the error that Run returns names   *)
(* the cause, samples that are returned are complete unless the benchmark  *)
(* was interrupted, and each request belongs to one goroutine from its     *)
(* index to its sample.                                                    *)
(*                                                                         *)
(* Then about its summary, for every number of samples: the percentiles    *)
(* exist, are in order, and put the first token before the end.            *)
(***************************************************************************)
EXTENDS BenchmarkRun, LatencySummary, FiniteSetTheorems, TLAPS

Locals == [pc : Places, index : Nat, cause : Causes]

Done == {g \in Goroutines : worker[g].pc = "done"}

(* Nobody is lost track of: an index that has been handed out is held, or  *)
(* its slot has been written.                                              *)
Carries(g, i) == worker[g].pc \in {"checking", "requesting", "failed"} /\ worker[g].index = i

TypeInv ==
  /\ stage \in {"warmup", "measuring", "samples", "error"}
  /\ warmed \in 0 .. Warmup
  /\ worker \in [Goroutines -> Locals]
  /\ taken \in Nat
  /\ sampled \subseteq Slots
  /\ firstErr \in Causes
  /\ interrupted \in BOOLEAN

Overshoot == taken <= Measured + Cardinality(Done)

(* The slots that are held are among those handed out.                     *)
SlotsInv ==
  /\ \A i \in sampled : i < taken
  /\ \A g \in Goroutines : Holds(g) => worker[g].index \in Slots /\ worker[g].index < taken
  /\ SlotsNotShared

(* A goroutine that has failed has a cause, and one that was canceled was  *)
(* canceled by an interrupt or by a failure before it.                     *)
ErrorInv ==
  /\ \A g \in Goroutines : worker[g].pc = "failed" => worker[g].cause # "none"
  /\ \A g \in Goroutines : worker[g].cause = "canceled" => ContextDone
  /\ ErrorIsGenuine

CompleteInv ==
  /\ ~ContextDone =>
       /\ \A i \in Slots : i < taken => i \in sampled \/ \E g \in Goroutines : Carries(g, i)
       /\ \A g \in Goroutines : worker[g].pc = "done" => taken >= Measured
  /\ stage = "samples" => firstErr = "none"
  /\ CompleteUnlessInterrupted

IInv == TypeInv /\ Overshoot /\ SlotsInv /\ ErrorInv /\ CompleteInv

-----------------------------------------------------------------------------
(* One goroutine moves. *)

(* What a step of goroutine g leaves of the others. *)
Moves(g, q) ==
  /\ worker' \in [Goroutines -> Locals]
  /\ worker'[g] = q
  /\ \A h \in Goroutines \ {g} : worker'[h] = worker[h]

LEMMA MoveTyped ==
  ASSUME TypeInv, NEW g \in Goroutines, NEW q \in Locals, worker' = [worker EXCEPT ![g] = q]
  PROVE  Moves(g, q)
<1>1. worker' \in [Goroutines -> Locals]
  BY DEF TypeInv
<1>2. worker'[g] = q /\ \A h \in Goroutines \ {g} : worker'[h] = worker[h]
  BY DEF TypeInv
<1>3. QED
  BY <1>1, <1>2 DEF Moves

LEMMA DoneGrows ==
  ASSUME NEW g \in Goroutines, NEW q, Moves(g, q), worker[g].pc # "done"
  PROVE  /\ Cardinality(Done) \in Nat /\ Cardinality(Done') \in Nat
         /\ q.pc = "done" => Cardinality(Done') = Cardinality(Done) + 1
         /\ q.pc # "done" => Cardinality(Done') = Cardinality(Done)
<1> DEFINE S == Done
           T == Done'
<1>1. S \subseteq Goroutines /\ T \subseteq Goroutines /\ g \notin S
  BY DEF Done
<1>2. q.pc = "done" => T = S \cup {g}
  BY DEF Moves, Done
<1>3. q.pc # "done" => T = S
  BY DEF Moves, Done
<1> HIDE DEF S, T
<1>4. IsFiniteSet(S) /\ IsFiniteSet(T)
  BY <1>1, BenchmarkAssumption, FS_Subset
<1>5. Cardinality(S) \in Nat /\ Cardinality(T) \in Nat
  BY <1>4, FS_CardinalityType
<1>6. Cardinality(S \cup {g}) = Cardinality(S) + 1
  BY <1>1, <1>4, FS_AddElement
<1>7. QED
  BY <1>2, <1>3, <1>5, <1>6 DEF S, T

LEMMA TakeKeeps ==
  ASSUME IInv, NEW g \in Goroutines, TakeIndex(g)
  PROVE  IInv'
<1> DEFINE over == taken >= Measured
           q == [[worker[g] EXCEPT !.index = taken] EXCEPT !.pc = IF over THEN "done" ELSE "checking"]
<1>1. stage = "measuring" /\ worker[g].pc = "ready" /\ worker[g] \in Locals /\ taken \in Nat
  BY DEF TakeIndex, At, IInv, TypeInv
<1>2. /\ q \in Locals /\ q.index = taken /\ q.cause = worker[g].cause
      /\ q.pc = IF over THEN "done" ELSE "checking"
  BY <1>1 DEF Locals, Places
<1>3. worker' = [worker EXCEPT ![g] = q]
  BY <1>1 DEF TakeIndex, Take, IInv, TypeInv
<1>4. taken' = taken + 1 /\ UNCHANGED <<stage, warmed, sampled, firstErr, interrupted>>
  BY DEF TakeIndex, Take
<1> HIDE DEF q
<1>5. Moves(g, q)
  BY <1>2, <1>3, MoveTyped DEF IInv
<1>6. worker'[g] = q /\ \A h \in Goroutines \ {g} : worker'[h] = worker[h]
  BY <1>5 DEF Moves
<1>7. TypeInv'
  BY <1>1, <1>4, <1>5 DEF IInv, TypeInv, Moves
<1>8. Overshoot'
  BY <1>1, <1>2, <1>4, <1>5, DoneGrows, BenchmarkAssumption DEF IInv, Overshoot
<1>9. taken < Measured => taken \in Slots
  BY <1>1, BenchmarkAssumption DEF Slots
<1>10. SlotsInv'
  <2>1. \A i \in Slots : i \in Nat
    BY DEF Slots
  <2>2. \A i \in sampled' : i < taken'
    BY <1>1, <1>4, <2>1 DEF IInv, TypeInv, SlotsInv
  <2>3. ASSUME NEW h \in Goroutines, Holds(h)'
        PROVE  worker'[h].index \in Slots /\ worker'[h].index < taken'
    BY <1>1, <1>2, <1>4, <1>6, <1>9, <2>1, <2>3, BenchmarkAssumption DEF IInv, SlotsInv, Holds
  <2>4. SlotsNotShared'
    <3>1. ASSUME NEW h \in Goroutines, h # g, Holds(h)
          PROVE  worker[h].index # taken
      BY <1>1, <2>1, <3>1 DEF IInv, SlotsInv
    <3>2. taken \notin sampled
      BY <1>1 DEF IInv, SlotsInv
    <3>3. QED
      BY <1>2, <1>4, <1>6, <3>1, <3>2 DEF IInv, SlotsInv, SlotsNotShared, Holds
  <2>5. QED
    BY <2>2, <2>3, <2>4 DEF SlotsInv
<1>11. ErrorInv'
  BY <1>2, <1>4, <1>6 DEF IInv, ErrorInv, ErrorIsGenuine, ContextDone
<1>12. CompleteInv'
  <2>1. ASSUME ~ContextDone, NEW i \in Slots, i < taken + 1
        PROVE  i \in sampled \/ \E h \in Goroutines : Carries(h, i)'
    <3>1. i \in Nat /\ i < Measured
      BY BenchmarkAssumption DEF Slots
    <3>2. CASE i = taken
      BY <1>1, <1>2, <1>6, <3>1, <3>2, BenchmarkAssumption DEF Carries
    <3>3. CASE i # taken
      <4>1. i \in sampled \/ \E h \in Goroutines : Carries(h, i)
        BY <1>1, <2>1, <3>1, <3>3 DEF IInv, CompleteInv
      <4>2. QED
        BY <1>1, <1>6, <4>1 DEF Carries
    <3>4. QED
      BY <3>2, <3>3
  <2>2. ASSUME ~ContextDone, NEW h \in Goroutines, worker'[h].pc = "done"
        PROVE  taken + 1 >= Measured
    BY <1>1, <1>2, <1>6, <2>2, BenchmarkAssumption DEF IInv, CompleteInv
  <2>3. QED
    BY <1>1, <1>4, <2>1, <2>2 DEF IInv, CompleteInv, CompleteUnlessInterrupted, ContextDone
<1>13. QED
  BY <1>7, <1>8, <1>10, <1>11, <1>12 DEF IInv

LEMMA CheckKeeps ==
  ASSUME IInv, NEW g \in Goroutines, CheckContext(g)
  PROVE  IInv'
<1> DEFINE q == [worker[g] EXCEPT !.pc = IF ContextDone THEN "done" ELSE "requesting"]
<1>1. stage = "measuring" /\ worker[g].pc = "checking" /\ worker[g] \in Locals /\ taken \in Nat
  BY DEF CheckContext, At, IInv, TypeInv
<1>2. /\ q \in Locals /\ q.index = worker[g].index /\ q.cause = worker[g].cause
      /\ q.pc = IF ContextDone THEN "done" ELSE "requesting"
  BY <1>1 DEF Locals, Places
<1>3. worker' = [worker EXCEPT ![g] = q] /\ UNCHANGED <<stage, warmed, taken, sampled, firstErr, interrupted>>
  BY DEF CheckContext, Goto
<1> HIDE DEF q
<1>4. Moves(g, q)
  BY <1>2, <1>3, MoveTyped DEF IInv
<1>5. worker'[g] = q /\ \A h \in Goroutines \ {g} : worker'[h] = worker[h]
  BY <1>4 DEF Moves
<1>6. TypeInv'
  BY <1>3, <1>4 DEF IInv, TypeInv, Moves
<1>7. Overshoot'
  BY <1>1, <1>3, <1>4, DoneGrows, BenchmarkAssumption DEF IInv, Overshoot
<1>8. SlotsInv'
  BY <1>1, <1>2, <1>3, <1>5 DEF IInv, SlotsInv, SlotsNotShared, Holds
<1>9. ErrorInv'
  BY <1>2, <1>3, <1>5 DEF IInv, ErrorInv, ErrorIsGenuine, ContextDone
<1>10. CompleteInv'
  <2>1. ASSUME ~ContextDone
        PROVE  /\ \A i \in Slots : i < taken => i \in sampled \/ \E h \in Goroutines : Carries(h, i)'
               /\ \A h \in Goroutines : worker'[h].pc = "done" => taken >= Measured
    BY <1>1, <1>2, <1>5, <2>1 DEF IInv, CompleteInv, Carries
  <2>2. QED
    BY <1>1, <1>3, <2>1 DEF IInv, CompleteInv, CompleteUnlessInterrupted, ContextDone
<1>11. QED
  BY <1>6, <1>7, <1>8, <1>9, <1>10 DEF IInv

LEMMA SucceedKeeps ==
  ASSUME IInv, NEW g \in Goroutines, RequestSucceeds(g)
  PROVE  IInv'
<1> DEFINE q == [worker[g] EXCEPT !.pc = "ready"]
           slot == worker[g].index
<1>1. stage = "measuring" /\ worker[g].pc = "requesting" /\ worker[g] \in Locals /\ taken \in Nat
  BY DEF RequestSucceeds, At, IInv, TypeInv
<1>2. q \in Locals /\ q.index = slot /\ q.cause = worker[g].cause /\ q.pc = "ready"
  BY <1>1 DEF Locals, Places
<1>3. /\ worker' = [worker EXCEPT ![g] = q] /\ sampled' = sampled \cup {slot}
      /\ UNCHANGED <<stage, warmed, taken, firstErr, interrupted>>
  BY DEF RequestSucceeds, Goto
<1>4. slot \in Slots /\ slot < taken /\ slot \notin sampled
      /\ \A h \in Goroutines \ {g} : Holds(h) => worker[h].index # slot
  BY <1>1 DEF IInv, SlotsInv, SlotsNotShared, Holds
<1> HIDE DEF q
<1>5. Moves(g, q)
  BY <1>2, <1>3, MoveTyped DEF IInv
<1>6. worker'[g] = q /\ \A h \in Goroutines \ {g} : worker'[h] = worker[h]
  BY <1>5 DEF Moves
<1>7. TypeInv'
  BY <1>3, <1>4, <1>5 DEF IInv, TypeInv, Moves
<1>8. Overshoot'
  BY <1>1, <1>2, <1>3, <1>5, DoneGrows, BenchmarkAssumption DEF IInv, Overshoot
<1>9. SlotsInv'
  BY <1>1, <1>2, <1>3, <1>4, <1>6 DEF IInv, SlotsInv, SlotsNotShared, Holds
<1>10. ErrorInv'
  BY <1>2, <1>3, <1>6 DEF IInv, ErrorInv, ErrorIsGenuine, ContextDone
<1>11. CompleteInv'
  <2>1. ASSUME ~ContextDone
        PROVE  /\ \A i \in Slots : i < taken => i \in sampled' \/ \E h \in Goroutines : Carries(h, i)'
               /\ \A h \in Goroutines : worker'[h].pc = "done" => taken >= Measured
    BY <1>1, <1>2, <1>3, <1>6, <2>1 DEF IInv, CompleteInv, Carries
  <2>2. QED
    BY <1>1, <1>3, <2>1 DEF IInv, CompleteInv, CompleteUnlessInterrupted, ContextDone
<1>12. QED
  BY <1>7, <1>8, <1>9, <1>10, <1>11 DEF IInv

LEMMA FailKeeps ==
  ASSUME IInv, NEW g \in Goroutines, RequestFails(g)
  PROVE  IInv'
<1>1. stage = "measuring" /\ worker[g].pc = "requesting" /\ worker[g] \in Locals /\ taken \in Nat
  BY DEF RequestFails, At, IInv, TypeInv
<1>2. PICK why \in {"server"} \cup (IF ContextDone THEN {"canceled"} ELSE {}) :
        worker' = [worker EXCEPT ![g].pc = "failed", ![g].cause = why]
  BY DEF RequestFails
<1> DEFINE q == [[worker[g] EXCEPT !.pc = "failed"] EXCEPT !.cause = why]
<1>3. why \in Causes /\ why # "none" /\ (why = "canceled" => ContextDone)
  BY <1>2 DEF Causes
<1>4. q \in Locals /\ q.index = worker[g].index /\ q.cause = why /\ q.pc = "failed"
  BY <1>1, <1>3 DEF Locals, Places
<1>5. worker' = [worker EXCEPT ![g] = q] /\ UNCHANGED <<stage, warmed, taken, sampled, firstErr, interrupted>>
  BY <1>2 DEF RequestFails, IInv, TypeInv
<1> HIDE DEF q
<1>6. Moves(g, q)
  BY <1>4, <1>5, MoveTyped DEF IInv
<1>7. worker'[g] = q /\ \A h \in Goroutines \ {g} : worker'[h] = worker[h]
  BY <1>6 DEF Moves
<1>8. TypeInv'
  BY <1>5, <1>6 DEF IInv, TypeInv, Moves
<1>9. Overshoot'
  BY <1>1, <1>4, <1>5, <1>6, DoneGrows, BenchmarkAssumption DEF IInv, Overshoot
<1>10. SlotsInv'
  BY <1>4, <1>5, <1>7 DEF IInv, SlotsInv, SlotsNotShared, Holds
<1>11. ErrorInv'
  BY <1>3, <1>4, <1>5, <1>7 DEF IInv, ErrorInv, ErrorIsGenuine, ContextDone
<1>12. CompleteInv'
  <2>1. ASSUME ~ContextDone
        PROVE  /\ \A i \in Slots : i < taken => i \in sampled \/ \E h \in Goroutines : Carries(h, i)'
               /\ \A h \in Goroutines : worker'[h].pc = "done" => taken >= Measured
    BY <1>1, <1>4, <1>7, <2>1 DEF IInv, CompleteInv, Carries
  <2>2. QED
    BY <1>1, <1>5, <2>1 DEF IInv, CompleteInv, CompleteUnlessInterrupted, ContextDone
<1>13. QED
  BY <1>8, <1>9, <1>10, <1>11, <1>12 DEF IInv

LEMMA ReportKeeps ==
  ASSUME IInv, NEW g \in Goroutines, ReportError(g)
  PROVE  IInv'
<1> DEFINE q == [worker[g] EXCEPT !.pc = "done"]
           err == IF firstErr = "none" THEN worker[g].cause ELSE firstErr
<1>1. stage = "measuring" /\ worker[g].pc = "failed" /\ worker[g] \in Locals /\ taken \in Nat
  BY DEF ReportError, At, IInv, TypeInv
<1>2. q \in Locals /\ q.index = worker[g].index /\ q.cause = worker[g].cause /\ q.pc = "done"
  BY <1>1 DEF Locals, Places
<1>3. /\ worker' = [worker EXCEPT ![g] = q] /\ firstErr' = err
      /\ UNCHANGED <<stage, warmed, taken, sampled, interrupted>>
  BY DEF ReportError, Fail, Goto
<1>4. err \in Causes /\ err # "none"
  BY <1>1 DEF IInv, TypeInv, ErrorInv, Locals
<1>5. err = "canceled" => interrupted
  BY <1>4 DEF IInv, ErrorInv, ErrorIsGenuine, ContextDone
<1> HIDE DEF q, err
<1>6. Moves(g, q)
  BY <1>2, <1>3, MoveTyped DEF IInv
<1>7. worker'[g] = q /\ \A h \in Goroutines \ {g} : worker'[h] = worker[h]
  BY <1>6 DEF Moves
<1>8. TypeInv'
  BY <1>3, <1>4, <1>6 DEF IInv, TypeInv, Moves
<1>9. Overshoot'
  BY <1>1, <1>2, <1>3, <1>6, DoneGrows, BenchmarkAssumption DEF IInv, Overshoot
<1>10. SlotsInv'
  BY <1>2, <1>3, <1>7 DEF IInv, SlotsInv, SlotsNotShared, Holds
<1>11. ContextDone'
  BY <1>3, <1>4 DEF ContextDone
<1>12. ErrorInv'
  BY <1>2, <1>3, <1>5, <1>7, <1>11 DEF IInv, ErrorInv, ErrorIsGenuine
<1>13. CompleteInv'
  BY <1>1, <1>3, <1>11 DEF CompleteInv, CompleteUnlessInterrupted
<1>14. QED
  BY <1>8, <1>9, <1>10, <1>12, <1>13 DEF IInv

-----------------------------------------------------------------------------
(* Run and the interrupt. *)

LEMMA WarmupKeeps ==
  ASSUME IInv, WarmUp \/ WarmupFails \/ Launch
  PROVE  IInv'
<1>1. stage' \in {"warmup", "measuring", "error"} /\ warmed' \in 0 .. Warmup
  BY BenchmarkAssumption DEF WarmUp, WarmupFails, Launch, MoveOn, IInv, TypeInv
<1>2. UNCHANGED <<worker, taken, sampled, firstErr, interrupted>>
  BY DEF WarmUp, WarmupFails, Launch, MoveOn
<1>3. TypeInv' /\ Overshoot'
  BY <1>1, <1>2 DEF IInv, TypeInv, Overshoot, Done
<1>4. SlotsInv' /\ ErrorInv'
  BY <1>2 DEF IInv, SlotsInv, SlotsNotShared, Holds, ErrorInv, ErrorIsGenuine, ContextDone
<1>5. CompleteInv'
  BY <1>1, <1>2 DEF IInv, CompleteInv, CompleteUnlessInterrupted, ContextDone, Carries
<1>6. QED
  BY <1>3, <1>4, <1>5 DEF IInv

LEMMA CollectKeeps ==
  ASSUME IInv, Collect
  PROVE  IInv'
<1>1. \A g \in Goroutines : worker[g].pc = "done"
  BY DEF Collect, At
<1>2. stage' = IF firstErr = "none" THEN "samples" ELSE "error"
  BY DEF Collect, MoveOn
<1>3. UNCHANGED <<warmed, worker, taken, sampled, firstErr, interrupted>>
  BY DEF Collect, MoveOn
<1>4. TypeInv' /\ Overshoot'
  BY <1>2, <1>3 DEF IInv, TypeInv, Overshoot, Done
<1>5. SlotsInv' /\ ErrorInv'
  BY <1>3 DEF IInv, SlotsInv, SlotsNotShared, Holds, ErrorInv, ErrorIsGenuine, ContextDone
<1>6. ASSUME ~ContextDone
      PROVE  sampled = Slots
  <2>1. taken >= Measured
    <3>1. PICK g \in Goroutines : TRUE
      BY BenchmarkAssumption
    <3>2. QED
      BY <1>1, <1>6, <3>1 DEF IInv, CompleteInv
  <2>2. \A i \in Slots : i < taken
    BY <2>1, BenchmarkAssumption DEF Slots, IInv, TypeInv
  <2>3. Slots \subseteq sampled
    BY <1>1, <1>6, <2>2 DEF IInv, CompleteInv, Carries
  <2>4. QED
    BY <2>3 DEF IInv, TypeInv
<1>7. CompleteInv'
  BY <1>2, <1>3, <1>6 DEF IInv, CompleteInv, CompleteUnlessInterrupted, ContextDone, Carries
<1>8. QED
  BY <1>4, <1>5, <1>7 DEF IInv

LEMMA InterruptKeeps ==
  ASSUME IInv, Interrupt
  PROVE  IInv'
<1>1. interrupted' = TRUE /\ UNCHANGED <<stage, warmed, worker, taken, sampled, firstErr>>
  BY DEF Interrupt
<1>2. ContextDone'
  BY <1>1 DEF ContextDone
<1>3. TypeInv' /\ Overshoot'
  BY <1>1 DEF IInv, TypeInv, Overshoot, Done
<1>4. SlotsInv' /\ ErrorInv'
  BY <1>1, <1>2 DEF IInv, SlotsInv, SlotsNotShared, Holds, ErrorInv, ErrorIsGenuine
<1>5. CompleteInv'
  BY <1>1, <1>2 DEF IInv, CompleteInv, CompleteUnlessInterrupted
<1>6. QED
  BY <1>3, <1>4, <1>5 DEF IInv

LEMMA InitKeeps == BenchInit => IInv
<1> SUFFICES ASSUME BenchInit PROVE IInv
  OBVIOUS
<1>1. TypeInv
  <2>1. [pc |-> "ready", index |-> 0, cause |-> "none"] \in Locals
    BY DEF Locals, Places, Causes
  <2>2. worker \in [Goroutines -> Locals]
    BY <2>1 DEF BenchInit
  <2>3. warmed \in 0 .. Warmup /\ taken \in Nat
    BY BenchmarkAssumption DEF BenchInit
  <2>4. interrupted \in BOOLEAN
    BY DEF BenchInit
  <2>5. stage \in {"warmup", "measuring", "samples", "error"} /\ firstErr \in Causes /\ sampled \subseteq Slots
    BY DEF BenchInit, Causes
  <2>6. QED
    BY <2>2, <2>3, <2>4, <2>5 DEF TypeInv
<1>2. Done = {}
  BY DEF BenchInit, Done
<1>3. Overshoot
  <2>1. Cardinality(Done) = 0
    BY <1>2, FS_EmptySet
  <2>2. QED
    BY <2>1, BenchmarkAssumption DEF BenchInit, Overshoot
<1>4. SlotsInv /\ ErrorInv
  BY DEF BenchInit, SlotsInv, SlotsNotShared, Holds, ErrorInv, ErrorIsGenuine, ContextDone
<1>5. CompleteInv
  BY DEF BenchInit, CompleteInv, CompleteUnlessInterrupted, Slots
<1>6. QED
  BY <1>1, <1>3, <1>4, <1>5 DEF IInv

LEMMA StepKeeps == IInv /\ [BenchNext]_benchVars => IInv'
<1> SUFFICES ASSUME IInv, [BenchNext]_benchVars PROVE IInv'
  OBVIOUS
<1>1. ASSUME NEW g \in Goroutines, GoroutineStep(g) PROVE IInv'
  BY <1>1, TakeKeeps, CheckKeeps, SucceedKeeps, FailKeeps, ReportKeeps DEF GoroutineStep
<1>2. CASE UNCHANGED benchVars
  <2>1. UNCHANGED <<stage, warmed, worker, taken, sampled, firstErr, interrupted>>
    BY <1>2 DEF benchVars
  <2>2. TypeInv' /\ Overshoot' /\ SlotsInv'
    BY <2>1 DEF IInv, TypeInv, Overshoot, Done, SlotsInv, SlotsNotShared, Holds
  <2>3. ErrorInv' /\ CompleteInv'
    BY <2>1 DEF IInv, ErrorInv, ErrorIsGenuine, ContextDone, CompleteInv, CompleteUnlessInterrupted, Carries
  <2>4. QED
    BY <2>2, <2>3 DEF IInv
<1>3. QED
  BY <1>1, <1>2, WarmupKeeps, CollectKeeps, InterruptKeeps DEF BenchNext

-----------------------------------------------------------------------------
(* Theorems.                                                               *)

LEMMA AlwaysIInv == BenchSpec => []IInv
  BY InitKeeps, StepKeeps, PTL DEF BenchSpec

(* For any number of goroutines the shared index overshoots the slice by   *)
(* at most one for each, and nobody writes outside it.                     *)
THEOREM BenchTypeCorrect == BenchSpec => []BenchTypeOK
<1>1. IInv => BenchTypeOK
  <2> SUFFICES ASSUME IInv PROVE BenchTypeOK
    OBVIOUS
  <2>1. Done \subseteq Goroutines
    BY DEF Done
  <2>2. Cardinality(Done) <= Cardinality(Goroutines) /\ IsFiniteSet(Done)
    BY <2>1, BenchmarkAssumption, FS_Subset
  <2>3. Cardinality(Done) \in Nat /\ Cardinality(Goroutines) \in Nat
    BY <2>2, BenchmarkAssumption, FS_CardinalityType
  <2>4. taken \in 0 .. Measured + Cardinality(Goroutines)
    BY <2>2, <2>3, BenchmarkAssumption DEF IInv, TypeInv, Overshoot
  <2>5. QED
    BY <2>4 DEF IInv, TypeInv, BenchTypeOK, Locals
<1>2. QED
  BY <1>1, AlwaysIInv, PTL

(* However many goroutines there are and however they interleave, no slot  *)
(* is written by two requests.                                             *)
THEOREM SlotsMeasuredOnce == BenchSpec => []SlotsNotShared
<1>1. IInv => SlotsNotShared
  BY DEF IInv, SlotsInv
<1>2. QED
  BY <1>1, AlwaysIInv, PTL

(* The error that Run returns is not a cancellation of its own making.     *)
THEOREM ErrorNamesCause == BenchSpec => []ErrorIsGenuine
<1>1. IInv => ErrorIsGenuine
  BY DEF IInv, ErrorInv
<1>2. QED
  BY <1>1, AlwaysIInv, PTL

(* Samples that are returned without an interrupt are all there.           *)
THEOREM SamplesComplete == BenchSpec => []CompleteUnlessInterrupted
<1>1. IInv => CompleteUnlessInterrupted
  BY DEF IInv, CompleteInv
<1>2. QED
  BY <1>1, AlwaysIInv, PTL
-----------------------------------------------------------------------------
(* The goroutines share the measured requests out as WorkShare says.       *)

Shared == <<Left, Busy, Cardinality(sampled), ContextDone>>

BusyPlaces == {"checking", "requesting", "failed"}

(* The place of one goroutine decides who is busy. *)
LEMMA BusyMoves ==
  ASSUME IInv, NEW g \in Goroutines, NEW q, worker' = [worker EXCEPT ![g] = q]
  PROVE  Busy' = IF q.pc \in BusyPlaces THEN Busy \cup {g} ELSE Busy \ {g}
<1>1. \A h \in Goroutines : worker'[h] = IF h = g THEN q ELSE worker[h]
  BY DEF IInv, TypeInv
<1>2. QED
  BY <1>1 DEF Busy, BusyPlaces

LEMMA TakeShares ==
  ASSUME IInv, NEW g \in Goroutines, TakeIndex(g)
  PROVE  Share!Draw(g) \/ UNCHANGED Shared
<1> DEFINE over == taken >= Measured
           q == [[worker[g] EXCEPT !.index = taken] EXCEPT !.pc = IF over THEN "done" ELSE "checking"]
<1>1. worker[g].pc = "ready" /\ worker[g] \in Locals /\ g \notin Busy
  BY DEF TakeIndex, At, IInv, TypeInv, Busy
<1>2. q.pc = IF over THEN "done" ELSE "checking"
  BY <1>1 DEF Locals
<1>3. worker' = [worker EXCEPT ![g] = q]
  BY <1>1 DEF TakeIndex, Take, IInv, TypeInv
<1>4. taken' = taken + 1 /\ UNCHANGED <<sampled, ContextDone>>
  BY DEF TakeIndex, Take, ContextDone
<1> HIDE DEF q
<1>5. Busy' = IF over THEN Busy \ {g} ELSE Busy \cup {g}
  BY <1>2, <1>3, BusyMoves DEF BusyPlaces
<1>6. taken \in Nat /\ Measured \in Nat
  BY BenchmarkAssumption DEF IInv, TypeInv
<1>7. CASE over
  <2>1. Left' = Left
    BY <1>4, <1>6, <1>7 DEF Left
  <2>2. QED
    BY <1>1, <1>4, <1>5, <1>7, <2>1 DEF Shared
<1>8. CASE ~over
  <2>1. Left > 0 /\ Left' = Left - 1
    BY <1>4, <1>6, <1>8 DEF Left
  <2>2. QED
    BY <1>1, <1>4, <1>5, <1>8, <2>1 DEF Share!Draw
<1>9. QED
  BY <1>7, <1>8

LEMMA CheckShares ==
  ASSUME IInv, NEW g \in Goroutines, CheckContext(g)
  PROVE  Share!Lose(g) \/ UNCHANGED Shared
<1> DEFINE q == [worker[g] EXCEPT !.pc = IF ContextDone THEN "done" ELSE "requesting"]
<1>1. worker[g].pc = "checking" /\ worker[g] \in Locals /\ g \in Busy
  BY DEF CheckContext, At, IInv, TypeInv, Busy
<1>2. q.pc = IF ContextDone THEN "done" ELSE "requesting"
  BY <1>1 DEF Locals
<1>3. worker' = [worker EXCEPT ![g] = q] /\ UNCHANGED <<taken, sampled, ContextDone>>
  BY DEF CheckContext, Goto, ContextDone
<1> HIDE DEF q
<1>4. Busy' = IF ContextDone THEN Busy \ {g} ELSE Busy \cup {g}
  BY <1>2, <1>3, BusyMoves DEF BusyPlaces
<1>5. Left' = Left
  BY <1>3 DEF Left
<1>6. CASE ContextDone
  BY <1>1, <1>3, <1>4, <1>5, <1>6 DEF Share!Lose
<1>7. CASE ~ContextDone
  BY <1>1, <1>3, <1>4, <1>5, <1>7 DEF Shared
<1>8. QED
  BY <1>6, <1>7

LEMMA SucceedShares ==
  ASSUME IInv, NEW g \in Goroutines, RequestSucceeds(g)
  PROVE  Share!Finish(g)
<1> DEFINE q == [worker[g] EXCEPT !.pc = "ready"]
           slot == worker[g].index
<1>1. worker[g].pc = "requesting" /\ worker[g] \in Locals /\ g \in Busy
  BY DEF RequestSucceeds, At, IInv, TypeInv, Busy
<1>2. q.pc = "ready"
  BY <1>1 DEF Locals
<1>3. /\ worker' = [worker EXCEPT ![g] = q] /\ sampled' = sampled \cup {slot}
      /\ UNCHANGED <<taken, ContextDone>>
  BY DEF RequestSucceeds, Goto, ContextDone
<1>4. slot \notin sampled /\ IsFiniteSet(sampled)
  <2>1. IsFiniteSet(Slots)
    BY BenchmarkAssumption, FS_Interval DEF Slots
  <2>2. QED
    BY <1>1, <2>1, FS_Subset DEF IInv, TypeInv, SlotsInv, SlotsNotShared, Holds
<1> HIDE DEF q, slot
<1>5. Busy' = Busy \ {g}
  BY <1>2, <1>3, BusyMoves DEF BusyPlaces
<1>6. Cardinality(sampled') = Cardinality(sampled) + 1
  BY <1>3, <1>4, FS_AddElement
<1>7. QED
  BY <1>1, <1>3, <1>5, <1>6 DEF Share!Finish, Left

LEMMA FailShares ==
  ASSUME IInv, NEW g \in Goroutines, RequestFails(g)
  PROVE  UNCHANGED Shared
<1>1. worker[g].pc = "requesting" /\ worker[g] \in Locals /\ g \in Busy
  BY DEF RequestFails, At, IInv, TypeInv, Busy
<1>2. PICK why : worker' = [worker EXCEPT ![g].pc = "failed", ![g].cause = why]
  BY DEF RequestFails
<1> DEFINE q == [[worker[g] EXCEPT !.pc = "failed"] EXCEPT !.cause = why]
<1>3. q.pc = "failed"
  BY <1>1 DEF Locals
<1>4. worker' = [worker EXCEPT ![g] = q]
  BY <1>2 DEF IInv, TypeInv
<1> HIDE DEF q
<1>5. Busy' = Busy
  BY <1>1, <1>3, <1>4, BusyMoves DEF BusyPlaces
<1>6. UNCHANGED <<taken, sampled, ContextDone>>
  BY DEF RequestFails, ContextDone
<1>7. QED
  BY <1>5, <1>6 DEF Shared, Left

(* A failure that is reported breaks the run off, if it is not yet.        *)
LEMMA ReportShares ==
  ASSUME IInv, NEW g \in Goroutines, ReportError(g)
  PROVE  Share!Lose(g)
<1> DEFINE q == [worker[g] EXCEPT !.pc = "done"]
<1>1. worker[g].pc = "failed" /\ worker[g] \in Locals /\ g \in Busy
  BY DEF ReportError, At, IInv, TypeInv, Busy
<1>2. q.pc = "done"
  BY <1>1 DEF Locals
<1>3. worker' = [worker EXCEPT ![g] = q] /\ UNCHANGED <<taken, sampled>>
  BY DEF ReportError, Fail, Goto
<1>4. firstErr' # "none"
  BY <1>1 DEF ReportError, Fail, IInv, ErrorInv
<1> HIDE DEF q
<1>5. Busy' = Busy \ {g}
  BY <1>2, <1>3, BusyMoves DEF BusyPlaces
<1>6. ContextDone' = TRUE
  BY <1>4 DEF ContextDone
<1>7. QED
  BY <1>1, <1>3, <1>5, <1>6 DEF Share!Lose, Left

LEMMA ShareStep ==
  ASSUME IInv, [BenchNext]_benchVars
  PROVE  [Share!Next]_Shared
<1>1. ASSUME NEW g \in Goroutines, GoroutineStep(g)
      PROVE  [Share!Next]_Shared
  BY <1>1, TakeShares, CheckShares, SucceedShares, FailShares, ReportShares DEF GoroutineStep, Share!Next
<1>2. CASE WarmUp \/ WarmupFails \/ Launch \/ Collect \/ UNCHANGED benchVars
  BY <1>2 DEF WarmUp, WarmupFails, Launch, Collect, MoveOn, benchVars, Shared, Left, Busy, ContextDone
<1>3. CASE Interrupt
  <2>1. UNCHANGED <<worker, taken, sampled>> /\ ContextDone' = TRUE
    BY <1>3 DEF Interrupt, ContextDone
  <2>2. QED
    BY <2>1 DEF Share!Break, Share!Next, Left, Busy
<1>4. QED
  BY <1>1, <1>2, <1>3 DEF BenchNext

(* However the goroutines interleave, each measured request belongs to one *)
(* of them from the index to the sample, and a sample is counted once; a   *)
(* request is given up only by a run whose context has ended.              *)
THEOREM MeasurementsShared == BenchSpec => ImplementsWorkShare
<1>1. BenchInit => Share!Init
  <2>1. Cardinality({}) = 0
    BY FS_EmptySet
  <2>2. QED
    BY <2>1, BenchmarkAssumption DEF BenchInit, Share!Init, Left, Busy, ContextDone
<1>2. [Share!Next]_Shared <=> [Share!Next]_(Share!workVars)
  BY DEF Shared, Share!workVars
<1>3. IInv /\ [BenchNext]_benchVars => [Share!Next]_(Share!workVars)
  BY <1>2, ShareStep
<1>4. QED
  BY <1>1, <1>3, AlwaysIInv, PTL DEF BenchSpec, ImplementsWorkShare, Share!Spec

-----------------------------------------------------------------------------
(* The percentiles of the report.                                          *)

(* A part of a difference lies between nothing and all of it.              *)
LEMMA PartOf ==
  \A d \in Nat, f \in 0 .. 99, g \in 0 .. 99 :
    /\ d * f \in Nat /\ 0 <= d * f /\ d * f <= 100 * d
    /\ f <= g => d * f <= d * g
  BY SMT

(* Hundredths of a length point into it, and further for a higher quantile.*)
LEMMA PositionIs ==
  ASSUME NEW m \in Nat, NEW q \in 0 .. 100, NEW r \in 0 .. 100, q <= r
  PROVE  /\ m * q \in Nat /\ m * r \in Nat
         /\ m * q <= m * r /\ m * r <= 100 * m
  BY SMT

LEMMA Parts ==
  ASSUME NEW m \in Nat, NEW p \in Nat, p <= 100 * m
  PROVE  /\ p \div 100 \in 0 .. m /\ p % 100 \in 0 .. 99
         /\ p \div 100 = m => p % 100 = 0
  BY SMT

LEMMA NeighboursExist ==
  ASSUME NEW values, Sorted(values), NEW q \in 0 .. 100
  PROVE  /\ Lower(values, q) \in 0 .. Len(values) - 1
         /\ Upper(values, q) \in Lower(values, q) .. Len(values) - 1
         /\ Fraction(values, q) \in 0 .. 99
<1>1. Len(values) - 1 \in Nat
  BY DEF Sorted
<1>2. /\ Position(values, q) \in Nat
      /\ Position(values, q) <= 100 * (Len(values) - 1)
  <2>1. \A m \in Nat : m * q \in Nat /\ m * q <= 100 * m
    <3>1. q <= q
      OBVIOUS
    <3>2. QED
      BY <3>1, PositionIs
  <2>2. QED
    BY <1>1, <2>1 DEF Position
<1>3. /\ Lower(values, q) \in 0 .. Len(values) - 1
      /\ Fraction(values, q) \in 0 .. 99
  BY <1>1, <1>2, Parts DEF Lower, Fraction
<1>4. QED
  BY <1>1, <1>3 DEF Upper

(* For any number of durations, the two elements that percentile reads     *)
(* exist, and its result lies between them.                                *)
THEOREM PercentileInside ==
  ASSUME NEW values, Sorted(values), NEW q \in 0 .. 100
  PROVE  BetweenNeighbours(values, q)
<1> DEFINE l == Lower(values, q)
           u == Upper(values, q)
           f == Fraction(values, q)
<1>1. l \in 0 .. Len(values) - 1 /\ u \in l .. Len(values) - 1 /\ f \in 0 .. 99
  BY NeighboursExist
<1>2. Percentile(values, q) = 100 * values[l + 1] + (values[u + 1] - values[l + 1]) * f
  BY DEF Percentile
<1> HIDE DEF l, u, f
<1>3. /\ values[l + 1] \in Nat /\ values[u + 1] \in Nat
      /\ values[l + 1] <= values[u + 1]
  <2>1. l + 1 \in 1 .. Len(values) /\ u + 1 \in 1 .. Len(values) /\ l + 1 <= u + 1
    BY <1>1 DEF Sorted
  <2>2. QED
    BY <2>1 DEF Sorted
<1>4. PICK d \in Nat : d = values[u + 1] - values[l + 1]
  BY <1>3
<1>5. d * f \in Nat /\ d * f <= 100 * d
  BY <1>1, PartOf
<1>6. /\ 100 * values[l + 1] <= Percentile(values, q)
      /\ Percentile(values, q) <= 100 * values[u + 1]
  BY <1>2, <1>3, <1>4, <1>5
<1>7. QED
  BY <1>1, <1>6 DEF BetweenNeighbours, l, u

(* For any number of durations, P50 <= P95 <= P99, and all of them lie     *)
(* between the shortest and the longest.                                   *)
THEOREM PercentilesOrdered ==
  ASSUME NEW values, Sorted(values)
  PROVE  Ordered(values)
<1> SUFFICES ASSUME NEW q \in 0 .. 100, NEW r \in 0 .. 100, q <= r
             PROVE  /\ Percentile(values, q) <= Percentile(values, r)
                    /\ 100 * values[1] <= Percentile(values, q)
                    /\ Percentile(values, r) <= 100 * values[Len(values)]
  BY DEF Ordered
<1> DEFINE l(k) == Lower(values, k)
           u(k) == Upper(values, k)
           f(k) == Fraction(values, k)
           n == Len(values)
<1>1. n \in Nat /\ n > 0 /\ n - 1 \in Nat
  BY DEF Sorted
<1>2. \A k \in 0 .. 100 : l(k) \in 0 .. n - 1 /\ u(k) \in l(k) .. n - 1 /\ f(k) \in 0 .. 99
  BY NeighboursExist
<1>3. \A k \in 0 .. 100 :
        /\ 100 * values[l(k) + 1] <= Percentile(values, k)
        /\ Percentile(values, k) <= 100 * values[u(k) + 1]
  BY PercentileInside DEF BetweenNeighbours
<1>4. \A k \in 0 .. 100 :
        Percentile(values, k)
          = 100 * values[l(k) + 1] + (values[u(k) + 1] - values[l(k) + 1]) * f(k)
  BY DEF Percentile
<1>5. l(q) <= l(r) /\ (l(q) = l(r) => f(q) <= f(r))
  <2>1. /\ Position(values, q) \in Nat /\ Position(values, r) \in Nat
        /\ Position(values, q) <= Position(values, r)
    BY <1>1, PositionIs DEF Position
  <2>2. QED
    BY <2>1, SMT DEF Lower, Fraction
<1>6. \A k \in 0 .. 100 : u(k) = IF l(k) + 1 < n THEN l(k) + 1 ELSE n - 1
  BY DEF Upper
<1>7. \A i, j \in 1 .. n : values[i] \in Nat /\ (i <= j => values[i] <= values[j])
  BY DEF Sorted
<1> HIDE DEF l, u, f, n
<1>8. Percentile(values, q) \in Int /\ Percentile(values, r) \in Int
  <2>1. ASSUME NEW k \in 0 .. 100
        PROVE  Percentile(values, k) \in Int
    <3>1. /\ l(k) + 1 \in 1 .. n /\ u(k) + 1 \in 1 .. n
          /\ f(k) \in Int
      <4>1. l(k) \in 0 .. n - 1 /\ u(k) \in l(k) .. n - 1 /\ f(k) \in 0 .. 99
        BY <1>2
      <4>2. QED
        BY <1>1, <4>1
    <3>2. PICK a \in Int, b \in Int, c \in Int :
            a = values[l(k) + 1] /\ b = values[u(k) + 1] /\ c = f(k)
      BY <1>7, <3>1
    <3>3. Percentile(values, k) = 100 * a + (b - a) * c
      BY <1>4, <3>2
    <3>4. (b - a) * c \in Int
      <4>1. \A x, y \in Int : x * y \in Int
        BY SMT
      <4>2. b - a \in Int
        OBVIOUS
      <4>3. QED
        BY <4>1, <4>2
    <3>5. QED
      BY <3>3, <3>4
  <2>2. QED
    BY <2>1
<1>9. Percentile(values, q) <= Percentile(values, r)
  <2>1. CASE l(q) = l(r)
    <3>1. u(q) = u(r)
      BY <1>6, <2>1
    <3>2. l(r) + 1 \in 1 .. n /\ u(r) + 1 \in 1 .. n /\ l(r) + 1 <= u(r) + 1
      BY <1>1, <1>2
    <3>3. /\ values[l(r) + 1] \in Nat /\ values[u(r) + 1] \in Nat
          /\ values[l(r) + 1] <= values[u(r) + 1]
      BY <1>7, <3>2
    <3>4. PICK d \in Nat : d = values[u(r) + 1] - values[l(r) + 1]
      BY <3>3
    <3>5. d * f(q) <= d * f(r) /\ d * f(q) \in Nat /\ d * f(r) \in Nat
      <4>1. f(q) \in 0 .. 99 /\ f(r) \in 0 .. 99 /\ f(q) <= f(r)
        BY <1>2, <1>5, <2>1
      <4>2. QED
        BY <4>1, PartOf
    <3>6. /\ Percentile(values, q) = 100 * values[l(r) + 1] + d * f(q)
          /\ Percentile(values, r) = 100 * values[l(r) + 1] + d * f(r)
      BY <1>4, <2>1, <3>1, <3>4
    <3>7. QED
      BY <3>3, <3>5, <3>6
  <2>2. CASE l(q) < l(r)
    <3>1. /\ u(q) + 1 \in 1 .. n /\ l(r) + 1 \in 1 .. n /\ u(q) + 1 <= l(r) + 1
      <4>1. /\ l(q) \in 0 .. n - 1 /\ l(r) \in 0 .. n - 1
            /\ u(q) = IF l(q) + 1 < n THEN l(q) + 1 ELSE n - 1
        BY <1>2, <1>6
      <4>2. QED
        BY <1>1, <2>2, <4>1
    <3>2. /\ values[u(q) + 1] \in Nat /\ values[l(r) + 1] \in Nat
          /\ values[u(q) + 1] <= values[l(r) + 1]
      BY <1>7, <3>1
    <3>3. /\ Percentile(values, q) <= 100 * values[u(q) + 1]
          /\ 100 * values[l(r) + 1] <= Percentile(values, r)
      BY <1>3
    <3>4. Percentile(values, q) \in Int /\ Percentile(values, r) \in Int
      BY <1>8
    <3>5. QED
      BY <3>2, <3>3, <3>4
  <2>3. l(q) \in Int /\ l(r) \in Int
    BY <1>1, <1>2
  <2>4. QED
    BY <1>5, <2>1, <2>2, <2>3
<1>10. QED
  <2>1. \A k \in {q, r} :
          /\ l(k) + 1 \in 1 .. n /\ u(k) + 1 \in 1 .. n
          /\ 1 \in 1 .. n /\ n \in 1 .. n
    BY <1>1, <1>2
  <2>2. \A k \in {q, r} :
          /\ values[1] <= values[l(k) + 1] /\ values[u(k) + 1] <= values[n]
          /\ values[1] \in Nat /\ values[n] \in Nat
          /\ values[l(k) + 1] \in Nat /\ values[u(k) + 1] \in Nat
    BY <1>7, <2>1
  <2>3. 100 * values[1] <= Percentile(values, q)
    BY <1>3, <1>8, <2>2
  <2>4. Percentile(values, r) <= 100 * values[n]
    BY <1>3, <1>8, <2>2
  <2>5. QED
    BY <1>9, <2>3, <2>4 DEF n

-----------------------------------------------------------------------------
(* The summary over the lists of durations.                                *)

(* Each element of one list is at most the one at its place in the other.  *)
Below(a, b) == Len(a) = Len(b) /\ \A i \in 1 .. Len(a) : a[i] <= b[i]

SummaryInv == SummaryTypeOK /\ Below(ttft, e2e) /\ SummaryOrdered /\ FirstTokenFirst

LEMMA InOrderIs ==
  ASSUME NEW values, InOrder(values)
  PROVE  /\ Len(values) \in Nat /\ values \in Seq(Nat)
         /\ \A i \in 1 .. Len(values) : values[i] \in Nat
         /\ \A i, j \in 1 .. Len(values) : i <= j => values[i] <= values[j]
<1>1. CASE values = <<>>
  <2>1. Len(values) = 0 /\ 1 .. 0 = {}
    BY <1>1
  <2>2. QED
    BY <1>1, <2>1
<1>2. CASE Sorted(values)
  BY <1>2 DEF Sorted
<1>3. QED
  BY <1>1, <1>2 DEF InOrder

LEMMA InsertedIs ==
  ASSUME NEW values, InOrder(values), NEW d \in Nat, NEW p \in Fits(values, d)
  PROVE  /\ p \in 1 .. Len(values) + 1
         /\ Len(Inserted(values, p, d)) = Len(values) + 1
         /\ Inserted(values, p, d) \in Seq(Nat)
         /\ \A i \in 1 .. Len(values) + 1 :
              Inserted(values, p, d)[i]
                = IF i < p THEN values[i] ELSE IF i = p THEN d ELSE values[i - 1]
<1>1. /\ Len(values) \in Nat /\ p \in 1 .. Len(values) + 1
      /\ \A i \in 1 .. Len(values) : values[i] \in Nat
  BY InOrderIs DEF Fits
<1>2. \A i \in 1 .. Len(values) + 1 :
        /\ Inserted(values, p, d)[i]
             = IF i < p THEN values[i] ELSE IF i = p THEN d ELSE values[i - 1]
        /\ Inserted(values, p, d)[i] \in Nat
  BY <1>1 DEF Inserted
<1>3. Inserted(values, p, d) \in [1 .. Len(values) + 1 -> Nat]
  BY <1>2 DEF Inserted
<1>4. Inserted(values, p, d) \in Seq(Nat) /\ Len(Inserted(values, p, d)) = Len(values) + 1
  BY <1>1, <1>3
<1>5. QED
  BY <1>1, <1>2, <1>4

(* A duration put at its place leaves the list in order.                   *)
LEMMA InsertedSorted ==
  ASSUME NEW values, InOrder(values), NEW d \in Nat, NEW new \in Appended(values, d)
  PROVE  Sorted(new) /\ InOrder(new) /\ Len(new) = Len(values) + 1
<1>1. PICK p \in Fits(values, d) : new = Inserted(values, p, d)
  BY DEF Appended
<1> DEFINE n == Len(values)
<1>2. /\ n \in Nat /\ p \in 1 .. n + 1
      /\ \A i \in 1 .. n : values[i] \in Nat
      /\ \A i, j \in 1 .. n : i <= j => values[i] <= values[j]
      /\ \A i \in 1 .. p - 1 : values[i] <= d
      /\ \A i \in p .. n : d <= values[i]
  BY InOrderIs DEF Fits
<1>3. /\ Len(new) = n + 1 /\ new \in Seq(Nat)
      /\ \A i \in 1 .. n + 1 :
           new[i] = IF i < p THEN values[i] ELSE IF i = p THEN d ELSE values[i - 1]
  BY <1>1, InsertedIs
<1> HIDE DEF n
<1>4. ASSUME NEW i \in 1 .. n + 1, NEW j \in 1 .. n + 1, i <= j
      PROVE  new[i] <= new[j]
  <2>1. CASE j < p
    <3>1. /\ i \in 1 .. n /\ j \in 1 .. n
          /\ new[i] = values[i] /\ new[j] = values[j]
      BY <1>2, <1>3, <1>4, <2>1
    <3>2. QED
      BY <1>2, <1>4, <3>1
  <2>2. CASE j = p /\ i < p
    <3>1. i \in 1 .. p - 1 /\ new[i] = values[i] /\ new[j] = d
      BY <1>2, <1>3, <2>2
    <3>2. QED
      BY <1>2, <3>1
  <2>3. CASE p < j
    <3>1. j - 1 \in p .. n /\ j - 1 \in 1 .. n /\ new[j] = values[j - 1]
      BY <1>2, <1>3, <2>3
    <3>2. CASE i < p
      <4>1. i \in 1 .. n /\ i <= j - 1 /\ new[i] = values[i]
        BY <1>2, <1>3, <2>3, <3>2
      <4>2. QED
        BY <1>2, <3>1, <4>1
    <3>3. CASE i = p
      <4>1. new[i] = d
        BY <1>3, <3>3
      <4>2. QED
        BY <1>2, <3>1, <4>1
    <3>4. CASE p < i
      <4>1. i - 1 \in 1 .. n /\ i - 1 <= j - 1 /\ new[i] = values[i - 1]
        BY <1>2, <1>3, <1>4, <3>4
      <4>2. QED
        BY <1>2, <3>1, <4>1
    <3>5. QED
      BY <1>2, <3>2, <3>3, <3>4
  <2>4. CASE i = p /\ j = p
    BY <1>3, <2>4
  <2>5. QED
    BY <1>2, <1>4, <2>1, <2>2, <2>3, <2>4
<1>5. QED
  BY <1>2, <1>3, <1>4 DEF Sorted, InOrder, n

(* Two lists that grow by a pair, the smaller by the smaller, each at its  *)
(* own place, stay one below the other.                                    *)
LEMMA InsertedBelow ==
  ASSUME NEW a, NEW b, InOrder(a), InOrder(b), Below(a, b),
         NEW c \in Nat, NEW d \in Nat, c <= d,
         NEW a2 \in Appended(a, c), NEW b2 \in Appended(b, d)
  PROVE  Below(a2, b2)
<1>1. PICK p \in Fits(a, c) : a2 = Inserted(a, p, c)
  BY DEF Appended
<1>2. PICK r \in Fits(b, d) : b2 = Inserted(b, r, d)
  BY DEF Appended
<1> DEFINE n == Len(a)
<1>3. /\ n \in Nat /\ p \in 1 .. n + 1 /\ Len(a2) = n + 1
      /\ \A i \in 1 .. n + 1 : a2[i] = IF i < p THEN a[i] ELSE IF i = p THEN c ELSE a[i - 1]
  <2>1. /\ p \in 1 .. Len(a) + 1 /\ Len(Inserted(a, p, c)) = Len(a) + 1
        /\ \A i \in 1 .. Len(a) + 1 :
             Inserted(a, p, c)[i] = IF i < p THEN a[i] ELSE IF i = p THEN c ELSE a[i - 1]
    BY InsertedIs
  <2>2. Len(a) \in Nat
    BY InOrderIs
  <2>3. QED
    BY <1>1, <2>1, <2>2
<1>4. /\ r \in 1 .. n + 1 /\ Len(b2) = n + 1
      /\ \A i \in 1 .. n + 1 : b2[i] = IF i < r THEN b[i] ELSE IF i = r THEN d ELSE b[i - 1]
  <2>1. /\ r \in 1 .. Len(b) + 1 /\ Len(Inserted(b, r, d)) = Len(b) + 1
        /\ \A i \in 1 .. Len(b) + 1 :
             Inserted(b, r, d)[i] = IF i < r THEN b[i] ELSE IF i = r THEN d ELSE b[i - 1]
    BY InsertedIs
  <2>2. Len(b) = n
    BY DEF Below
  <2>3. QED
    BY <1>2, <2>1, <2>2
<1>5. /\ \A i \in 1 .. n : a[i] \in Nat /\ b[i] \in Nat /\ a[i] <= b[i]
      /\ \A i, j \in 1 .. n : i <= j => a[i] <= a[j] /\ b[i] <= b[j]
  <2>1. Len(b) = n /\ \A i \in 1 .. n : a[i] <= b[i]
    BY DEF Below
  <2>2. /\ \A i \in 1 .. n : a[i] \in Nat
        /\ \A i, j \in 1 .. n : i <= j => a[i] <= a[j]
    BY InOrderIs
  <2>3. /\ \A i \in 1 .. Len(b) : b[i] \in Nat
        /\ \A i, j \in 1 .. Len(b) : i <= j => b[i] <= b[j]
    BY InOrderIs
  <2>4. QED
    BY <2>1, <2>2, <2>3
<1>6. /\ \A i \in 1 .. p - 1 : a[i] <= c
      /\ \A i \in p .. n : c <= a[i]
      /\ \A i \in 1 .. r - 1 : b[i] <= d
      /\ \A i \in r .. n : d <= b[i]
  BY DEF Fits, Below
<1> HIDE DEF n
<1>7. ASSUME NEW i \in 1 .. n + 1
      PROVE  a2[i] <= b2[i]
  <2>1. /\ i < p => i \in 1 .. n /\ i \in 1 .. p - 1 /\ a2[i] = a[i]
        /\ i = p => (i \in 1 .. n => i \in p .. n) /\ a2[i] = c
        /\ p < i => i - 1 \in 1 .. n /\ a2[i] = a[i - 1]
    BY <1>3
  <2>2. /\ i < r => i \in 1 .. n /\ b2[i] = b[i]
        /\ i = r => (i - 1 \in 1 .. n => i - 1 \in 1 .. r - 1) /\ b2[i] = d
        /\ r < i => i - 1 \in 1 .. n /\ i - 1 \in r .. n /\ b2[i] = b[i - 1]
    BY <1>3, <1>4
  <2>3. /\ i \in 1 .. n => a[i] \in Nat /\ b[i] \in Nat /\ a[i] <= b[i]
        /\ i - 1 \in 1 .. n => a[i - 1] \in Nat /\ b[i - 1] \in Nat /\ a[i - 1] <= b[i - 1]
    BY <1>5
  <2>4. i \in 1 .. n /\ i - 1 \in 1 .. n => b[i - 1] <= b[i]
    BY <1>3, <1>5
  <2>5. /\ i \in 1 .. p - 1 => a[i] <= c
        /\ i \in p .. n => c <= a[i]
        /\ i - 1 \in 1 .. r - 1 => b[i - 1] <= d
        /\ i - 1 \in r .. n => d <= b[i - 1]
    BY <1>6
  <2>6. CASE i < p
    BY <1>3, <1>4, <2>1, <2>2, <2>3, <2>5, <2>6
  <2>7. CASE i = p
    BY <1>3, <1>4, <2>1, <2>2, <2>3, <2>5, <2>7
  <2>8. CASE p < i
    BY <1>3, <1>4, <2>1, <2>2, <2>3, <2>4, <2>5, <2>8
  <2>9. QED
    BY <1>3, <2>6, <2>7, <2>8
<1>8. QED
  BY <1>3, <1>4, <1>7 DEF Below

LEMMA PercentileNat ==
  ASSUME NEW values, Sorted(values), NEW q \in 0 .. 100
  PROVE  Percentile(values, q) \in Nat
<1> DEFINE l == Lower(values, q)
           u == Upper(values, q)
           f == Fraction(values, q)
<1>1. l \in 0 .. Len(values) - 1 /\ u \in l .. Len(values) - 1 /\ f \in 0 .. 99
  BY NeighboursExist
<1>2. Percentile(values, q) = 100 * values[l + 1] + (values[u + 1] - values[l + 1]) * f
  BY DEF Percentile
<1> HIDE DEF l, u, f
<1>3. l + 1 \in 1 .. Len(values) /\ u + 1 \in 1 .. Len(values) /\ l + 1 <= u + 1
  BY <1>1 DEF Sorted
<1>4. /\ values[l + 1] \in Nat /\ values[u + 1] \in Nat
      /\ values[l + 1] <= values[u + 1]
  BY <1>3 DEF Sorted
<1>5. PICK d \in Nat : d = values[u + 1] - values[l + 1]
  BY <1>4
<1>6. d * f \in Nat
  BY <1>1, PartOf
<1>7. QED
  BY <1>2, <1>4, <1>5, <1>6

(* The percentile of the lower list is the lower one.                      *)
LEMMA PercentileBelow ==
  ASSUME NEW a, NEW b, Sorted(a), Sorted(b), Below(a, b), NEW q \in 0 .. 100
  PROVE  Percentile(a, q) <= Percentile(b, q)
<1> DEFINE l == Lower(a, q)
           u == Upper(a, q)
           f == Fraction(a, q)
<1>1. l \in 0 .. Len(a) - 1 /\ u \in l .. Len(a) - 1 /\ f \in 0 .. 99
  BY NeighboursExist
<1>2. Lower(b, q) = l /\ Upper(b, q) = u /\ Fraction(b, q) = f
  BY DEF Below, Position, Lower, Upper, Fraction
<1>3. /\ Percentile(a, q) = 100 * a[l + 1] + (a[u + 1] - a[l + 1]) * f
      /\ Percentile(b, q) = 100 * b[l + 1] + (b[u + 1] - b[l + 1]) * f
  BY <1>2 DEF Percentile
<1> HIDE DEF l, u, f
<1>4. l + 1 \in 1 .. Len(a) /\ u + 1 \in 1 .. Len(a)
  BY <1>1 DEF Sorted
<1>5. /\ a[l + 1] \in Nat /\ a[u + 1] \in Nat /\ b[l + 1] \in Nat /\ b[u + 1] \in Nat
      /\ a[l + 1] <= b[l + 1] /\ a[u + 1] <= b[u + 1]
  BY <1>4 DEF Sorted, Below
<1>6. \A w, x, y, z \in Nat : \A k \in 0 .. 99 :
        w <= y /\ x <= z => 100 * w + (x - w) * k <= 100 * y + (z - y) * k
  <2>1. ASSUME NEW w \in Nat, NEW x \in Nat, NEW y \in Nat, NEW z \in Nat,
               NEW k \in 0 .. 99, w <= y, x <= z
        PROVE  100 * w + (x - w) * k <= 100 * y + (z - y) * k
    <3>1. (y - w) * (100 - k) >= 0 /\ (z - x) * k >= 0
      <4>1. \A e, g \in Nat : e * g >= 0
        BY SMT
      <4>2. y - w \in Nat /\ z - x \in Nat /\ 100 - k \in Nat /\ k \in Nat
        BY <2>1
      <4>3. QED
        BY <4>1, <4>2
    <3>2. /\ 100 * w + (x - w) * k = w * (100 - k) + x * k
          /\ 100 * y + (z - y) * k = y * (100 - k) + z * k
      BY SMT
    <3>3. /\ (y - w) * (100 - k) = y * (100 - k) - w * (100 - k)
          /\ (z - x) * k = z * k - x * k
      BY SMT
    <3>4. /\ w * (100 - k) \in Int /\ x * k \in Int
          /\ y * (100 - k) \in Int /\ z * k \in Int
      BY SMT
    <3>5. QED
      BY <3>1, <3>2, <3>3, <3>4
  <2>2. QED
    BY <2>1
<1>7. PICK w \in Nat, x \in Nat, y \in Nat, z \in Nat :
        w = a[l + 1] /\ x = a[u + 1] /\ y = b[l + 1] /\ z = b[u + 1]
  BY <1>5
<1>8. /\ Percentile(a, q) = 100 * w + (x - w) * f
      /\ Percentile(b, q) = 100 * y + (z - y) * f
      /\ w <= y /\ x <= z
  BY <1>3, <1>5, <1>7
<1>9. QED
  BY <1>1, <1>6, <1>8

LEMMA TokenTimeNat ==
  ASSUME NEW sample \in Samples, HasTokenTime(sample)
  PROVE  TokenTime(sample) \in Nat
<1>1. /\ sample.TTFT \in Nat /\ sample.E2E \in Nat /\ sample.CompletionTokens \in Nat
      /\ sample.TTFT <= sample.E2E
  BY SummaryAssumption DEF Samples
<1>2. PICK x \in Nat : x = sample.E2E - sample.TTFT
  BY <1>1
<1>3. PICK y \in Nat : y = sample.CompletionTokens - 1 /\ y > 0
  BY <1>1 DEF HasTokenTime
<1>4. x \div y \in Nat
  BY <1>3, SMT
<1>5. QED
  BY <1>2, <1>3, <1>4 DEF TokenTime

(* latencyStats of lists in order: whole, ordered, and lower for a list    *)
(* that is below.                                                          *)
LEMMA StatsOrdered ==
  ASSUME NEW values, InOrder(values)
  PROVE  /\ LatencyStats(values) \in [Quantiles -> Nat]
         /\ \A q, r \in Quantiles :
              q <= r => LatencyStats(values)[q] <= LatencyStats(values)[r]
<1>1. Quantiles \subseteq 0 .. 100
  BY DEF Quantiles
<1>2. CASE values = <<>>
  BY <1>2 DEF LatencyStats, Quantiles
<1>3. CASE Sorted(values) /\ values # <<>>
  <2>1. \A q \in Quantiles : LatencyStats(values)[q] = Percentile(values, q)
    BY <1>3 DEF LatencyStats
  <2>2. \A q \in Quantiles : Percentile(values, q) \in Nat
    BY <1>1, <1>3, PercentileNat
  <2>3. \A q, r \in Quantiles : q <= r => Percentile(values, q) <= Percentile(values, r)
    BY <1>1, <1>3, PercentilesOrdered DEF Ordered
  <2>4. LatencyStats(values) \in [Quantiles -> Nat]
    BY <1>3, <2>2 DEF LatencyStats
  <2>5. QED
    BY <2>1, <2>3, <2>4
<1>4. QED
  BY <1>2, <1>3 DEF InOrder

LEMMA StatsBelow ==
  ASSUME NEW a, NEW b, InOrder(a), InOrder(b), Below(a, b), NEW q \in Quantiles
  PROVE  LatencyStats(a)[q] <= LatencyStats(b)[q]
<1>1. q \in 0 .. 100
  BY DEF Quantiles
<1>2. a \in Seq(Nat) /\ b \in Seq(Nat) /\ Len(a) = Len(b)
  BY InOrderIs DEF Below
<1>3. CASE a = <<>>
  BY <1>2, <1>3 DEF LatencyStats
<1>4. CASE a # <<>>
  <2>1. b # <<>> /\ Sorted(a) /\ Sorted(b)
    BY <1>2, <1>4 DEF InOrder
  <2>2. QED
    BY <1>1, <1>4, <2>1, PercentileBelow DEF LatencyStats
<1>5. QED
  BY <1>3, <1>4

LEMMA SummaryStarts == SummaryInit => SummaryInv
<1> SUFFICES ASSUME SummaryInit
             PROVE  SummaryInv
  OBVIOUS
<1>1. /\ ttft = <<>> /\ tpot = <<>> /\ e2e = <<>> /\ Len(<<>>) = 0
      /\ left \in 0 .. MaxSamples /\ written = FALSE
  BY DEF SummaryInit
<1>2. SummaryOrdered /\ FirstTokenFirst /\ summary \in [{"TTFT", "TPOT", "E2E"} -> [Quantiles -> Nat]]
  BY DEF SummaryInit, SummaryOrdered, FirstTokenFirst
<1>3. Below(ttft, e2e) /\ \A values \in {ttft, tpot, e2e} : InOrder(values)
  BY <1>1 DEF Below, InOrder
<1>4. Len(ttft) = Len(e2e) /\ Len(tpot) <= Len(e2e)
  BY <1>1
<1>5. written \in BOOLEAN
  BY <1>1
<1>6. QED
  BY <1>1, <1>2, <1>3, <1>4, <1>5, Zenon DEF SummaryInv, SummaryTypeOK

LEMMA VisitKeeps ==
  ASSUME SummaryInv, NEW sample \in Samples, Visit(sample)
  PROVE  SummaryInv'
<1>1. sample.TTFT \in Nat /\ sample.E2E \in Nat /\ sample.TTFT <= sample.E2E
  BY SummaryAssumption DEF Samples
<1>2. /\ InOrder(ttft) /\ InOrder(tpot) /\ InOrder(e2e)
      /\ Len(ttft) = Len(e2e) /\ Len(tpot) <= Len(e2e)
  BY DEF SummaryInv, SummaryTypeOK
<1>3. InOrder(ttft') /\ Len(ttft') = Len(ttft) + 1
  BY <1>1, <1>2, InsertedSorted DEF Visit
<1>4. InOrder(e2e') /\ Len(e2e') = Len(e2e) + 1
  BY <1>1, <1>2, InsertedSorted DEF Visit
<1>5. InOrder(tpot') /\ Len(tpot') <= Len(tpot) + 1
  <2>1. CASE HasTokenTime(sample)
    <3>1. tpot' \in Appended(tpot, TokenTime(sample))
      BY <2>1 DEF Visit
    <3>2. InOrder(tpot') /\ Len(tpot') = Len(tpot) + 1
      BY <1>2, <2>1, <3>1, TokenTimeNat, InsertedSorted
    <3>3. QED
      BY <1>2, <3>2, InOrderIs
  <2>2. CASE ~HasTokenTime(sample)
    <3>1. tpot' = tpot
      BY <2>2 DEF Visit
    <3>2. QED
      BY <1>2, <3>1, InOrderIs
  <2>3. QED
    BY <2>1, <2>2
<1>6. Below(ttft, e2e)'
  BY <1>1, <1>2, InsertedBelow DEF Visit, SummaryInv
<1>7. Len(ttft) \in Nat /\ Len(tpot) \in Nat /\ Len(e2e) \in Nat /\ Len(tpot') \in Nat
  BY <1>2, <1>5, InOrderIs
<1>8. /\ left' \in 0 .. MaxSamples /\ UNCHANGED <<written, summary>>
  BY SummaryAssumption DEF Visit, SummaryInv, SummaryTypeOK
<1>9. SummaryTypeOK'
  BY <1>2, <1>3, <1>4, <1>5, <1>7, <1>8 DEF SummaryInv, SummaryTypeOK
<1>10. QED
  BY <1>6, <1>8, <1>9 DEF SummaryInv, SummaryOrdered, FirstTokenFirst

LEMMA SummarizeKeeps ==
  ASSUME SummaryInv, Summarize
  PROVE  SummaryInv'
<1>1. /\ InOrder(ttft) /\ InOrder(tpot) /\ InOrder(e2e) /\ Below(ttft, e2e)
  BY DEF SummaryInv, SummaryTypeOK
<1>2. /\ summary' \in [{"TTFT", "TPOT", "E2E"} -> {LatencyStats(ttft), LatencyStats(tpot), LatencyStats(e2e)}]
      /\ summary'["TTFT"] = LatencyStats(ttft) /\ summary'["E2E"] = LatencyStats(e2e)
      /\ written' = TRUE /\ UNCHANGED <<left, ttft, tpot, e2e>>
  BY DEF Summarize
<1>3. \A stats \in {LatencyStats(ttft), LatencyStats(tpot), LatencyStats(e2e)} :
        stats \in [Quantiles -> Nat] /\ \A q, r \in Quantiles : q <= r => stats[q] <= stats[r]
  BY <1>1, StatsOrdered
<1>4. SummaryTypeOK'
  BY <1>2, <1>3 DEF SummaryInv, SummaryTypeOK
<1>5. SummaryOrdered'
  BY <1>2, <1>3 DEF SummaryOrdered
<1>6. FirstTokenFirst'
  BY <1>1, <1>2, StatsBelow DEF FirstTokenFirst
<1>7. Below(ttft, e2e)'
  BY <1>1, <1>2 DEF Below
<1>8. QED
  BY <1>4, <1>5, <1>6, <1>7 DEF SummaryInv

LEMMA AlwaysSummaryInv == SummarySpec => []SummaryInv
<1>1. SummaryInv /\ [SummaryNext]_summaryVars => SummaryInv'
  <2> SUFFICES ASSUME SummaryInv, [SummaryNext]_summaryVars
               PROVE  SummaryInv'
    OBVIOUS
  <2>1. CASE UNCHANGED summaryVars
    BY <2>1 DEF summaryVars, SummaryInv, SummaryTypeOK, InOrder, Sorted, Below, SummaryOrdered,
         FirstTokenFirst
  <2>2. QED
    BY <2>1, VisitKeeps, SummarizeKeeps DEF SummaryNext
<1>2. QED
  BY <1>1, SummaryStarts, PTL DEF SummarySpec

(* For any number of samples, the lists are in order and as long as they   *)
(* have to be, and the percentiles are never negative.                     *)
THEOREM SummaryTypeCorrect == SummarySpec => []SummaryTypeOK
<1>1. SummaryInv => SummaryTypeOK
  BY DEF SummaryInv
<1>2. QED
  BY <1>1, AlwaysSummaryInv, PTL

(* For any number of samples, whichever of them have a time per token,     *)
(* every index that latencyStats uses is one of the list.                  *)
THEOREM SummaryNeverPanics == SummarySpec => []NeighboursInside
<1>1. SummaryInv => NeighboursInside
  <2>1. Quantiles \subseteq 0 .. 100
    BY DEF Quantiles
  <2>2. \A values : InOrder(values) /\ values # <<>> => Sorted(values)
    BY DEF InOrder
  <2>3. SummaryInv => \A values \in {ttft, tpot, e2e} : InOrder(values)
    BY DEF SummaryInv, SummaryTypeOK
  <2>4. QED
    BY <2>1, <2>2, <2>3, PercentileInside DEF NeighboursInside
<1>2. QED
  BY <1>1, AlwaysSummaryInv, PTL

(* For any number of samples P50 <= P95 <= P99 in each part of a summary.  *)
THEOREM SummaryInOrder == SummarySpec => []SummaryOrdered
<1>1. SummaryInv => SummaryOrdered
  BY DEF SummaryInv
<1>2. QED
  BY <1>1, AlwaysSummaryInv, PTL

(* For any number of samples, whatever order each list is sorted into, a   *)
(* percentile of the time to the first token is at most the same           *)
(* percentile of the duration.                                             *)
THEOREM FirstTokensFirst == SummarySpec => []FirstTokenFirst
<1>1. SummaryInv => FirstTokenFirst
  BY DEF SummaryInv
<1>2. QED
  BY <1>1, AlwaysSummaryInv, PTL
=============================================================================
