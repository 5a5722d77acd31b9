------------------------ MODULE AvailabilityRunProofs ------------------------
(***************************************************************************)
(* Proofs about the availability benchmark, for every number of            *)
(* goroutines, every budget and duration, and every number of              *)
(* observations: its types, the budget its goroutines share and what       *)
(* becomes of each request, the fault it accepts, and what its report says *)
(* of the circuit.                                                         *)
(***************************************************************************)
EXTENDS AvailabilityRun, FiniteSetTheorems, TLAPS

Locals == [pc : Places, started : Instants \cup {NoTime}]
PollPlaces == {"starting", "observing", "waiting", "done"}

Those(place) == {g \in Goroutines : worker[g].pc = place}

-----------------------------------------------------------------------------
(* The goroutines.  Every request taken from the budget is held by one of  *)
(* them or has ended, and a goroutine that takes one too many is done.     *)

MeasureOK ==
  /\ stage \in Stages
  /\ worker \in [Goroutines -> Locals]
  /\ taken \in Nat
  /\ attempts \in Seq(Attempt)
  /\ \A g \in Goroutines : worker[g].pc = "requesting" => worker[g].started \in Instants

Overshoot == taken <= MaxRequests + Cardinality(Those("done"))

ClockOK == clock \in Instants

MeasureInv == MeasureOK /\ Overshoot /\ BudgetConserved

LEMMA ThoseFinite ==
  ASSUME NEW place
  PROVE  IsFiniteSet(Those(place)) /\ Cardinality(Those(place)) \in Nat
<1>1. Those(place) \subseteq Goroutines
  BY DEF Those
<1>2. QED
  BY <1>1, AvailabilityAssumption, FS_Subset, FS_CardinalityType

LEMMA ThoseFinitePrimed ==
  ASSUME NEW place
  PROVE  IsFiniteSet(Those(place)') /\ Cardinality(Those(place)') \in Nat
<1>1. Those(place)' \subseteq Goroutines
  BY DEF Those
<1>2. QED
  BY <1>1, AvailabilityAssumption, FS_Subset, FS_CardinalityType

(* One goroutine gets other locals. *)
LEMMA MoveOne ==
  ASSUME MeasureOK, NEW g \in Goroutines, NEW q \in Locals,
         q.pc = "requesting" => q.started \in Instants,
         worker' = [worker EXCEPT ![g] = q]
  PROVE  /\ worker' \in [Goroutines -> Locals]
         /\ \A h \in Goroutines : worker'[h] = IF h = g THEN q ELSE worker[h]
         /\ \A h \in Goroutines : worker'[h].pc = "requesting" => worker'[h].started \in Instants
<1>1. worker' \in [Goroutines -> Locals]
  BY DEF MeasureOK
<1>2. \A h \in Goroutines : worker'[h] = IF h = g THEN q ELSE worker[h]
  BY DEF MeasureOK
<1>3. QED
  BY <1>1, <1>2 DEF MeasureOK

(* A goroutine enters a place, leaves it, or neither. *)
LEMMA Enters ==
  ASSUME NEW g \in Goroutines, NEW place,
         worker[g].pc # place, worker'[g].pc = place,
         \A h \in Goroutines \ {g} : worker'[h] = worker[h]
  PROVE  Cardinality(Those(place)') = Cardinality(Those(place)) + 1
<1> DEFINE S == Those(place)
           T == Those(place)'
<1>1. T = S \cup {g} /\ g \notin S
  BY DEF Those
<1>2. IsFiniteSet(S)
  BY ThoseFinite
<1> HIDE DEF S, T
<1>3. Cardinality(T) = Cardinality(S) + 1
  BY <1>1, <1>2, FS_AddElement
<1>4. QED
  BY <1>3 DEF S, T

LEMMA Leaves ==
  ASSUME NEW g \in Goroutines, NEW place,
         worker[g].pc = place, worker'[g].pc # place,
         \A h \in Goroutines \ {g} : worker'[h] = worker[h]
  PROVE  Cardinality(Those(place)') = Cardinality(Those(place)) - 1
<1> DEFINE S == Those(place)
           T == Those(place)'
<1>1. T = S \ {g} /\ g \in S
  BY DEF Those
<1>2. IsFiniteSet(S)
  BY ThoseFinite
<1> HIDE DEF S, T
<1>3. Cardinality(T) = Cardinality(S) - 1
  BY <1>1, <1>2, FS_RemoveElement
<1>4. QED
  BY <1>3 DEF S, T

LEMMA Elsewhere ==
  ASSUME NEW g \in Goroutines, NEW place,
         worker[g].pc # place, worker'[g].pc # place,
         \A h \in Goroutines \ {g} : worker'[h] = worker[h]
  PROVE  Cardinality(Those(place)') = Cardinality(Those(place))
<1>1. Those(place)' = Those(place)
  BY DEF Those
<1>2. QED
  BY <1>1

LEMMA BudgetMeaning ==
  BudgetConserved <=>
    Len(attempts) + Cardinality(Those("requesting")) = IF taken < MaxRequests THEN taken ELSE MaxRequests
  BY DEF BudgetConserved, Those

LEMMA BudgetMeaningPrimed ==
  BudgetConserved' <=>
    Len(attempts') + Cardinality(Those("requesting")') = IF taken' < MaxRequests THEN taken' ELSE MaxRequests
  BY DEF BudgetConserved, Those

LEMMA GoOnMeasures ==
  ASSUME MeasureInv, NEW g \in Goroutines, GoOn(g)
  PROVE  MeasureInv'
<1> DEFINE place == IF clock < StopAt /\ ~interrupted THEN "taking" ELSE "done"
           q == [worker[g] EXCEPT !.pc = place]
<1>1. worker[g] \in Locals /\ worker[g].pc = "ready"
  BY DEF MeasureInv, MeasureOK, GoOn, At
<1>2. q \in Locals /\ q.pc = place /\ place \in {"taking", "done"}
  BY <1>1 DEF Locals, Places
<1>3. worker' = [worker EXCEPT ![g] = q]
  BY DEF GoOn, Goto
<1> HIDE DEF q, place
<1>4. /\ worker' \in [Goroutines -> Locals]
      /\ \A h \in Goroutines : worker'[h] = IF h = g THEN q ELSE worker[h]
      /\ \A h \in Goroutines : worker'[h].pc = "requesting" => worker'[h].started \in Instants
  BY <1>2, <1>3, MoveOne DEF MeasureInv
<1>5. UNCHANGED <<stage, taken, attempts>>
  BY DEF GoOn, Goto
<1>6. Cardinality(Those("requesting")') = Cardinality(Those("requesting"))
  BY <1>1, <1>2, <1>4, Elsewhere
<1>7. Cardinality(Those("done")') >= Cardinality(Those("done"))
  <2>1. CASE place = "done"
    BY <1>1, <1>2, <1>4, <2>1, Enters, ThoseFinite
  <2>2. CASE place = "taking"
    BY <1>1, <1>2, <1>4, <2>2, Elsewhere, ThoseFinite
  <2>3. QED
    BY <1>2, <2>1, <2>2
<1>8. MeasureOK'
  BY <1>4, <1>5 DEF MeasureInv, MeasureOK
<1>9. Overshoot'
  BY <1>5, <1>7, ThoseFinite, ThoseFinitePrimed, AvailabilityAssumption DEF MeasureInv, MeasureOK, Overshoot
<1>10. BudgetConserved'
  BY <1>5, <1>6, BudgetMeaning, BudgetMeaningPrimed DEF MeasureInv
<1>11. QED
  BY <1>8, <1>9, <1>10 DEF MeasureInv

LEMMA TakeMeasures ==
  ASSUME MeasureInv, ClockOK, NEW g \in Goroutines, TakeRequest(g)
  PROVE  MeasureInv'
<1> DEFINE q == IF taken < MaxRequests THEN Requesting(clock) ELSE Idle("done")
<1>1. worker[g].pc = "taking"
  BY DEF TakeRequest, At
<1>2. /\ q \in Locals
      /\ q.pc = IF taken < MaxRequests THEN "requesting" ELSE "done"
      /\ q.pc = "requesting" => q.started \in Instants
  BY DEF Locals, Places, Requesting, Idle, ClockOK
<1>3. worker' = [worker EXCEPT ![g] = q] /\ taken' = taken + 1 /\ UNCHANGED <<stage, attempts>>
  BY DEF TakeRequest
<1> HIDE DEF q
<1>4. /\ worker' \in [Goroutines -> Locals]
      /\ \A h \in Goroutines : worker'[h] = IF h = g THEN q ELSE worker[h]
      /\ \A h \in Goroutines : worker'[h].pc = "requesting" => worker'[h].started \in Instants
  BY <1>2, <1>3, MoveOne DEF MeasureInv
<1>5. MeasureOK'
  BY <1>3, <1>4 DEF MeasureInv, MeasureOK
<1>6. CASE taken < MaxRequests
  <2>1. Cardinality(Those("requesting")') = Cardinality(Those("requesting")) + 1
    BY <1>1, <1>2, <1>4, <1>6, Enters
  <2>2. BudgetConserved'
    BY <1>3, <1>6, <2>1, ThoseFinite, BudgetMeaning, BudgetMeaningPrimed, AvailabilityAssumption
       DEF MeasureInv, MeasureOK
  <2>3. Overshoot'
    BY <1>3, <1>6, ThoseFinitePrimed, AvailabilityAssumption DEF MeasureInv, MeasureOK, Overshoot
  <2>4. QED
    BY <1>5, <2>2, <2>3 DEF MeasureInv
<1>7. CASE ~(taken < MaxRequests)
  <2>1. Cardinality(Those("requesting")') = Cardinality(Those("requesting"))
    BY <1>1, <1>2, <1>4, <1>7, Elsewhere
  <2>2. Cardinality(Those("done")') = Cardinality(Those("done")) + 1
    BY <1>1, <1>2, <1>4, <1>7, Enters
  <2>3. BudgetConserved'
    BY <1>3, <1>7, <2>1, ThoseFinite, BudgetMeaning, BudgetMeaningPrimed, AvailabilityAssumption
       DEF MeasureInv, MeasureOK
  <2>4. Overshoot'
    BY <1>3, <2>2, ThoseFinite, AvailabilityAssumption DEF MeasureInv, MeasureOK, Overshoot
  <2>5. QED
    BY <1>5, <2>3, <2>4 DEF MeasureInv
<1>8. QED
  BY <1>6, <1>7

LEMMA RecordMeasures ==
  ASSUME MeasureInv, ClockOK, NEW g \in Goroutines, Record(g)
  PROVE  MeasureInv'
<1> DEFINE q == Idle("ready")
           a == [started |-> worker[g].started, finished |-> clock]
<1>1. worker[g].pc = "requesting"
  BY DEF Record, At
<1>2. q \in Locals /\ q.pc = "ready"
  BY DEF Locals, Places, Idle
<1>3. worker' = [worker EXCEPT ![g] = q] /\ attempts' = Append(attempts, a) /\ UNCHANGED <<stage, taken>>
  BY DEF Record
<1>4. a \in Attempt
  BY <1>1 DEF MeasureInv, MeasureOK, ClockOK, Attempt
<1> HIDE DEF q, a
<1>5. /\ worker' \in [Goroutines -> Locals]
      /\ \A h \in Goroutines : worker'[h] = IF h = g THEN q ELSE worker[h]
      /\ \A h \in Goroutines : worker'[h].pc = "requesting" => worker'[h].started \in Instants
  BY <1>2, <1>3, MoveOne DEF MeasureInv
<1>6. attempts' \in Seq(Attempt) /\ Len(attempts') = Len(attempts) + 1
  BY <1>3, <1>4 DEF MeasureInv, MeasureOK
<1>7. MeasureOK'
  BY <1>3, <1>5, <1>6 DEF MeasureInv, MeasureOK
<1>8. Cardinality(Those("requesting")') = Cardinality(Those("requesting")) - 1
  BY <1>1, <1>2, <1>5, Leaves
<1>9. Cardinality(Those("done")') = Cardinality(Those("done"))
  BY <1>1, <1>2, <1>5, Elsewhere
<1>10. BudgetConserved'
  <2>1. Len(attempts) \in Nat
    BY DEF MeasureInv, MeasureOK
  <2>2. QED
    BY <1>3, <1>6, <1>8, <2>1, ThoseFinite, BudgetMeaning, BudgetMeaningPrimed DEF MeasureInv
<1>11. Overshoot'
  BY <1>3, <1>9 DEF MeasureInv, Overshoot
<1>12. QED
  BY <1>7, <1>10, <1>11 DEF MeasureInv

LEMMA GoroutineMeasures ==
  ASSUME MeasureInv, ClockOK, NEW g \in Goroutines, GoroutineStep(g)
  PROVE  MeasureInv'
  BY GoOnMeasures, TakeMeasures, RecordMeasures DEF GoroutineStep

(* What main and the goroutine of the poller do leaves the goroutines alone. *)
LEMMA OthersMeasure ==
  ASSUME MeasureInv, stage' \in Stages, UNCHANGED <<worker, taken, attempts>>
  PROVE  MeasureInv'
<1>1. MeasureOK'
  BY DEF MeasureInv, MeasureOK
<1>2. Overshoot' /\ BudgetConserved'
  BY DEF MeasureInv, Overshoot, Those, BudgetConserved
<1>3. QED
  BY <1>1, <1>2 DEF MeasureInv

LEMMA RunStepMeasures ==
  ASSUME MeasureInv, RunStep
  PROVE  MeasureInv'
<1>1. stage' \in Stages /\ UNCHANGED <<worker, taken, attempts>>
  BY DEF RunStep, RequestsDone, PollingDone, ReadMarker, ScanObservations, WriteReport, MoveOn,
         MeasureInv, MeasureOK, measureVars, Stages
<1>2. QED
  BY <1>1, OthersMeasure

-----------------------------------------------------------------------------
(* The poller and the world.  An observation is stamped before the circuit *)
(* is looked at, so whatever it says was so at its instant or later.       *)

HistoryOK ==
  /\ up \in BOOLEAN
  /\ lastDown \in Instants \cup {NoTime} /\ lastUp \in Instants \cup {NoTime}
  /\ marker \in Instants \cup {Stale, NoTime}
  /\ interrupted \in BOOLEAN
  /\ IF up THEN lastUp = clock ELSE lastDown = clock
  /\ lastDown <= clock /\ lastUp <= clock

PollOK ==
  /\ poller \in [pc : PollPlaces, at : Instants \cup {NoTime}]
  /\ poller.pc = "observing" => poller.at \in Instants /\ poller.at <= clock
  /\ observations \in Seq(Observation)
  /\ Len(observations) <= MaxObservations

(* What one observation says was so, at its instant or later.              *)
TrueSince(o) ==
  /\ o.target = "unhealthy" => o.at <= lastDown
  /\ o.target = "healthy" => o.at <= lastUp

ObservationsTrue ==
  /\ \A i \in DOMAIN observations :
       /\ TrueSince(observations[i])
       /\ observations[i].at <= clock
       /\ poller.pc = "observing" => observations[i].at <= poller.at
  /\ \A i, j \in DOMAIN observations : i <= j => observations[i].at <= observations[j].at

WorldInv == ClockOK /\ HistoryOK /\ PollOK /\ ObservationsTrue

LEMMA InstantsAreNat ==
  (\A t \in Instants : t \in Nat /\ t \in Int /\ t # NoTime) /\ NoTime \in Int
  BY AvailabilityAssumption DEF Instants, Start, NoTime

(* The clock, the circuit, the fault and the interrupt.                    *)
LEMMA WorldMoves ==
  ASSUME WorldInv,
         ClockOK', HistoryOK', UNCHANGED pollVars,
         clock <= clock', lastDown <= lastDown', lastUp <= lastUp'
  PROVE  WorldInv'
<1>1. UNCHANGED <<poller, observations>>
  BY DEF pollVars
<1>2. PollOK'
  BY <1>1, InstantsAreNat DEF PollOK, WorldInv, ClockOK
<1>3. ASSUME NEW i \in DOMAIN observations
      PROVE  TrueSince(observations[i])' /\ observations[i].at <= clock'
  <2>1. observations[i] \in Observation
    BY <1>3 DEF WorldInv, PollOK
  <2>2. TrueSince(observations[i]) /\ observations[i].at <= clock
    BY <1>3 DEF WorldInv, ObservationsTrue
  <2>3. observations[i].at \in Int /\ clock \in Int /\ clock' \in Int
    BY <2>1, InstantsAreNat DEF Observation, WorldInv, ClockOK
  <2>4. lastDown \in Int /\ lastDown' \in Int /\ lastUp \in Int /\ lastUp' \in Int
    BY InstantsAreNat DEF WorldInv, HistoryOK
  <2>5. QED
    BY <1>1, <2>2, <2>3, <2>4 DEF TrueSince
<1>4. ObservationsTrue'
  BY <1>1, <1>3 DEF WorldInv, ObservationsTrue
<1>5. QED
  BY <1>2, <1>4 DEF WorldInv

LEMMA TimePassesWorld ==
  ASSUME WorldInv, TimePasses, UNCHANGED pollVars
  PROVE  WorldInv'
<1>1. clock \in Nat /\ clock' = clock + 1 /\ clock' \in Instants
  BY InstantsAreNat, AvailabilityAssumption DEF WorldInv, ClockOK, TimePasses, Instants, Start
<1>2. UNCHANGED <<up, marker, interrupted>>
  BY DEF TimePasses
<1>3. lastDown' = (IF up THEN lastDown ELSE clock') /\ lastUp' = (IF up THEN clock' ELSE lastUp)
  BY <1>2 DEF TimePasses, Remember
<1>4. lastDown \in Int /\ lastUp \in Int /\ lastDown <= clock /\ lastUp <= clock
  BY InstantsAreNat DEF WorldInv, HistoryOK
<1>5. HistoryOK'
  BY <1>1, <1>2, <1>3, <1>4 DEF WorldInv, HistoryOK
<1>6. lastDown <= lastDown' /\ lastUp <= lastUp'
  BY <1>1, <1>3, <1>4
<1>7. QED
  BY <1>1, <1>5, <1>6, WorldMoves DEF ClockOK

LEMMA CircuitMovesWorld ==
  ASSUME WorldInv, CircuitMoves, UNCHANGED pollVars
  PROVE  WorldInv'
<1>1. clock \in Nat /\ clock' = clock /\ clock' \in Instants
  BY InstantsAreNat DEF WorldInv, ClockOK, CircuitMoves
<1>2. up' = ~up /\ up' \in BOOLEAN /\ UNCHANGED <<marker, interrupted>>
  BY DEF CircuitMoves
<1>3. lastDown' = (IF up' THEN lastDown ELSE clock') /\ lastUp' = (IF up' THEN clock' ELSE lastUp)
  BY DEF CircuitMoves, Remember
<1>4. lastDown \in Int /\ lastUp \in Int /\ lastDown <= clock /\ lastUp <= clock
  BY InstantsAreNat DEF WorldInv, HistoryOK
<1>5. HistoryOK'
  BY <1>1, <1>2, <1>3, <1>4 DEF WorldInv, HistoryOK
<1>6. lastDown <= lastDown' /\ lastUp <= lastUp'
  BY <1>1, <1>3, <1>4
<1>7. QED
  BY <1>1, <1>5, <1>6, WorldMoves DEF ClockOK

LEMMA MarkerMovesWorld ==
  ASSUME WorldInv, InjectFault \/ Interrupt, UNCHANGED pollVars
  PROVE  WorldInv'
<1>1. UNCHANGED <<clock, up, lastDown, lastUp>>
  BY DEF InjectFault, Interrupt
<1>2. marker' \in Instants \cup {Stale, NoTime} /\ interrupted' \in BOOLEAN
  BY DEF InjectFault, Interrupt, WorldInv, ClockOK, HistoryOK
<1>3. HistoryOK' /\ ClockOK'
  BY <1>1, <1>2 DEF WorldInv, HistoryOK, ClockOK
<1>4. clock \in Int /\ lastDown \in Int /\ lastUp \in Int
  BY InstantsAreNat DEF WorldInv, ClockOK, HistoryOK
<1>5. clock <= clock' /\ lastDown <= lastDown' /\ lastUp <= lastUp'
  BY <1>1, <1>4
<1>6. QED
  BY <1>3, <1>5, WorldMoves

LEMMA BeginObservationWorld ==
  ASSUME WorldInv, BeginObservation \/ PollAgain, UNCHANGED worldVars
  PROVE  WorldInv'
<1>1. poller' = [pc |-> "observing", at |-> clock] /\ UNCHANGED observations
  BY DEF BeginObservation, PollAgain, Poll
<1>2. UNCHANGED <<clock, up, lastDown, lastUp, marker, interrupted>>
  BY DEF worldVars
<1>3. clock \in Instants /\ clock <= clock
  BY InstantsAreNat DEF WorldInv, ClockOK
<1>4. PollOK'
  BY <1>1, <1>2, <1>3 DEF WorldInv, PollOK, PollPlaces
<1>5. ObservationsTrue'
  BY <1>1, <1>2 DEF WorldInv, ObservationsTrue, TrueSince
<1>6. ClockOK' /\ HistoryOK'
  BY <1>2 DEF WorldInv, ClockOK, HistoryOK
<1>7. QED
  BY <1>4, <1>5, <1>6 DEF WorldInv

LEMMA StopPollingWorld ==
  ASSUME WorldInv, StopPolling, UNCHANGED worldVars
  PROVE  WorldInv'
<1>1. poller' = [pc |-> "done", at |-> NoTime] /\ UNCHANGED observations
  BY DEF StopPolling, Poll
<1>2. UNCHANGED <<clock, up, lastDown, lastUp, marker, interrupted>>
  BY DEF worldVars
<1>3. PollOK'
  BY <1>1, <1>2 DEF WorldInv, PollOK, PollPlaces
<1>4. ObservationsTrue'
  BY <1>1, <1>2 DEF WorldInv, ObservationsTrue, TrueSince
<1>5. ClockOK' /\ HistoryOK'
  BY <1>2 DEF WorldInv, ClockOK, HistoryOK
<1>6. QED
  BY <1>3, <1>4, <1>5 DEF WorldInv

LEMMA EndObservationWorld ==
  ASSUME WorldInv, EndObservation, UNCHANGED worldVars
  PROVE  WorldInv'
<1>1. PICK verdict \in {IF up THEN "healthy" ELSE "unhealthy", "unlisted", "failed"} :
        observations' = IF Len(observations) < MaxObservations
                        THEN Append(observations, [at |-> poller.at, target |-> verdict])
                        ELSE observations
  BY DEF EndObservation
<1>2. poller' = [pc |-> "waiting", at |-> NoTime] /\ poller.pc = "observing"
  BY DEF EndObservation, Poll
<1>3. UNCHANGED <<clock, up, lastDown, lastUp, marker, interrupted>>
  BY DEF worldVars
<1>4. ClockOK' /\ HistoryOK'
  BY <1>3 DEF WorldInv, ClockOK, HistoryOK
<1>5. CASE ~(Len(observations) < MaxObservations)
  <2>1. PollOK'
    BY <1>1, <1>2, <1>3, <1>5 DEF WorldInv, PollOK, PollPlaces
  <2>2. ObservationsTrue'
    BY <1>1, <1>2, <1>3, <1>5 DEF WorldInv, ObservationsTrue, TrueSince
  <2>3. QED
    BY <1>4, <2>1, <2>2 DEF WorldInv
<1>6. CASE Len(observations) < MaxObservations
  <2> DEFINE o == [at |-> poller.at, target |-> verdict]
             n == Len(observations)
  <2>1. /\ poller.at \in Instants /\ poller.at \in Int /\ poller.at <= clock
        /\ lastDown \in Int /\ lastUp \in Int /\ clock \in Int
    BY <1>2, InstantsAreNat DEF WorldInv, PollOK, ClockOK, HistoryOK
  <2>2. o \in Observation /\ o.at = poller.at /\ o.target = verdict
    BY <2>1 DEF Observation, Verdicts, Sights
  <2>3. TrueSince(o)
    BY <2>1, <2>2 DEF TrueSince, WorldInv, HistoryOK
  <2> HIDE DEF o
  <2>4. observations \in Seq(Observation) /\ n \in Nat
    BY DEF WorldInv, PollOK
  <2>5. /\ observations' \in Seq(Observation) /\ Len(observations') = n + 1
        /\ DOMAIN observations' = 1 .. n + 1 /\ DOMAIN observations = 1 .. n
        /\ \A i \in 1 .. n : observations'[i] = observations[i]
        /\ observations'[n + 1] = o
    BY <1>1, <1>6, <2>2, <2>4 DEF o
  <2>6. PollOK'
    BY <1>2, <1>6, <2>4, <2>5, AvailabilityAssumption DEF PollOK, PollPlaces
  <2>7. \A i \in 1 .. n : TrueSince(observations[i]) /\ observations[i].at <= clock /\ observations[i].at <= poller.at
    BY <1>2, <2>5 DEF WorldInv, ObservationsTrue
  <2>8. \A i \in 1 .. n + 1 : TrueSince(observations'[i]) /\ observations'[i].at <= clock
    BY <2>1, <2>2, <2>3, <2>4, <2>5, <2>7
  <2>9. \A i \in 1 .. n + 1 : TrueSince(observations[i])'
    BY <1>3, <2>8 DEF TrueSince
  <2>10. \A i, j \in 1 .. n + 1 : i <= j => observations'[i].at <= observations'[j].at
    <3>1. \A i, j \in 1 .. n : i <= j => observations[i].at <= observations[j].at
      BY <2>5 DEF WorldInv, ObservationsTrue
    <3>2. \A i, j \in 1 .. n + 1 : i <= j => (i \in 1 .. n /\ j \in 1 .. n) \/ (i \in 1 .. n /\ j = n + 1) \/ (i = n + 1 /\ j = n + 1)
      BY <2>4
    <3>3. QED
      BY <2>1, <2>2, <2>5, <2>7, <3>1, <3>2
  <2>11. ObservationsTrue'
    BY <1>2, <1>3, <2>5, <2>8, <2>9, <2>10 DEF ObservationsTrue
  <2>12. QED
    BY <1>4, <2>6, <2>11 DEF WorldInv
<1>7. QED
  BY <1>5, <1>6

-----------------------------------------------------------------------------
(* The scan of the report: the two instants it keeps are those of the      *)
(* definition over the observations it has been past.                      *)

LEMMA ObservationAt ==
  ASSUME observations \in Seq(Observation), NEW i \in DOMAIN observations
  PROVE  observations[i].at \in Instants
<1>1. observations[i] \in Observation
  OBVIOUS
<1>2. QED
  BY <1>1 DEF Observation

LEMMA FirstIsTime ==
  ASSUME observations \in Seq(Observation),
         NEW S \in SUBSET DOMAIN observations, NEW t, IsFirst(t, S)
  PROVE  (t = NoTime <=> S = {}) /\ t \in Instants \cup {NoTime}
<1>1. \A i \in S : observations[i].at \in Instants
  BY ObservationAt
<1>2. QED
  BY <1>1, InstantsAreNat DEF IsFirst

LEMMA FirstExtends ==
  ASSUME observations \in Seq(Observation),
         NEW n \in Nat, n < Len(observations),
         NEW S \in SUBSET (1 .. n), NEW t, IsFirst(t, S)
  PROVE  IsFirst(IF t = NoTime THEN observations[n + 1].at ELSE t, S \cup {n + 1})
<1>1. S \in SUBSET DOMAIN observations
  OBVIOUS
<1>2. t = NoTime <=> S = {}
  BY <1>1, FirstIsTime
<1>3. CASE S = {}
  BY <1>2, <1>3 DEF IsFirst
<1>4. CASE S # {}
  <2>1. PICK i \in S : t = observations[i].at /\ \A j \in S : i <= j
    BY <1>4 DEF IsFirst
  <2>2. i <= n + 1
    BY <2>1
  <2>3. QED
    BY <1>2, <1>4, <2>1, <2>2 DEF IsFirst
<1>5. QED
  BY <1>3, <1>4

LEMMA SightingsGrow ==
  ASSUME NEW n \in Nat, NEW verdict
  PROVE  /\ Sightings(n, verdict) \in SUBSET (1 .. n)
         /\ Sightings(n + 1, verdict) =
              Sightings(n, verdict) \cup
                (IF observations[n + 1].at >= fault /\ observations[n + 1].target = verdict THEN {n + 1} ELSE {})
<1>1. 1 .. n + 1 = (1 .. n) \cup {n + 1}
  OBVIOUS
<1>2. QED
  BY <1>1 DEF Sightings

LEMMA RecoveriesGrow ==
  ASSUME NEW n \in Nat
  PROVE  /\ Recoveries(n) \in SUBSET (1 .. n)
         /\ Recoveries(n + 1) =
              Recoveries(n) \cup
                (IF observations[n + 1].at >= fault /\ observations[n + 1].target = "healthy"
                    /\ Sightings(n, "unhealthy") # {}
                 THEN {n + 1} ELSE {})
<1> DEFINE H(k) == Sightings(k, "healthy")
           U(k) == Sightings(k, "unhealthy")
           new == observations[n + 1].at >= fault /\ observations[n + 1].target = "healthy"
<1>1. H(n) \in SUBSET (1 .. n) /\ U(n) \in SUBSET (1 .. n)
  BY SightingsGrow
<1>2. H(n + 1) = H(n) \cup (IF new THEN {n + 1} ELSE {})
  BY SightingsGrow
<1>3. U(n + 1) \in SUBSET (U(n) \cup {n + 1}) /\ U(n) \subseteq U(n + 1)
  BY SightingsGrow
<1>4. \A k \in Nat : Recoveries(k) = {i \in H(k) : \E d \in U(k) : d < i}
  BY DEF Recoveries
<1> HIDE DEF H, U
<1>5. \A i \in H(n) : (\E d \in U(n + 1) : d < i) <=> (\E d \in U(n) : d < i)
  BY <1>1, <1>3
<1>6. (\E d \in U(n + 1) : d < n + 1) <=> U(n) # {}
  BY <1>1, <1>3
<1>7. QED
  BY <1>1, <1>2, <1>4, <1>5, <1>6 DEF U

ScanOK ==
  /\ next \in 1 .. Len(observations) + 1
  /\ detectedAt \in Instants \cup {NoTime} /\ recoveredAt \in Instants \cup {NoTime}
  /\ Definition(next - 1)

LEMMA ScanStarts ==
  ASSUME observations \in Seq(Observation), ScanInit
  PROVE  ScanOK
<1>1. \A verdict : Sightings(0, verdict) = {}
  BY DEF Sightings
<1>2. Recoveries(0) = {}
  BY <1>1 DEF Recoveries
<1>3. next - 1 = 0 /\ next \in 1 .. Len(observations) + 1
  BY DEF ScanInit
<1>4. QED
  BY <1>1, <1>2, <1>3 DEF ScanInit, ScanOK, Definition, IsFirst

LEMMA ScanGoesOn ==
  ASSUME observations \in Seq(Observation), ScanOK, Scan, UNCHANGED <<observations, fault>>
  PROVE  ScanOK'
<1> DEFINE n == next - 1
           o == observations[n + 1]
           unhealthy == o.at >= fault /\ o.target = "unhealthy"
           healthy == o.at >= fault /\ o.target = "healthy" /\ Sightings(n, "unhealthy") # {}
<1>1. n \in Nat /\ next = n + 1 /\ n < Len(observations) /\ next' = n + 2 /\ next' - 1 = n + 1
  BY DEF ScanOK, Scan
<1>2. o.at \in Instants
  BY <1>1, ObservationAt
<1>3. IsFirst(detectedAt, Sightings(n, "unhealthy")) /\ IsFirst(recoveredAt, Recoveries(n))
  BY DEF ScanOK, Definition
<1>4. detectedAt = NoTime <=> Sightings(n, "unhealthy") = {}
  <2>1. Sightings(n, "unhealthy") \in SUBSET DOMAIN observations
    BY <1>1 DEF Sightings
  <2>2. QED
    BY <1>3, <2>1, FirstIsTime
<1>5. detectedAt' = IF unhealthy /\ detectedAt = NoTime THEN o.at ELSE detectedAt
  BY <1>1 DEF Scan, Detects, Counts, Sights
<1>6. recoveredAt' = IF healthy /\ recoveredAt = NoTime THEN o.at ELSE recoveredAt
  BY <1>1, <1>4 DEF Scan, Recovers, Counts, Sights
<1>7. IsFirst(detectedAt', Sightings(n + 1, "unhealthy"))
  <2> DEFINE S == Sightings(n, "unhealthy")
             T == Sightings(n + 1, "unhealthy")
  <2>1. S \in SUBSET (1 .. n) /\ T = S \cup (IF unhealthy THEN {n + 1} ELSE {})
    BY <1>1, SightingsGrow
  <2>2. IsFirst(detectedAt, S)
    BY <1>3
  <2> HIDE DEF S, T, n, o, unhealthy
  <2>3. CASE unhealthy
    <3>1. IsFirst(IF detectedAt = NoTime THEN observations[n + 1].at ELSE detectedAt, S \cup {n + 1})
      BY <1>1, <2>1, <2>2, FirstExtends
    <3>2. QED
      BY <1>5, <2>1, <2>3, <3>1 DEF o, T
  <2>4. CASE ~unhealthy
    BY <1>5, <2>1, <2>2, <2>4 DEF T
  <2>5. QED
    BY <2>3, <2>4
<1>8. IsFirst(recoveredAt', Recoveries(n + 1))
  <2> DEFINE S == Recoveries(n)
             T == Recoveries(n + 1)
  <2>1. S \in SUBSET (1 .. n) /\ T = S \cup (IF healthy THEN {n + 1} ELSE {})
    BY <1>1, RecoveriesGrow
  <2>2. IsFirst(recoveredAt, S)
    BY <1>3
  <2> HIDE DEF S, T, n, o, healthy
  <2>3. CASE healthy
    <3>1. IsFirst(IF recoveredAt = NoTime THEN observations[n + 1].at ELSE recoveredAt, S \cup {n + 1})
      BY <1>1, <2>1, <2>2, FirstExtends
    <3>2. QED
      BY <1>6, <2>1, <2>3, <3>1 DEF o, T
  <2>4. CASE ~healthy
    BY <1>6, <2>1, <2>2, <2>4 DEF T
  <2>5. QED
    BY <2>3, <2>4
<1>9. Definition(next - 1)'
  BY <1>1, <1>7, <1>8 DEF Definition, IsFirst, Sightings, Recoveries
<1>10. next' \in 1 .. Len(observations') + 1
  BY <1>1
<1>11. detectedAt' \in Instants \cup {NoTime} /\ recoveredAt' \in Instants \cup {NoTime}
  BY <1>2, <1>5, <1>6 DEF ScanOK
<1>12. QED
  BY <1>9, <1>10, <1>11 DEF ScanOK

-----------------------------------------------------------------------------
(* The report.  Until the marker has been read nothing has been scanned,   *)
(* and when RunAvailability has returned the poller is done.               *)

ReportOK ==
  /\ stage \notin {"scanning", "reported"} => ScanInit
  /\ stage \notin {"measuring", "stopping"} => poller.pc = "done"
  /\ fault \in Instants \cup {NoTime}
  /\ ScanOK
  /\ FaultDuringWorkload

IInv == MeasureInv /\ WorldInv /\ ReportOK

LEMMA FaultAccepted ==
  ASSUME MeasureInv, WorldInv, WithinWorkload(marker), marker # NoTime
  PROVE  /\ marker \in Instants
         /\ \E i, j \in DOMAIN attempts : marker \in attempts[i].started .. attempts[j].finished
<1>1. PICK i \in DOMAIN attempts : attempts[i].started <= marker
  BY DEF WithinWorkload
<1>2. PICK j \in DOMAIN attempts : marker <= attempts[j].finished
  BY DEF WithinWorkload
<1>3. attempts[i] \in Attempt /\ attempts[j] \in Attempt
  BY <1>1, <1>2 DEF MeasureInv, MeasureOK
<1>4. attempts[i].started \in Instants /\ attempts[j].finished \in Instants
  BY <1>3 DEF Attempt
<1>5. marker \in Instants \cup {Stale}
  BY DEF WorldInv, HistoryOK
<1>6. marker \in Instants
  BY <1>1, <1>4, <1>5 DEF Instants, Start, Stale
<1>7. marker \in Int /\ attempts[i].started \in Int /\ attempts[j].finished \in Int
  BY <1>4, <1>6, InstantsAreNat
<1>8. marker \in attempts[i].started .. attempts[j].finished
  BY <1>1, <1>2, <1>7
<1>9. QED
  BY <1>6, <1>8

LEMMA ReadMarkerReports ==
  ASSUME IInv, ReadMarker, UNCHANGED <<pollVars, worldVars>>
  PROVE  ReportOK'
<1>1. stage = "returned" /\ ScanInit /\ UNCHANGED scanVars
  BY DEF IInv, ReportOK, ReadMarker
<1>2. UNCHANGED <<poller, observations, next, detectedAt, recoveredAt>>
  BY <1>1 DEF pollVars, scanVars
<1>3. observations' \in Seq(Observation) /\ ScanInit'
  BY <1>1, <1>2 DEF IInv, WorldInv, PollOK, ScanInit
<1>4. ScanOK'
  <2>1. (observations \in Seq(Observation) /\ ScanInit => ScanOK)'
    BY ScanStarts, PTL
  <2>2. QED
    BY <1>3, <2>1
<1>5. poller'.pc = "done"
  BY <1>1, <1>2 DEF IInv, ReportOK
<1>6. CASE marker # NoTime /\ WithinWorkload(marker)
  <2>1. stage' = "scanning" /\ fault' = marker /\ UNCHANGED attempts
    BY <1>6 DEF ReadMarker, MoveOn
  <2>2. marker \in Instants /\ \E i, j \in DOMAIN attempts : marker \in attempts[i].started .. attempts[j].finished
    BY <1>6, FaultAccepted DEF IInv
  <2>3. fault' >= Start
    BY <2>1, <2>2 DEF Instants, Start
  <2>4. QED
    BY <1>3, <1>4, <1>5, <2>1, <2>2, <2>3 DEF ReportOK, FaultDuringWorkload
<1>7. CASE ~(marker # NoTime /\ WithinWorkload(marker))
  <2>1. stage' = "error" /\ UNCHANGED fault
    BY <1>7 DEF ReadMarker, MoveOn
  <2>2. QED
    BY <1>3, <1>4, <1>5, <2>1 DEF ReportOK, FaultDuringWorkload, IInv
<1>8. QED
  BY <1>6, <1>7

LEMMA ScanReports ==
  ASSUME IInv, ScanObservations, UNCHANGED <<pollVars, worldVars>>
  PROVE  ReportOK'
<1>1. stage = "scanning" /\ Scan /\ UNCHANGED <<stage, attempts, fault>>
  BY DEF ScanObservations, measureVars
<1>2. UNCHANGED <<poller, observations>>
  BY DEF pollVars
<1>3. ScanOK'
  BY <1>1, <1>2, ScanGoesOn DEF IInv, ReportOK, WorldInv, PollOK
<1>4. QED
  BY <1>1, <1>2, <1>3 DEF IInv, ReportOK, FaultDuringWorkload

(* The report is not touched, and neither is what it is about.             *)
LEMMA ReportStays ==
  ASSUME IInv, UNCHANGED <<reportVars, observations>>,
         stage' \notin {"scanning", "reported"} => stage \notin {"scanning", "reported"},
         stage' \in {"scanning", "reported"} =>
           stage \in {"scanning", "reported"} /\ UNCHANGED attempts,
         stage' \notin {"measuring", "stopping"} => poller'.pc = "done"
  PROVE  ReportOK'
<1>1. UNCHANGED <<next, detectedAt, recoveredAt, fault, observations>>
  BY DEF reportVars, scanVars
<1>2. ScanOK'
  BY <1>1 DEF IInv, ReportOK, ScanOK, Definition, IsFirst, Sightings, Recoveries
<1>3. FaultDuringWorkload'
  BY <1>1 DEF IInv, ReportOK, FaultDuringWorkload
<1>4. QED
  BY <1>1, <1>2, <1>3 DEF IInv, ReportOK, ScanInit

LEMMA RunStepReports ==
  ASSUME IInv, RunStep
  PROVE  ReportOK'
<1>1. UNCHANGED <<poller, observations, pollVars, worldVars>>
  BY DEF RunStep, pollVars
<1>2. CASE RequestsDone
  <2>1. stage \in {"measuring"}
    <3>1. PICK g \in Goroutines : TRUE
      BY AvailabilityAssumption
    <3>2. QED
      BY <1>2, <3>1 DEF RequestsDone, At
  <2>2. stage' = "stopping" /\ UNCHANGED reportVars
    BY <1>2 DEF RequestsDone, MoveOn
  <2>3. QED
    BY <1>1, <2>1, <2>2, ReportStays
<1>3. CASE PollingDone
  <2>1. stage = "stopping" /\ poller.pc = "done" /\ stage' \in {"returned", "error"} /\ UNCHANGED reportVars
    BY <1>3 DEF PollingDone, MoveOn
  <2>2. QED
    BY <1>1, <2>1, ReportStays
<1>4. CASE ReadMarker
  BY <1>1, <1>4, ReadMarkerReports
<1>5. CASE ScanObservations
  BY <1>1, <1>5, ScanReports
<1>6. CASE WriteReport
  <2>1. stage = "scanning" /\ stage' = "reported" /\ UNCHANGED reportVars /\ UNCHANGED attempts
    BY <1>6 DEF WriteReport, MoveOn
  <2>2. poller'.pc = "done"
    BY <1>1, <2>1 DEF IInv, ReportOK
  <2>3. QED
    BY <1>1, <2>1, <2>2, ReportStays
<1>7. QED
  BY <1>2, <1>3, <1>4, <1>5, <1>6 DEF RunStep

-----------------------------------------------------------------------------
(* Every step preserves the three parts.                                   *)

LEMMA PollingStep ==
  ASSUME IInv, NEW A \in BOOLEAN, A => WorldInv', A => poller.pc # "done",
         Polling(A)
  PROVE  IInv'
<1>1. A /\ UNCHANGED <<measureVars, reportVars>>
  BY DEF Polling
<1>2. UNCHANGED <<stage, worker, taken, attempts>>
  BY <1>1 DEF measureVars
<1>3. MeasureInv'
  BY <1>2, OthersMeasure DEF IInv, MeasureInv, MeasureOK
<1>4. stage \in {"measuring", "stopping"}
  BY <1>1 DEF IInv, ReportOK
<1>5. observations' \in Seq(Observation) /\ ScanInit /\ ScanInit'
  BY <1>1, <1>4 DEF IInv, ReportOK, WorldInv, PollOK, ScanInit, reportVars, scanVars
<1>6. ScanOK'
  <2>1. (observations \in Seq(Observation) /\ ScanInit => ScanOK)'
    BY ScanStarts, PTL
  <2>2. QED
    BY <1>5, <2>1
<1>7. ReportOK'
  BY <1>1, <1>2, <1>4, <1>5, <1>6 DEF IInv, ReportOK, FaultDuringWorkload, reportVars
<1>8. QED
  BY <1>1, <1>3, <1>7 DEF IInv

LEMMA OutsideStep ==
  ASSUME IInv, NEW A \in BOOLEAN, A /\ UNCHANGED pollVars => WorldInv', Outside(A)
  PROVE  IInv'
<1>1. A /\ UNCHANGED <<measureVars, pollVars, reportVars>>
  BY DEF Outside
<1>2. UNCHANGED <<stage, worker, taken, attempts, poller, observations>>
  BY <1>1 DEF measureVars, pollVars
<1>3. MeasureInv'
  BY <1>2, OthersMeasure DEF IInv, MeasureInv, MeasureOK
<1>4. WorldInv'
  BY <1>1
<1>5. ReportOK'
  BY <1>1, <1>2, ReportStays DEF IInv, ReportOK
<1>6. QED
  BY <1>3, <1>4, <1>5 DEF IInv

LEMMA WorldUnchanged ==
  ASSUME WorldInv, UNCHANGED <<pollVars, worldVars>>
  PROVE  WorldInv'
<1>1. UNCHANGED <<poller, observations, clock, up, lastDown, lastUp, marker, interrupted>>
  BY DEF pollVars, worldVars
<1>2. PollOK' /\ HistoryOK' /\ ClockOK'
  BY <1>1 DEF WorldInv, PollOK, HistoryOK, ClockOK
<1>3. ObservationsTrue'
  BY <1>1 DEF WorldInv, ObservationsTrue, TrueSince
<1>4. QED
  BY <1>2, <1>3 DEF WorldInv

LEMMA GoroutineKeeps ==
  ASSUME IInv, NEW g \in Goroutines, GoroutineStep(g)
  PROVE  IInv'
<1>1. UNCHANGED <<pollVars, worldVars, reportVars>> /\ stage = "measuring" /\ UNCHANGED stage
  BY DEF GoroutineStep, GoOn, TakeRequest, Record, At, Goto
<1>2. MeasureInv'
  BY GoroutineMeasures DEF IInv, WorldInv
<1>3. WorldInv'
  BY <1>1, WorldUnchanged DEF IInv
<1>4. UNCHANGED observations /\ UNCHANGED poller
  BY <1>1 DEF pollVars
<1>5. ReportOK'
  BY <1>1, <1>4, ReportStays
<1>6. QED
  BY <1>2, <1>3, <1>5 DEF IInv

LEMMA PollerKeeps ==
  ASSUME IInv,
         \/ Polling(BeginObservation) \/ Polling(EndObservation)
         \/ Polling(PollAgain) \/ Polling(StopPolling)
  PROVE  IInv'
<1>1. UNCHANGED worldVars /\ WorldInv
  BY DEF Polling, IInv
<1>2. CASE Polling(BeginObservation)
  <2>1. BeginObservation => WorldInv' /\ poller.pc # "done"
    BY <1>1, BeginObservationWorld DEF BeginObservation
  <2>2. QED
    BY <1>2, <2>1, PollingStep DEF BeginObservation, Poll
<1>3. CASE Polling(EndObservation)
  <2>1. EndObservation => WorldInv' /\ poller.pc # "done"
    BY <1>1, EndObservationWorld DEF EndObservation
  <2>2. QED
    BY <1>3, <2>1, PollingStep DEF EndObservation, Poll
<1>4. CASE Polling(PollAgain)
  <2>1. PollAgain => WorldInv' /\ poller.pc # "done"
    BY <1>1, BeginObservationWorld DEF PollAgain
  <2>2. QED
    BY <1>4, <2>1, PollingStep DEF PollAgain, Poll
<1>5. CASE Polling(StopPolling)
  <2>1. StopPolling => WorldInv' /\ poller.pc # "done"
    BY <1>1, StopPollingWorld DEF StopPolling
  <2>2. QED
    BY <1>5, <2>1, PollingStep DEF StopPolling, Poll
<1>6. QED
  BY <1>2, <1>3, <1>4, <1>5

LEMMA RunStepKeeps ==
  ASSUME IInv, RunStep
  PROVE  IInv'
<1>1. MeasureInv'
  BY RunStepMeasures DEF IInv
<1>2. WorldInv'
  BY WorldUnchanged DEF IInv, RunStep
<1>3. QED
  BY <1>1, <1>2, RunStepReports DEF IInv

LEMMA WorldKeeps ==
  ASSUME IInv,
         \/ Outside(TimePasses) \/ Outside(CircuitMoves)
         \/ Outside(InjectFault) \/ Outside(Interrupt)
  PROVE  IInv'
<1>1. CASE Outside(TimePasses)
  BY <1>1, TimePassesWorld, OutsideStep DEF IInv, TimePasses
<1>2. CASE Outside(CircuitMoves)
  BY <1>2, CircuitMovesWorld, OutsideStep DEF IInv, CircuitMoves
<1>3. CASE Outside(InjectFault)
  BY <1>3, MarkerMovesWorld, OutsideStep DEF IInv, InjectFault
<1>4. CASE Outside(Interrupt)
  BY <1>4, MarkerMovesWorld, OutsideStep DEF IInv, Interrupt
<1>5. QED
  BY <1>1, <1>2, <1>3, <1>4

LEMMA InitKeeps == AvailabilityInit => IInv
<1> SUFFICES ASSUME AvailabilityInit PROVE IInv
  OBVIOUS
<1>1. Those("requesting") = {} /\ Those("done") = {}
  BY DEF AvailabilityInit, Those
<1>2. MeasureOK
  BY DEF AvailabilityInit, MeasureOK, Stages, Locals, Places
<1>3. Overshoot /\ BudgetConserved
  <2>1. Cardinality(Those("requesting")) = 0 /\ Cardinality(Those("done")) = 0
    BY <1>1, FS_EmptySet
  <2>2. taken = 0 /\ Len(attempts) = 0
    BY DEF AvailabilityInit
  <2>3. QED
    BY <2>1, <2>2, AvailabilityAssumption, BudgetMeaning DEF Overshoot
<1>4. Start \in Instants /\ NoTime <= Start /\ Start <= Start
  BY AvailabilityAssumption DEF Instants, Start, NoTime
<1>5. ClockOK /\ HistoryOK
  BY <1>4 DEF AvailabilityInit, ClockOK, HistoryOK
<1>6. PollOK /\ ObservationsTrue
  BY AvailabilityAssumption DEF AvailabilityInit, PollOK, PollPlaces, ObservationsTrue
<1>7. ScanOK
  BY ScanStarts DEF AvailabilityInit
<1>8. ReportOK
  BY <1>7 DEF AvailabilityInit, ReportOK, FaultDuringWorkload
<1>9. QED
  BY <1>2, <1>3, <1>5, <1>6, <1>8 DEF IInv, MeasureInv, WorldInv

LEMMA StepKeeps == IInv /\ [AvailabilityNext]_availVars => IInv'
<1> SUFFICES ASSUME IInv, [AvailabilityNext]_availVars PROVE IInv'
  OBVIOUS
<1>1. ASSUME NEW g \in Goroutines, GoroutineStep(g) PROVE IInv'
  BY <1>1, GoroutineKeeps
<1>2. CASE UNCHANGED availVars
  <2>1. UNCHANGED <<measureVars, pollVars, worldVars, reportVars>>
    BY <1>2 DEF availVars
  <2>2. UNCHANGED <<stage, worker, taken, attempts, poller, observations>>
    BY <2>1 DEF measureVars, pollVars
  <2>3. MeasureInv' /\ WorldInv'
    BY <2>1, <2>2, OthersMeasure, WorldUnchanged DEF IInv, MeasureInv, MeasureOK
  <2>4. ReportOK'
    BY <2>1, <2>2, ReportStays DEF IInv, ReportOK
  <2>5. QED
    BY <2>3, <2>4 DEF IInv
<1>3. QED
  BY <1>1, <1>2, PollerKeeps, RunStepKeeps, WorldKeeps DEF AvailabilityNext

-----------------------------------------------------------------------------
(* What the invariant says.                                                *)

LEMMA InvType == IInv => AvailabilityTypeOK
<1> SUFFICES ASSUME IInv PROVE AvailabilityTypeOK
  OBVIOUS
<1>1. taken \in 0 .. MaxRequests + Cardinality(Goroutines)
  <2>1. Cardinality(Those("done")) <= Cardinality(Goroutines)
    <3>1. Those("done") \subseteq Goroutines
      BY DEF Those
    <3>2. QED
      BY <3>1, AvailabilityAssumption, FS_Subset
  <2>2. Cardinality(Goroutines) \in Nat /\ Cardinality(Those("done")) \in Nat
    BY ThoseFinite, AvailabilityAssumption, FS_CardinalityType
  <2>3. QED
    BY <2>1, <2>2, AvailabilityAssumption DEF IInv, MeasureInv, MeasureOK, Overshoot
<1>2. QED
  BY <1>1 DEF IInv, MeasureInv, MeasureOK, WorldInv, ClockOK, HistoryOK, PollOK, PollPlaces,
              ReportOK, ScanOK, Locals, AvailabilityTypeOK

LEMMA InvReportTrue == IInv => ReportIsTrue
<1> SUFFICES ASSUME IInv PROVE ReportIsTrue
  OBVIOUS
<1> DEFINE n == next - 1
           U == Sightings(n, "unhealthy")
           R == Recoveries(n)
<1>1. n \in Nat /\ n <= Len(observations) /\ observations \in Seq(Observation)
  BY DEF IInv, ReportOK, ScanOK, WorldInv, PollOK
<1>2. U \in SUBSET DOMAIN observations /\ R \in SUBSET DOMAIN observations
  BY <1>1 DEF Sightings, Recoveries
<1>3. IsFirst(detectedAt, U) /\ IsFirst(recoveredAt, R)
  BY DEF IInv, ReportOK, ScanOK, Definition
<1>4. \A i \in U : fault <= observations[i].at /\ observations[i].at <= lastDown
  BY <1>2, ObservationAt, InstantsAreNat
     DEF IInv, WorldInv, HistoryOK, ReportOK, ObservationsTrue, TrueSince, Sightings
<1>5. \A i \in R : observations[i].at <= lastUp /\ \E d \in U : d < i
  BY <1>2 DEF IInv, WorldInv, ObservationsTrue, TrueSince, Sightings, Recoveries
<1>6. \A i, j \in DOMAIN observations : i <= j => observations[i].at <= observations[j].at
  BY DEF IInv, WorldInv, ObservationsTrue
<1> HIDE DEF n, U, R
<1>7. ASSUME detectedAt # NoTime
      PROVE  fault <= detectedAt /\ detectedAt <= lastDown
  BY <1>3, <1>4, <1>7 DEF IsFirst
<1>8. ASSUME recoveredAt # NoTime
      PROVE  detectedAt # NoTime /\ detectedAt <= recoveredAt /\ recoveredAt <= lastUp
  <2>1. PICK i \in R : recoveredAt = observations[i].at
    BY <1>3, <1>8 DEF IsFirst
  <2>2. PICK d \in U : d < i
    BY <1>5, <2>1
  <2>3. detectedAt # NoTime
    BY <1>1, <1>2, <1>3, <2>2, FirstIsTime
  <2>4. PICK f \in U : detectedAt = observations[f].at /\ f <= d
    BY <1>3, <2>2, <2>3 DEF IsFirst
  <2>5. f <= i /\ f \in DOMAIN observations /\ i \in DOMAIN observations
    BY <1>1, <1>2, <2>1, <2>2, <2>4
  <2>6. QED
    BY <1>5, <1>6, <2>1, <2>3, <2>4, <2>5
<1>9. QED
  BY <1>7, <1>8 DEF ReportIsTrue

LEMMA InvScan == IInv => ScanMeetsDefinition
<1> SUFFICES ASSUME IInv, Scanned PROVE Definition(Len(observations))
  BY DEF ScanMeetsDefinition
<1>1. next - 1 = Len(observations)
  BY DEF IInv, WorldInv, PollOK, Scanned
<1>2. QED
  BY <1>1 DEF IInv, ReportOK, ScanOK

-----------------------------------------------------------------------------
(* Theorems.                                                               *)

LEMMA AlwaysIInv == AvailabilitySafetySpec => []IInv
  BY InitKeeps, StepKeeps, PTL DEF AvailabilitySafetySpec

(* The goroutines overshoot their budget by at most one index each, and    *)
(* every instant is one of the experiment.                                 *)
THEOREM AvailabilityTypeCorrect == AvailabilitySafetySpec => []AvailabilityTypeOK
  BY AlwaysIInv, InvType, PTL

(* For any number of goroutines and any budget, every request taken is     *)
(* under way or among the attempts of the report, and none is made beyond. *)
THEOREM BudgetKept == AvailabilitySafetySpec => []BudgetConserved
<1>1. IInv => BudgetConserved
  BY DEF IInv, MeasureInv
<1>2. QED
  BY <1>1, AlwaysIInv, PTL

(* No report is about a fault outside the workload.                        *)
THEOREM FaultBelongs == AvailabilitySafetySpec => []FaultDuringWorkload
<1>1. IInv => FaultDuringWorkload
  BY DEF IInv, ReportOK
<1>2. QED
  BY <1>1, AlwaysIInv, PTL

(* For observations of any number, some of them failed, the one pass of    *)
(* the report finds the first unhealthy sighting since the fault and the   *)
(* first healthy one after that.                                           *)
THEOREM ScanCorrect == AvailabilitySafetySpec => []ScanMeetsDefinition
  BY AlwaysIInv, InvScan, PTL

(* What the report says of the circuit was so.                             *)
THEOREM ReportHonest == AvailabilitySafetySpec => []ReportIsTrue
  BY AlwaysIInv, InvReportTrue, PTL
-----------------------------------------------------------------------------
(* The goroutines share the budget out as WorkShare says.                  *)

Shared == <<Left, Busy, Len(attempts), FALSE>>

LEMMA SharesAlone ==
  ASSUME UNCHANGED <<worker, taken, attempts>>
  PROVE  UNCHANGED Shared
  BY DEF Shared, Left, Busy

(* The place of one goroutine decides who is busy. *)
LEMMA BusyMoves ==
  ASSUME MeasureInv, NEW g \in Goroutines, NEW q, worker' = [worker EXCEPT ![g] = q]
  PROVE  Busy' = IF q.pc = "requesting" THEN Busy \cup {g} ELSE Busy \ {g}
<1>1. \A h \in Goroutines : worker'[h] = IF h = g THEN q ELSE worker[h]
  BY DEF MeasureInv, MeasureOK
<1>2. QED
  BY <1>1 DEF Busy

LEMMA GoOnShares ==
  ASSUME MeasureInv, NEW g \in Goroutines, GoOn(g)
  PROVE  UNCHANGED Shared
<1> DEFINE place == IF clock < StopAt /\ ~interrupted THEN "taking" ELSE "done"
           q == [worker[g] EXCEPT !.pc = place]
<1>1. worker[g] \in Locals /\ worker[g].pc = "ready"
  BY DEF MeasureInv, MeasureOK, GoOn, At
<1>2. q.pc = place /\ place # "requesting"
  BY <1>1 DEF Locals
<1>3. worker' = [worker EXCEPT ![g] = q] /\ UNCHANGED <<taken, attempts>>
  BY DEF GoOn, Goto
<1> HIDE DEF q, place
<1>4. Busy' = Busy \ {g}
  BY <1>2, <1>3, BusyMoves
<1>5. g \notin Busy
  BY <1>1 DEF Busy
<1>6. QED
  BY <1>3, <1>4, <1>5 DEF Shared, Left

LEMMA TakeShares ==
  ASSUME MeasureInv, NEW g \in Goroutines, TakeRequest(g)
  PROVE  Share!Draw(g) \/ UNCHANGED Shared
<1> DEFINE q == IF taken < MaxRequests THEN Requesting(clock) ELSE Idle("done")
<1>1. worker[g].pc = "taking" /\ g \notin Busy
  BY DEF TakeRequest, At, Busy
<1>2. q.pc = IF taken < MaxRequests THEN "requesting" ELSE "done"
  BY DEF Requesting, Idle
<1>3. worker' = [worker EXCEPT ![g] = q] /\ taken' = taken + 1 /\ UNCHANGED attempts
  BY DEF TakeRequest
<1> HIDE DEF q
<1>4. Busy' = IF taken < MaxRequests THEN Busy \cup {g} ELSE Busy \ {g}
  BY <1>2, <1>3, BusyMoves
<1>5. taken \in Nat /\ MaxRequests \in Nat
  BY AvailabilityAssumption DEF MeasureInv, MeasureOK
<1>6. CASE taken < MaxRequests
  <2>1. Left > 0 /\ Left' = Left - 1
    BY <1>3, <1>5, <1>6 DEF Left
  <2>2. QED
    BY <1>1, <1>3, <1>4, <1>6, <2>1 DEF Share!Draw
<1>7. CASE ~(taken < MaxRequests)
  <2>1. Left' = Left
    BY <1>3, <1>5, <1>7 DEF Left
  <2>2. QED
    BY <1>1, <1>3, <1>4, <1>7, <2>1 DEF Shared
<1>8. QED
  BY <1>6, <1>7

LEMMA RecordShares ==
  ASSUME MeasureInv, ClockOK, NEW g \in Goroutines, Record(g)
  PROVE  Share!Finish(g)
<1> DEFINE q == Idle("ready")
           a == [started |-> worker[g].started, finished |-> clock]
<1>1. worker[g].pc = "requesting" /\ g \in Busy
  BY DEF Record, At, Busy
<1>2. q.pc # "requesting"
  BY DEF Idle
<1>3. worker' = [worker EXCEPT ![g] = q] /\ attempts' = Append(attempts, a) /\ UNCHANGED taken
  BY DEF Record
<1>4. a \in Attempt
  BY <1>1 DEF MeasureInv, MeasureOK, ClockOK, Attempt
<1> HIDE DEF q, a
<1>5. Busy' = Busy \ {g}
  BY <1>2, <1>3, BusyMoves
<1>6. Len(attempts') = Len(attempts) + 1
  BY <1>3, <1>4 DEF MeasureInv, MeasureOK
<1>7. QED
  BY <1>1, <1>3, <1>5, <1>6 DEF Share!Finish, Left

LEMMA ShareStep ==
  ASSUME IInv, [AvailabilityNext]_availVars
  PROVE  [Share!Next]_Shared
<1>1. MeasureInv /\ ClockOK
  BY DEF IInv, WorldInv
<1>2. ASSUME NEW g \in Goroutines, GoroutineStep(g)
      PROVE  [Share!Next]_Shared
  BY <1>1, <1>2, GoOnShares, TakeShares, RecordShares DEF GoroutineStep, Share!Next
<1>3. CASE UNCHANGED <<worker, taken, attempts>>
  BY <1>3, SharesAlone
<1>4. CASE \/ Polling(BeginObservation) \/ Polling(EndObservation)
           \/ Polling(PollAgain) \/ Polling(StopPolling)
  BY <1>3, <1>4 DEF Polling, measureVars
<1>5. CASE RunStep
  BY <1>3, <1>5 DEF RunStep, RequestsDone, PollingDone, ReadMarker, ScanObservations, WriteReport,
                    MoveOn, measureVars
<1>6. CASE \/ Outside(TimePasses) \/ Outside(CircuitMoves)
           \/ Outside(InjectFault) \/ Outside(Interrupt)
  BY <1>3, <1>6 DEF Outside, measureVars
<1>7. CASE UNCHANGED availVars
  BY <1>3, <1>7 DEF availVars, measureVars
<1>8. QED
  BY <1>2, <1>4, <1>5, <1>6, <1>7 DEF AvailabilityNext

(* However many goroutines there are: what one draws from the budget it    *)
(* has alone and turns into one attempt of the report.                     *)
THEOREM BudgetShared == AvailabilitySafetySpec => ImplementsWorkShare
<1>1. AvailabilityInit => Share!Init
  BY AvailabilityAssumption DEF AvailabilityInit, Share!Init, Left, Busy
<1>2. [Share!Next]_Shared <=> [Share!Next]_(Share!workVars)
  BY DEF Shared, Share!workVars
<1>3. IInv /\ [AvailabilityNext]_availVars => [Share!Next]_(Share!workVars)
  BY <1>2, ShareStep
<1>4. QED
  BY <1>1, <1>3, AlwaysIInv, PTL
     DEF AvailabilitySafetySpec, ImplementsWorkShare, Share!Spec
=============================================================================
