--------------------------- MODULE AvailabilityRun ---------------------------
(***************************************************************************)
(* The availability benchmark: RunAvailability of                          *)
(* internal/benchmark/availability_run.go and the rest of                  *)
(* cmd/failover-benchmark, which measures how the guardian takes the fault *)
(* of one worker, the target.                                              *)
(*                                                                         *)
(* Goroutines send requests until the time or the budget is over.  A       *)
(* goroutine is at                                                         *)
(*                                                                         *)
(*   ready       the head of its loop                                      *)
(*   taking      about to take a request from the budget                   *)
(*   requesting  in Request                                                *)
(*   done        returned                                                  *)
(*                                                                         *)
(* Another one polls the admin API, which shows whether the circuit of the *)
(* target is closed: as CircuitBreaker has it, it may open and close at    *)
(* any time.  Meanwhile somebody stops the target and writes the instant   *)
(* to the marker file, which is read at the end.  What an attempt holds    *)
(* besides its two instants is left out.                                   *)
(***************************************************************************)
EXTENDS AvailabilityReport, FiniteSets

CONSTANTS
  Goroutines,        \* as many as options.Concurrency
  MaxRequests,       \* options.MaxRequests
  Duration,          \* options.Duration, in ticks
  Horizon,           \* bound of this model: the last instant
  MaxObservations    \* bound of this model: later observations are not kept

(* RunAvailability refuses anything else. *)
ASSUME AvailabilityAssumption ==
  /\ IsFiniteSet(Goroutines) /\ Goroutines # {}
  /\ MaxRequests \in Nat \ {0}
  /\ Duration \in Nat \ {0}
  /\ Horizon \in Nat /\ Horizon > Duration
  /\ MaxObservations \in Nat \ {0}

Start == 1                  \* the instant RunAvailability is called
Stale == 0                  \* the instant of an earlier experiment
StopAt == Start + Duration
Instants == Start .. Horizon

VARIABLES
  clock,
  up,            \* the circuit of the target is closed
  stage,         \* of run: see Stages
  worker,        \* the goroutines: place, start of their request
  taken,         \* nextRequest
  attempts,      \* [started, finished] of the requests made
  poller,        \* the polling goroutine: place, instant of its observation
  marker,        \* the instant in the marker file, NoTime if there is none
  interrupted,   \* ctx: the benchmark has been interrupted
  lastDown,      \* history: the last instant the circuit was not closed
  lastUp         \* history: the last instant it was

measureVars == <<stage, worker, taken, attempts>>
pollVars == <<poller, observations>>
worldVars == <<clock, up, lastDown, lastUp, marker, interrupted>>
reportVars == <<fault, scanVars>>

availVars == <<measureVars, pollVars, worldVars, reportVars>>

(* "stopping": the goroutines are done, the poller has been told to stop;  *)
(* "returned": RunAvailability has; the last two: run has.                 *)
Stages == {"measuring", "stopping", "returned", "scanning", "reported", "error"}
Places == {"ready", "taking", "requesting", "done"}

AvailabilityInit ==
  /\ clock = Start
  /\ up \in BOOLEAN
  /\ stage = "measuring"
  /\ worker = [g \in Goroutines |-> [pc |-> "ready", started |-> NoTime]]
  /\ taken = 0
  /\ attempts = <<>>
  /\ poller = [pc |-> "starting", at |-> NoTime]
  /\ observations = <<>>
  /\ marker \in {NoTime, Stale}
  /\ interrupted = FALSE
  /\ lastDown = IF up THEN NoTime ELSE clock
  /\ lastUp = IF up THEN clock ELSE NoTime
  /\ fault = NoTime
  /\ ScanInit

-----------------------------------------------------------------------------
(* The goroutines that send requests.                                      *)

At(g, place) == stage = "measuring" /\ worker[g].pc = place

Goto(g, place) ==
  /\ worker' = [worker EXCEPT ![g].pc = place]
  /\ UNCHANGED <<stage, taken, attempts>>

(* The loop's condition and ctx.Err().  Neither recovers once it has       *)
(* failed, so looking at both at once leaves nothing out.                  *)
GoOn(g) ==
  At(g, "ready") /\ Goto(g, IF clock < StopAt /\ ~interrupted THEN "taking" ELSE "done")

Requesting(at) == [pc |-> "requesting", started |-> at]
Idle(place) == [pc |-> place, started |-> NoTime]

(* nextRequest.Add(1), and Request stamps its start.                       *)
TakeRequest(g) ==
  /\ At(g, "taking")
  /\ taken' = taken + 1
  /\ worker' = [worker EXCEPT ![g] = IF taken < MaxRequests THEN Requesting(clock) ELSE Idle("done")]
  /\ UNCHANGED <<stage, attempts>>

(* Mutant: attempts is appended to without the lock.                       *)
RecordUnlocked(g) ==
  /\ At(g, "requesting")
  /\ LET attempt == [started |-> worker[g].started, finished |-> clock]
     IN \E kept \in {attempts, <<>>} : attempts' = Append(kept, attempt)
  /\ worker' = [worker EXCEPT ![g] = Idle("ready")]
  /\ UNCHANGED <<stage, taken>>

(* Request returns, with an answer or an error, and the attempt is kept.   *)
Record(g) ==
  /\ At(g, "requesting")
  /\ attempts' = Append(attempts, [started |-> worker[g].started, finished |-> clock])
  /\ worker' = [worker EXCEPT ![g] = Idle("ready")]
  /\ UNCHANGED <<stage, taken>>

GoroutineStep(g) ==
  /\ GoOn(g) \/ TakeRequest(g) \/ Record(g)
  /\ UNCHANGED <<pollVars, worldVars, reportVars>>

-----------------------------------------------------------------------------
(* The goroutine that polls the admin API.                                 *)

Poll(place, at) == poller' = [pc |-> place, at |-> at]

(* observeWorkers stamps the observation before it sends the request.      *)
BeginObservation ==
  /\ poller.pc = "starting"
  /\ Poll("observing", clock)
  /\ UNCHANGED observations

(* The snapshot, or an error.  A target that the answering guardian does   *)
(* not have is not listed.                                                 *)
EndObservation ==
  /\ poller.pc = "observing"
  /\ \E verdict \in {IF up THEN "healthy" ELSE "unhealthy", "unlisted", "failed"} :
       observations' = IF Len(observations) < MaxObservations
                       THEN Append(observations, [at |-> poller.at, target |-> verdict])
                       ELSE observations
  /\ Poll("waiting", NoTime)

(* The branches of select: the ticker, which may have fired any time, ...  *)
PollAgain ==
  /\ poller.pc = "waiting"
  /\ Poll("observing", clock)
  /\ UNCHANGED observations

(* Mutant: the poller listens to the context only.                         *)
StopPollingOnInterrupt ==
  /\ poller.pc = "waiting" /\ interrupted
  /\ Poll("done", NoTime)
  /\ UNCHANGED observations

(* ... and stopPolling or ctx.Done().                                      *)
StopPolling ==
  /\ poller.pc = "waiting" /\ (stage # "measuring" \/ interrupted)
  /\ Poll("done", NoTime)
  /\ UNCHANGED observations

Polling(A) == A /\ UNCHANGED <<measureVars, worldVars, reportVars>>

-----------------------------------------------------------------------------
(* RunAvailability after the requests, and run after RunAvailability.      *)

MoveOn(to) == stage' = to /\ UNCHANGED <<worker, taken, attempts>>

RequestsDone ==
  /\ \A g \in Goroutines : At(g, "done")
  /\ MoveOn("stopping")
  /\ UNCHANGED reportVars

(* Some answer lists a worker, the target or another. *)
HasWorkerEvidence == \E i \in DOMAIN observations : observations[i].target # "failed"

PollingDone ==
  /\ stage = "stopping" /\ poller.pc = "done"
  /\ MoveOn(IF HasWorkerEvidence THEN "returned" ELSE "error")
  /\ UNCHANGED reportVars

(* Mutant: only the latest finish is looked at.                            *)
BeforeTheEnd(at) == \E i \in DOMAIN attempts : at <= attempts[i].finished

(* validateFaultTime: not before the earliest start of an attempt, not     *)
(* after the latest finish, and there is an attempt.                       *)
WithinWorkload(at) ==
  /\ \E i \in DOMAIN attempts : attempts[i].started <= at
  /\ \E i \in DOMAIN attempts : at <= attempts[i].finished

ReadMarker ==
  /\ stage = "returned"
  /\ IF marker # NoTime /\ WithinWorkload(marker)
     THEN MoveOn("scanning") /\ fault' = marker
     ELSE MoveOn("error") /\ UNCHANGED fault
  /\ UNCHANGED scanVars

ScanObservations == stage = "scanning" /\ Scan /\ UNCHANGED <<measureVars, fault>>

WriteReport == stage = "scanning" /\ Scanned /\ MoveOn("reported") /\ UNCHANGED reportVars

RunStep ==
  /\ RequestsDone \/ PollingDone \/ ReadMarker \/ ScanObservations \/ WriteReport
  /\ UNCHANGED <<pollVars, worldVars>>

-----------------------------------------------------------------------------
(* The rest of the world.  What happens between the last observation and   *)
(* the reading of the marker may as well happen before PollingDone, and    *)
(* nothing looks at the world after that.                                  *)
Outside(A) ==
  /\ stage \in {"measuring", "stopping"}
  /\ A
  /\ UNCHANGED <<measureVars, pollVars, reportVars>>

(* The histories follow the clock and the circuit.                         *)
Remember ==
  /\ lastDown' = IF up' THEN lastDown ELSE clock'
  /\ lastUp' = IF up' THEN clock' ELSE lastUp

TimePasses ==
  /\ clock < Horizon
  /\ clock' = clock + 1
  /\ UNCHANGED <<up, marker, interrupted>>
  /\ Remember

CircuitMoves ==
  /\ up' = ~up
  /\ UNCHANGED <<clock, marker, interrupted>>
  /\ Remember

(* The script overwrites the marker and stops the target.                  *)
InjectFault ==
  /\ marker \in {NoTime, Stale}
  /\ marker' = clock
  /\ UNCHANGED <<clock, up, lastDown, lastUp, interrupted>>

Interrupt ==
  /\ ~interrupted
  /\ interrupted' = TRUE
  /\ UNCHANGED <<clock, up, lastDown, lastUp, marker>>

-----------------------------------------------------------------------------

AvailabilityNext ==
  \/ \E g \in Goroutines : GoroutineStep(g)
  \/ Polling(BeginObservation) \/ Polling(EndObservation)
  \/ Polling(PollAgain) \/ Polling(StopPolling)
  \/ RunStep
  \/ Outside(TimePasses) \/ Outside(CircuitMoves)
  \/ Outside(InjectFault) \/ Outside(Interrupt)

AvailabilitySafetySpec == AvailabilityInit /\ [][AvailabilityNext]_availVars

(* Requests and observations end, since the client has a timeout.  select  *)
(* picks one of the branches that are ready at random, so a poller that    *)
(* finds the ticker ready every time still stops in the end.               *)
AvailabilitySpec ==
  /\ AvailabilitySafetySpec
  /\ \A g \in Goroutines : WF_availVars(GoroutineStep(g))
  /\ WF_availVars(Polling(BeginObservation))
  /\ WF_availVars(Polling(EndObservation))
  /\ SF_availVars(Polling(StopPolling))
  /\ WF_availVars(RunStep)

-----------------------------------------------------------------------------
(* The budget as goroutines share it out.  The end of the time and an      *)
(* interrupt leave some of it undrawn and nothing that was drawn unmade.   *)

Left == IF taken < MaxRequests THEN MaxRequests - taken ELSE 0
Busy == {g \in Goroutines : worker[g].pc = "requesting"}

Share == INSTANCE WorkShare WITH
  Total <- MaxRequests, left <- Left, busy <- Busy,
  done <- Len(attempts), broken <- FALSE

-----------------------------------------------------------------------------
(* Properties.                                                             *)

Attempt == [started : Instants, finished : Instants]
Observation == [at : Instants, target : Verdicts]

(* Instants are in their ranges and the budget counter overshoots by at    *)
(* most one per goroutine.                                                 *)
AvailabilityTypeOK ==
  /\ clock \in Instants
  /\ up \in BOOLEAN
  /\ stage \in Stages
  /\ worker \in [Goroutines -> [pc : Places, started : Instants \cup {NoTime}]]
  /\ taken \in 0 .. MaxRequests + Cardinality(Goroutines)
  /\ attempts \in Seq(Attempt)
  /\ poller \in [pc : {"starting", "observing", "waiting", "done"}, at : Instants \cup {NoTime}]
  /\ observations \in Seq(Observation) /\ Len(observations) <= MaxObservations
  /\ marker \in Instants \cup {Stale, NoTime} /\ fault \in Instants \cup {NoTime}
  /\ interrupted \in BOOLEAN
  /\ lastDown \in Instants \cup {NoTime} /\ lastUp \in Instants \cup {NoTime}
  /\ next \in 1 .. Len(observations) + 1
  /\ detectedAt \in Instants \cup {NoTime} /\ recoveredAt \in Instants \cup {NoTime}

(* Every request taken from the budget is made and ends up in the report,  *)
(* however it ends, and none is made beyond the budget.                    *)
BudgetConserved ==
  Len(attempts) + Cardinality({g \in Goroutines : worker[g].pc = "requesting"})
    = IF taken < MaxRequests THEN taken ELSE MaxRequests

(* Step by step: what is drawn from the budget becomes one attempt each,   *)
(* and no interrupt, no deadline and no failure loses one.                 *)
ImplementsWorkShare == Share!Spec

(* The report is about the fault of this run: a marker left behind by an   *)
(* earlier one, or a fault outside the workload, yields no report.         *)
FaultDuringWorkload ==
  stage \in {"scanning", "reported"} =>
    /\ fault >= Start
    /\ \E i, j \in DOMAIN attempts : fault \in attempts[i].started .. attempts[j].finished

(* Polls that fail, are late or straddle the fault never make the report   *)
(* claim what was not: a detection means that the circuit was not closed   *)
(* at some moment since the fault and since the instant reported, and a    *)
(* recovery, that comes after it, that it was closed since then.           *)
ReportIsTrue ==
  /\ detectedAt # NoTime => fault <= detectedAt /\ detectedAt <= lastDown
  /\ recoveredAt # NoTime =>
       /\ detectedAt # NoTime
       /\ detectedAt <= recoveredAt /\ recoveredAt <= lastUp

(* Whatever fails, whenever, the benchmark ends.                           *)
AvailabilityReturns == <>(stage \in {"reported", "error"})
=============================================================================
