---------------------------- MODULE LimiterProofs ----------------------------
(***************************************************************************)
(* Proofs about the rate limiter, for every set of clients and every rate, *)
(* burst and idle limit: its types, that it cannot be told from steady     *)
(* buckets that are never deleted, what a client gets in any stretch of    *)
(* time, and that the instants which the code keeps do what the ages of    *)
(* Limiter do.                                                             *)
(*                                                                         *)
(* Two of them need that an idle bucket is refilled before it is deleted   *)
(* (RefillsWhileIdle), which the configuration leaves open.                *)
(***************************************************************************)
EXTENDS RateWindow, TimedLimiter, TLAPS

-----------------------------------------------------------------------------
(* The level of a bucket, as the next call of its client will find it.     *)

LEMMA RefilledType ==
  ASSUME LimiterTypeOK, NEW c \in Clients
  PROVE  Refilled(c) \in 0 .. Capacity
<1>1. CASE c \in Known
  <2>1. buckets[c] \in [tokens : 0 .. Capacity, age : 0 .. AgeCap]
    BY <1>1 DEF LimiterTypeOK
  <2>2. buckets[c].tokens \in 0 .. Capacity /\ buckets[c].age \in 0 .. AgeCap
    BY <2>1
  <2>3. buckets[c].age * Rate \in Nat
    <3>1. \A m, n \in Nat : m * n \in Nat
      OBVIOUS
    <3>2. QED
      BY <2>2, <3>1, LimiterAssumption
  <2>4. QED
    BY <1>1, <2>2, <2>3, LimiterAssumption DEF Refilled, Least
<1>2. CASE c \notin Known
  BY <1>2, LimiterAssumption DEF Refilled
<1>3. QED
  BY <1>1, <1>2

(* What Allow stores is a bucket. *)
LEMMA TouchedType ==
  ASSUME LimiterTypeOK, NEW c \in Clients
  PROVE  /\ Touched(c) \in [tokens : 0 .. Capacity, age : 0 .. AgeCap]
         /\ Touched(c).age = 0
         /\ Touched(c).tokens = IF Refilled(c) >= Cost THEN Refilled(c) - Cost ELSE Refilled(c)
<1>1. Refilled(c) \in 0 .. Capacity
  BY RefilledType
<1>2. (IF Refilled(c) >= Cost THEN Refilled(c) - Cost ELSE Refilled(c)) \in 0 .. Capacity
  BY <1>1, LimiterAssumption
<1>3. 0 \in 0 .. AgeCap
  BY LimiterAssumption
<1>4. QED
  BY <1>2, <1>3 DEF Touched

-----------------------------------------------------------------------------
(* Types. *)

LEMMA InitType == LimiterInit => LimiterTypeOK
  BY LimiterAssumption DEF LimiterInit, LimiterTypeOK, Known

LEMMA AllowType ==
  ASSUME LimiterTypeOK, NEW c \in Clients, Allow(c)
  PROVE  LimiterTypeOK'
<1> DEFINE kept == {d \in Known \ {c} : ~(CleanupDue /\ Idle(d))} \cup {c}
<1>1. buckets' = [d \in kept |-> IF d = c THEN Touched(c) ELSE buckets[d]]
  BY DEF Allow
<1>2. kept \subseteq Clients
  BY DEF LimiterTypeOK
<1>3. Known' = kept
  BY <1>1 DEF Known
<1>4. \A d \in kept : (IF d = c THEN Touched(c) ELSE buckets[d])
                        \in [tokens : 0 .. Capacity, age : 0 .. AgeCap]
  BY TouchedType DEF LimiterTypeOK
<1>5. buckets' \in [Known' -> [tokens : 0 .. Capacity, age : 0 .. AgeCap]]
  BY <1>1, <1>3, <1>4
<1>6. sinceCleanup' \in 0 .. CleanupEvery
  BY LimiterAssumption DEF Allow, LimiterTypeOK
<1>7. answer' \in [Clients -> {"none", "allowed", "limited"}]
  BY DEF Allow, LimiterTypeOK
<1>8. QED
  BY <1>2, <1>3, <1>5, <1>6, <1>7 DEF LimiterTypeOK

LEMMA TickType ==
  ASSUME LimiterTypeOK, Tick
  PROVE  LimiterTypeOK'
<1>1. buckets' = [d \in Known |-> [buckets[d] EXCEPT !.age = Least(AgeCap, @ + 1)]]
  BY DEF Tick
<1>2. Known' = Known
  BY <1>1 DEF Known
<1>3. ASSUME NEW d \in Known
      PROVE  [buckets[d] EXCEPT !.age = Least(AgeCap, @ + 1)]
               \in [tokens : 0 .. Capacity, age : 0 .. AgeCap]
  <2>1. buckets[d] \in [tokens : 0 .. Capacity, age : 0 .. AgeCap]
    BY DEF LimiterTypeOK
  <2>2. Least(AgeCap, buckets[d].age + 1) \in 0 .. AgeCap
    BY <2>1, LimiterAssumption DEF Least
  <2>3. QED
    BY <2>1, <2>2
<1>4. sinceCleanup' \in 0 .. CleanupEvery
  BY LimiterAssumption DEF Tick, LimiterTypeOK, Least
<1>5. QED
  BY <1>1, <1>2, <1>3, <1>4 DEF LimiterTypeOK, Tick

LEMMA LimiterStepType == LimiterTypeOK /\ [LimiterNext]_limiterVars => LimiterTypeOK'
<1>1. ASSUME LimiterTypeOK, UNCHANGED limiterVars
      PROVE  LimiterTypeOK'
  BY <1>1 DEF LimiterTypeOK, Known, limiterVars
<1>2. QED
  BY <1>1, AllowType, TickType DEF LimiterNext

(* Every stored bucket belongs to a client and holds what it may hold. *)
THEOREM LimiterTypeCorrect == LimiterSpec => []LimiterTypeOK
  BY InitType, LimiterStepType, PTL DEF LimiterSpec

-----------------------------------------------------------------------------
(* Idle buckets.  With the types the property is inductive: while no       *)
(* cleanup is due every age grows with the time since the last one.        *)

LEMMA AllowDrops ==
  ASSUME LimiterTypeOK, IdleBucketsDropped, NEW c \in Clients, Allow(c)
  PROVE  IdleBucketsDropped'
<1> DEFINE kept == {d \in Known \ {c} : ~(CleanupDue /\ Idle(d))} \cup {c}
<1>1. /\ buckets' = [d \in kept |-> IF d = c THEN Touched(c) ELSE buckets[d]]
      /\ sinceCleanup' = IF CleanupDue THEN 0 ELSE sinceCleanup
  BY DEF Allow
<1>2. Known' = kept
  BY <1>1 DEF Known
<1>3. sinceCleanup' \in Nat /\ IdleLimit \in Nat
  BY <1>1, LimiterAssumption DEF LimiterTypeOK
<1>4. ASSUME NEW d \in kept, ~CleanupDue'
      PROVE  buckets'[d].age <= IdleLimit + sinceCleanup'
  <2>1. CASE d = c
    <3>1. buckets'[d].age = 0
      BY <1>1, <2>1, TouchedType
    <3>2. QED
      BY <1>3, <3>1
  <2>2. CASE d # c
    <3>1. buckets'[d] = buckets[d] /\ d \in Known
      BY <1>1, <2>2
    <3>2. buckets[d].age \in Nat
      BY <3>1 DEF LimiterTypeOK
    <3>3. CASE CleanupDue
      <4>1. ~(buckets[d].age > IdleLimit)
        BY <2>2, <3>3 DEF Idle
      <4>2. QED
        BY <1>3, <3>1, <3>2, <4>1
    <3>4. CASE ~CleanupDue
      BY <1>1, <3>1, <3>4 DEF IdleBucketsDropped
    <3>5. QED
      BY <3>3, <3>4
  <2>3. QED
    BY <2>1, <2>2
<1>5. QED
  BY <1>2, <1>4 DEF IdleBucketsDropped

LEMMA TickDrops ==
  ASSUME LimiterTypeOK, IdleBucketsDropped, Tick
  PROVE  IdleBucketsDropped'
<1>1. /\ buckets' = [d \in Known |-> [buckets[d] EXCEPT !.age = Least(AgeCap, @ + 1)]]
      /\ sinceCleanup' = Least(CleanupEvery, sinceCleanup + 1)
  BY DEF Tick
<1>2. Known' = Known
  BY <1>1 DEF Known
<1>3. ASSUME NEW d \in Known, ~CleanupDue'
      PROVE  buckets'[d].age <= IdleLimit + sinceCleanup'
  <2>1. ~CleanupDue /\ sinceCleanup' = sinceCleanup + 1 /\ sinceCleanup \in Nat
    BY <1>1, <1>3, LimiterAssumption DEF CleanupDue, Least, LimiterTypeOK
  <2>2. buckets[d].age \in Nat /\ buckets[d].age <= IdleLimit + sinceCleanup
    BY <2>1 DEF IdleBucketsDropped, LimiterTypeOK
  <2>3. buckets[d] \in [tokens : 0 .. Capacity, age : 0 .. AgeCap]
    BY DEF LimiterTypeOK
  <2>4. buckets'[d].age = Least(AgeCap, buckets[d].age + 1)
    BY <1>1, <2>3
  <2>5. QED
    BY <2>1, <2>2, <2>4, LimiterAssumption DEF Least
<1>4. QED
  BY <1>2, <1>3 DEF IdleBucketsDropped

(* For any clients and durations, no bucket outlives an hour and the time  *)
(* since the last cleanup, until a cleanup is due.                         *)
THEOREM IdleBucketsGo == LimiterSpec => []IdleBucketsDropped
<1>1. LimiterInit => IdleBucketsDropped
  BY LimiterAssumption DEF LimiterInit, IdleBucketsDropped, CleanupDue
<1>2. LimiterTypeOK /\ IdleBucketsDropped /\ [LimiterNext]_limiterVars => IdleBucketsDropped'
  <2>1. ASSUME IdleBucketsDropped, UNCHANGED limiterVars
        PROVE  IdleBucketsDropped'
    BY <2>1 DEF IdleBucketsDropped, CleanupDue, Known, limiterVars
  <2>2. QED
    BY <2>1, AllowDrops, TickDrops DEF LimiterNext
<1>3. QED
  BY <1>1, <1>2, LimiterTypeCorrect, PTL DEF LimiterSpec

-----------------------------------------------------------------------------
(* How each operation moves the levels.                                    *)

(* A bucket that is deleted is refilled, so it comes back as it was. *)
LEMMA IdleIsFull ==
  ASSUME LimiterTypeOK, RefillsWhileIdle, NEW d \in Known, Idle(d)
  PROVE  Refilled(d) = Capacity
<1>1. buckets[d].tokens \in 0 .. Capacity /\ buckets[d].age \in 0 .. AgeCap
  BY DEF LimiterTypeOK
<1>2. IdleLimit * Rate <= buckets[d].age * Rate
  <2>1. \A i, j, k \in Nat : i <= j => i * k <= j * k
    BY SMT
  <2>2. buckets[d].age > IdleLimit
    BY DEF Idle
  <2>3. QED
    BY <1>1, <2>1, <2>2, LimiterAssumption
<1>3. IdleLimit * Rate \in Int /\ buckets[d].age * Rate \in Int
  BY <1>1, LimiterAssumption
<1>4. QED
  BY <1>1, <1>2, <1>3, LimiterAssumption DEF Refilled, Least, RefillsWhileIdle

(* Allow takes a token from its client if one is there, and leaves the     *)
(* levels of the others alone, deleted or not.                             *)
LEMMA AllowMoves ==
  ASSUME LimiterTypeOK, RefillsWhileIdle, NEW c \in Clients, Allow(c), NEW d \in Clients
  PROVE  Refilled(d)' = IF d = c /\ Refilled(c) >= Cost THEN Refilled(c) - Cost ELSE Refilled(d)
<1> DEFINE kept == {e \in Known \ {c} : ~(CleanupDue /\ Idle(e))} \cup {c}
<1>1. buckets' = [e \in kept |-> IF e = c THEN Touched(c) ELSE buckets[e]]
  BY DEF Allow
<1>2. Known' = kept
  BY <1>1 DEF Known
<1>3. Refilled(d)' = IF d \in kept
                     THEN Least(Capacity, buckets'[d].tokens + buckets'[d].age * Rate)
                     ELSE Capacity
  BY <1>2 DEF Refilled
<1>4. CASE d = c
  <2>1. buckets'[c] = Touched(c)
    BY <1>1
  <2>2. Refilled(c) \in 0 .. Capacity
    BY RefilledType
  <2>3. Refilled(c)' = Least(Capacity, Touched(c).tokens)
    BY <1>3, <1>4, <2>1, TouchedType, LimiterAssumption
  <2>4. QED
    BY <1>4, <2>2, <2>3, TouchedType, LimiterAssumption DEF Least
<1>5. CASE d # c /\ d \in kept
  <2>1. buckets'[d] = buckets[d] /\ d \in Known
    BY <1>1, <1>5
  <2>2. QED
    BY <1>3, <1>5, <2>1 DEF Refilled
<1>6. CASE d # c /\ d \notin kept
  <2>1. d \in Known => Idle(d)
    BY <1>6
  <2>2. Refilled(d) = Capacity
    BY <2>1, IdleIsFull DEF Refilled
  <2>3. QED
    BY <1>3, <1>6, <2>2
<1>7. QED
  BY <1>4, <1>5, <1>6

(* A tick refills every bucket, the ones whose age is no longer counted    *)
(* included: they are full.                                                *)
LEMMA TickMoves ==
  ASSUME LimiterTypeOK, Tick, NEW d \in Clients
  PROVE  Refilled(d)' = Least(Capacity, Refilled(d) + Rate)
<1>1. buckets' = [e \in Known |-> [buckets[e] EXCEPT !.age = Least(AgeCap, @ + 1)]]
  BY DEF Tick
<1>2. Known' = Known
  BY <1>1 DEF Known
<1>3. CASE d \notin Known
  BY <1>2, <1>3, LimiterAssumption DEF Refilled, Least
<1>4. CASE d \in Known
  <2>1. PICK tokens \in 0 .. Capacity, age \in 0 .. AgeCap :
          buckets[d] = [tokens |-> tokens, age |-> age]
    BY <1>4 DEF LimiterTypeOK
  <2>2. buckets'[d] = [tokens |-> tokens, age |-> Least(AgeCap, age + 1)]
    BY <1>1, <1>4, <2>1
  <2>3. /\ Refilled(d) = Least(Capacity, tokens + age * Rate)
        /\ Refilled(d)' = Least(Capacity, tokens + Least(AgeCap, age + 1) * Rate)
    BY <1>2, <1>4, <2>1, <2>2 DEF Refilled
  <2>4. (age + 1) * Rate = age * Rate + Rate /\ age * Rate \in Nat
    <3>1. \A m, n \in Nat : (m + 1) * n = m * n + n /\ m * n \in Nat
      BY SMT
    <3>2. QED
      BY <3>1, LimiterAssumption
  <2>5. CASE age < AgeCap
    <3>1. Least(AgeCap, age + 1) = age + 1
      BY <2>5, LimiterAssumption DEF Least
    <3>2. QED
      BY <2>3, <2>4, <3>1, LimiterAssumption DEF Least
  <2>6. CASE age = AgeCap
    <3>1. Least(AgeCap, age + 1) = AgeCap
      BY <2>6, LimiterAssumption DEF Least
    <3>2. QED
      BY <2>3, <2>4, <2>6, <3>1, LimiterAssumption DEF Least
  <2>7. QED
    BY <2>5, <2>6, LimiterAssumption
<1>5. QED
  BY <1>3, <1>4

-----------------------------------------------------------------------------
(* The limiter implements the steady buckets. *)

LEMMA InitLevel == LimiterInit => Promised!Init
  BY DEF LimiterInit, Promised!Init, level, Refilled, Known

LEMMA AllowImplements ==
  ASSUME LimiterTypeOK, RefillsWhileIdle, NEW c \in Clients, Allow(c)
  PROVE  Promised!Grant(c) \/ Promised!Deny(c)
<1>1. answer' = [answer EXCEPT ![c] = IF Refilled(c) >= Cost THEN "allowed" ELSE "limited"]
  BY DEF Allow
<1>2. level[c] = Refilled(c) /\ Refilled(c) \in 0 .. Capacity
  BY RefilledType DEF level
<1>3. CASE Refilled(c) >= Cost
  <2>1. \A d \in Clients : Refilled(d)' = IF d = c THEN Refilled(c) - Cost ELSE Refilled(d)
    BY <1>3, AllowMoves
  <2>2. level' = [level EXCEPT ![c] = @ - Cost]
    BY <2>1 DEF level
  <2>3. QED
    BY <1>1, <1>2, <1>3, <2>2 DEF Promised!Grant
<1>4. CASE Refilled(c) < Cost
  <2>1. \A d \in Clients : Refilled(d)' = Refilled(d)
    BY <1>2, <1>4, AllowMoves, LimiterAssumption
  <2>2. level' = level
    BY <2>1 DEF level
  <2>3. ~(Refilled(c) >= Cost)
    BY <1>2, <1>4, LimiterAssumption
  <2>4. answer' = [answer EXCEPT ![c] = "limited"]
    BY <1>1, <2>3
  <2>5. QED
    BY <1>2, <1>4, <2>2, <2>4 DEF Promised!Deny
<1>5. QED
  BY <1>2, <1>3, <1>4, LimiterAssumption

LEMMA TickImplements ==
  ASSUME LimiterTypeOK, Tick
  PROVE  Promised!Refill
<1>1. \A d \in Clients : Refilled(d)' = Promised!Least(Capacity, level[d] + Rate)
  BY TickMoves DEF level, Least, Promised!Least
<1>2. level' = [d \in Clients |-> Promised!Least(Capacity, level[d] + Rate)]
  BY <1>1 DEF level
<1>3. QED
  BY <1>2 DEF Promised!Refill, Tick

(* Lazy refills and hourly deletions cannot be told from buckets that      *)
(* refill steadily and are never deleted, if an hour refills a bucket.     *)
THEOREM LimiterImplementsBucket ==
  ASSUME RefillsWhileIdle
  PROVE  LimiterSpec => ImplementsTokenBucket
<1>1. ASSUME LimiterTypeOK, [LimiterNext]_limiterVars
      PROVE  [Promised!Next]_<<level, answer>>
  <2>1. CASE UNCHANGED limiterVars
    <3>1. level' = level
      BY <2>1 DEF level, Refilled, Known, limiterVars
    <3>2. QED
      BY <2>1, <3>1 DEF limiterVars
  <2>2. CASE LimiterNext
    BY <1>1, <2>2, AllowImplements, TickImplements DEF LimiterNext, Promised!Next
  <2>3. QED
    BY <1>1, <2>1, <2>2
<1>2. QED
  BY <1>1, InitLevel, LimiterTypeCorrect, PTL DEF LimiterSpec, ImplementsTokenBucket, Promised!Spec

-----------------------------------------------------------------------------
(* What a client gets in a stretch of time.                                *)

(* RateBounded says nothing of the bucket, so it is not inductive; what is *)
(* left in the bucket has to be counted as well.                           *)
BudgetKept ==
  /\ LimiterTypeOK
  /\ elapsed \in 0 .. Window
  /\ spent \in [Clients -> Nat]
  /\ \A c \in Clients : spent[c] + Refilled(c) <= Capacity + Rate * elapsed

LEMMA FreshBudget ==
  ASSUME LimiterTypeOK, elapsed = 0, spent = Nothing
  PROVE  BudgetKept
<1>1. \A c \in Clients : Refilled(c) \in 0 .. Capacity
  BY RefilledType
<1>2. Rate * 0 = 0
  BY LimiterAssumption
<1>3. QED
  BY <1>1, <1>2, LimiterAssumption, WindowAssumption DEF BudgetKept, Nothing

LEMMA AllowBudget ==
  ASSUME RefillsWhileIdle, BudgetKept, NEW c \in Clients, CountedAllow(c)
  PROVE  BudgetKept'
<1>1. LimiterTypeOK'
  BY AllowType DEF BudgetKept, CountedAllow
<1>2. spent' \in [Clients -> Nat] /\ elapsed' = elapsed
  BY LimiterAssumption DEF BudgetKept, CountedAllow
<1>3. ASSUME NEW d \in Clients
      PROVE  spent'[d] + Refilled(d)' = spent[d] + Refilled(d)
  <2>1. Refilled(d)' = IF d = c /\ Refilled(c) >= Cost THEN Refilled(c) - Cost ELSE Refilled(d)
    BY AllowMoves DEF BudgetKept, CountedAllow
  <2>2. spent'[d] = IF d = c /\ Refilled(c) >= Cost THEN spent[c] + Cost ELSE spent[d]
    BY DEF BudgetKept, CountedAllow
  <2>3. Refilled(d) \in 0 .. Capacity /\ spent[d] \in Nat
    BY RefilledType DEF BudgetKept
  <2>4. QED
    BY <2>1, <2>2, <2>3, LimiterAssumption
<1>4. QED
  BY <1>1, <1>2, <1>3 DEF BudgetKept

LEMMA TickBudget ==
  ASSUME BudgetKept, CountedTick
  PROVE  BudgetKept'
<1>1. LimiterTypeOK'
  BY TickType DEF BudgetKept, CountedTick
<1>2. spent' = spent /\ elapsed' = elapsed + 1 /\ elapsed' \in 0 .. Window
  BY WindowAssumption DEF BudgetKept, CountedTick
<1>3. ASSUME NEW d \in Clients
      PROVE  spent[d] + Refilled(d)' <= Capacity + Rate * (elapsed + 1)
  <2>1. Refilled(d) \in 0 .. Capacity /\ spent[d] \in Nat /\ elapsed \in Nat
    BY RefilledType, WindowAssumption DEF BudgetKept
  <2>2. Refilled(d)' = Least(Capacity, Refilled(d) + Rate)
    BY TickMoves DEF BudgetKept, CountedTick
  <2>3. Refilled(d)' <= Refilled(d) + Rate /\ Refilled(d)' \in Int
    BY <2>1, <2>2, LimiterAssumption DEF Least
  <2>4. Rate * (elapsed + 1) = Rate * elapsed + Rate /\ Rate * elapsed \in Nat
    <3>1. \A m, n \in Nat : m * (n + 1) = m * n + m /\ m * n \in Nat
      BY SMT
    <3>2. QED
      BY <2>1, <3>1, LimiterAssumption
  <2>5. spent[d] + Refilled(d) <= Capacity + Rate * elapsed
    BY DEF BudgetKept
  <2>6. QED
    BY <2>1, <2>3, <2>4, <2>5, LimiterAssumption
<1>4. QED
  BY <1>1, <1>2, <1>3 DEF BudgetKept

(* In no stretch of time does a client get more than a burst and what the  *)
(* rate yields in that time, if an hour refills a bucket.                  *)
THEOREM RateEnforced ==
  ASSUME RefillsWhileIdle
  PROVE  WindowSpec => []RateBounded
<1>1. WindowInit => BudgetKept
  BY InitType, FreshBudget DEF WindowInit
<1>2. ASSUME BudgetKept, [WindowNext]_windowVars
      PROVE  BudgetKept'
  <2>1. CASE \E c \in Clients : CountedAllow(c)
    BY <1>2, <2>1, AllowBudget
  <2>2. CASE CountedTick
    BY <1>2, <2>2, TickBudget
  <2>3. CASE Restart
    <3>1. UNCHANGED limiterVars /\ elapsed' = 0 /\ spent' = Nothing
      BY <2>3 DEF Restart
    <3>2. LimiterTypeOK'
      BY <1>2, <3>1, LimiterStepType DEF BudgetKept
    <3>3. \A c \in Clients : Refilled(c)' = Refilled(c) /\ Refilled(c) \in 0 .. Capacity
      BY <1>2, <3>1, RefilledType DEF BudgetKept, Refilled, Known, limiterVars
    <3>4. Rate * 0 = 0
      BY LimiterAssumption
    <3>5. QED
      BY <3>1, <3>2, <3>3, <3>4, LimiterAssumption, WindowAssumption DEF BudgetKept, Nothing
  <2>4. CASE UNCHANGED windowVars
    <3>1. UNCHANGED limiterVars /\ elapsed' = elapsed /\ spent' = spent
      BY <2>4 DEF windowVars, limiterVars
    <3>2. LimiterTypeOK'
      BY <1>2, <3>1, LimiterStepType DEF BudgetKept
    <3>3. \A c \in Clients : Refilled(c)' = Refilled(c)
      BY <3>1 DEF Refilled, Known, limiterVars
    <3>4. QED
      BY <1>2, <3>1, <3>2, <3>3 DEF BudgetKept
  <2>5. QED
    BY <1>2, <2>1, <2>2, <2>3, <2>4 DEF WindowNext
<1>3. BudgetKept => RateBounded
  <2>1. ASSUME BudgetKept, NEW c \in Clients
        PROVE  spent[c] <= Capacity + Rate * elapsed
    <3>1. Refilled(c) \in 0 .. Capacity /\ spent[c] \in Nat /\ elapsed \in Nat
      BY <2>1, RefilledType, WindowAssumption DEF BudgetKept
    <3>2. spent[c] + Refilled(c) <= Capacity + Rate * elapsed /\ Rate * elapsed \in Int
      BY <2>1, <3>1, LimiterAssumption DEF BudgetKept
    <3>3. QED
      BY <3>1, <3>2, LimiterAssumption
  <2>2. QED
    BY <2>1 DEF RateBounded
<1>4. QED
  BY <1>1, <1>2, <1>3, PTL DEF WindowSpec
-----------------------------------------------------------------------------
(* The limiter on instants.  Its types are inductive, and under them each  *)
(* of its definitions means what its namesake in Limiter means of the ages.*)

Slot == [tokens : 0 .. Burst, lastSeen : Start .. now]

LEMMA HeldType ==
  ASSUME TimedLimiterTypeOK, NEW d \in Stored
  PROVE  /\ d \in Keys
         /\ held[d].tokens \in Nat /\ held[d].tokens <= Burst
         /\ held[d].lastSeen \in Nat /\ Start <= held[d].lastSeen /\ held[d].lastSeen <= now
<1>1. held[d] \in Slot
  BY DEF TimedLimiterTypeOK, Slot
<1>2. held[d].tokens \in 0 .. Burst /\ held[d].lastSeen \in Start .. now
  BY <1>1 DEF Slot
<1>3. QED
  BY <1>2, TimedAssumption DEF TimedLimiterTypeOK, Start

LEMMA NowType == TimedLimiterTypeOK => now \in Nat /\ now >= Start
  BY TimedAssumption DEF TimedLimiterTypeOK, Start

LEMMA ProductGrows ==
  ASSUME NEW m \in Nat, NEW n \in Nat, NEW r \in Nat \ {0}, m <= n
  PROVE  m * r \in Nat /\ m * r <= n * r /\ m <= m * r
  OBVIOUS

LEMMA FoundType ==
  ASSUME TimedLimiterTypeOK, NEW k \in Keys
  PROVE  Found(k) \in 0 .. Burst
<1>1. CASE k \in Stored
  <2>1. now - held[k].lastSeen \in Nat
    BY <1>1, HeldType, NowType
  <2>2. (now - held[k].lastSeen) * PerTick \in Nat
    BY <2>1, ProductGrows, TimedAssumption
  <2>3. QED
    BY <1>1, <2>2, HeldType, TimedAssumption DEF Found, Capped
<1>2. CASE k \notin Stored
  BY <1>2, TimedAssumption DEF Found
<1>3. QED
  BY <1>1, <1>2

(* Allow: the bucket just stored survives, and so do those not idle.       *)
LEMMA AllowedKeeps ==
  ASSUME TimedLimiterTypeOK, NEW k \in Keys, Allowed(k)
  PROVE  LET kept == {d \in Stored \ {k} : ~(CleanUp /\ now - held[d].lastSeen > Hour)} \cup {k}
             b == [tokens |-> IF Granted(k) THEN Found(k) - Whole ELSE Found(k), lastSeen |-> now]
         IN  held' = [d \in kept |-> IF d = k THEN b ELSE held[d]]
<1> DEFINE kept == {d \in Stored \ {k} : ~(CleanUp /\ now - held[d].lastSeen > Hour)} \cup {k}
           b == [tokens |-> IF Granted(k) THEN Found(k) - Whole ELSE Found(k), lastSeen |-> now]
           survivors == {e \in Stored \cup {k} : ~(CleanUp /\ now - Written(k)[e].lastSeen > Hour)}
<1>1. \A d \in Stored \cup {k} : Written(k)[d] = IF d = k THEN b ELSE held[d]
  BY DEF Written
<1>2. b.lastSeen = now
  OBVIOUS
<1> HIDE DEF b
<1>3. ~(now - Written(k)[k].lastSeen > Hour)
  BY <1>1, <1>2, NowType, TimedAssumption
<1>4. survivors = kept
  BY <1>1, <1>3
<1>5. held' = [d \in survivors |-> Written(k)[d]]
  BY DEF Allowed
<1>6. held' = [d \in kept |-> Written(k)[d]]
  BY <1>4, <1>5
<1>7. \A d \in kept : Written(k)[d] = IF d = k THEN b ELSE held[d]
  BY <1>1
<1>8. held' = [d \in kept |-> IF d = k THEN b ELSE held[d]]
  BY <1>6, <1>7
<1>9. QED
  BY <1>8 DEF b

LEMMA TimedInitType == TimedInit => TimedLimiterTypeOK
  BY TimedAssumption DEF TimedInit, TimedLimiterTypeOK, Stored, Start, Never

LEMMA AllowedType ==
  ASSUME TimedLimiterTypeOK, NEW k \in Keys, Allowed(k)
  PROVE  TimedLimiterTypeOK'
<1> DEFINE kept == {d \in Stored \ {k} : ~(CleanUp /\ now - held[d].lastSeen > Hour)} \cup {k}
           b == [tokens |-> IF Granted(k) THEN Found(k) - Whole ELSE Found(k), lastSeen |-> now]
<1>1. held' = [d \in kept |-> IF d = k THEN b ELSE held[d]]
  BY AllowedKeeps
<1>2. kept \subseteq Keys /\ Stored' = kept
  BY <1>1 DEF Stored, TimedLimiterTypeOK
<1>3. b \in Slot
  <2>1. (IF Granted(k) THEN Found(k) - Whole ELSE Found(k)) \in 0 .. Burst
    BY FoundType, TimedAssumption DEF Granted
  <2>2. now \in Start .. now
    BY NowType DEF Start
  <2>3. QED
    BY <2>1, <2>2 DEF Slot
<1>4. \A d \in kept : d # k => held[d] \in Slot
  BY DEF TimedLimiterTypeOK, Slot
<1> HIDE DEF kept, b
<1>5. held' \in [Stored' -> Slot]
  BY <1>1, <1>2, <1>3, <1>4
<1>6. now' = now /\ lastCleanup' \in Never .. now
  BY NowType DEF Allowed, TimedLimiterTypeOK, Never
<1>7. told' \in [Keys -> {"none", "allowed", "limited"}]
  BY DEF Allowed, TimedLimiterTypeOK
<1>8. QED
  BY <1>2, <1>5, <1>6, <1>7 DEF TimedLimiterTypeOK, Slot

LEMMA PassesType ==
  ASSUME TimedLimiterTypeOK, Passes
  PROVE  TimedLimiterTypeOK'
<1>1. now' = now + 1 /\ now' \in Start .. LastInstant
  BY TimedAssumption DEF Passes, TimedLimiterTypeOK, Start
<1>2. UNCHANGED <<held, lastCleanup, told>>
  BY DEF Passes
<1>3. \A t \in Start .. now : t \in Start .. now'
  BY <1>1, NowType DEF Start
<1>4. held' \in [Stored' -> [tokens : 0 .. Burst, lastSeen : Start .. now']]
  BY <1>2, <1>3 DEF TimedLimiterTypeOK, Stored
<1>5. lastCleanup' \in Never .. now'
  BY <1>1, <1>2, NowType DEF TimedLimiterTypeOK, Never
<1>6. QED
  BY <1>1, <1>2, <1>4, <1>5 DEF TimedLimiterTypeOK, Stored

LEMMA TimedStepType ==
  ASSUME TimedLimiterTypeOK, [TimedNext]_timedVars
  PROVE  TimedLimiterTypeOK'
<1>1. CASE UNCHANGED timedVars
  BY <1>1 DEF timedVars, TimedLimiterTypeOK, Stored
<1>2. QED
  BY <1>1, AllowedType, PassesType DEF TimedNext

(* No bucket was last seen in the future and none holds more than a burst. *)
THEOREM TimedLimiterTypeCorrect == TimedSpec => []TimedLimiterTypeOK
  BY TimedInitType, TimedStepType, PTL DEF TimedSpec
-----------------------------------------------------------------------------
(* The ages.  Limiter stops counting at Oldest, which its assumption on    *)
(* AgeCap allows, and no decision depends on more.                         *)

LEMMA OldestFits ==
  /\ Oldest \in Nat /\ Oldest > Hour + Minute
  /\ Oldest * PerTick >= Burst
<1>1. Oldest \in Nat /\ Oldest > Hour + Minute /\ Burst <= Oldest
  BY TimedAssumption DEF Oldest
<1>2. Oldest <= Oldest * PerTick /\ Oldest * PerTick \in Nat
  BY <1>1, ProductGrows, TimedAssumption
<1>3. QED
  BY <1>1, <1>2, TimedAssumption

LEMMA AgeMeans ==
  ASSUME TimedLimiterTypeOK, NEW d \in Stored
  PROVE  /\ AgeOf(d) \in Nat
         /\ AgeOf(d) > Hour <=> now - held[d].lastSeen > Hour
         /\ AgeOf(d) = IF now - held[d].lastSeen <= Oldest THEN now - held[d].lastSeen ELSE Oldest
  BY HeldType, NowType, OldestFits, TimedAssumption DEF AgeOf

LEMMA SameLevel ==
  ASSUME TimedLimiterTypeOK, NEW k \in Keys
  PROVE  Counted!Refilled(k) = Found(k)
<1>1. Counted!Known = Stored
  BY DEF Counted!Known, aged
<1>2. CASE k \notin Stored
  BY <1>1, <1>2 DEF Counted!Refilled, Found
<1>3. CASE k \in Stored
  <2> DEFINE since == now - held[k].lastSeen
             tokens == held[k].tokens
  <2>1. since \in Nat /\ tokens \in Nat
    BY <1>3, HeldType, NowType
  <2>2. Counted!Refilled(k) = Capped(tokens + AgeOf(k) * PerTick)
    <3>1. AgeOf(k) * PerTick \in Nat
      BY <1>3, AgeMeans, ProductGrows, TimedAssumption
    <3>2. tokens + AgeOf(k) * PerTick \in Nat /\ Burst \in Nat
      BY <2>1, <3>1, TimedAssumption
    <3>3. Counted!Refilled(k) = Counted!Least(Burst, tokens + AgeOf(k) * PerTick)
      BY <1>1, <1>3 DEF Counted!Refilled, aged
    <3> HIDE DEF tokens
    <3>4. QED
      BY <3>2, <3>3 DEF Counted!Least, Capped
  <2>3. Found(k) = Capped(tokens + since * PerTick)
    BY <1>3 DEF Found
  <2>4. AgeOf(k) = IF since <= Oldest THEN since ELSE Oldest
    BY <1>3, AgeMeans
  <2> HIDE DEF since, tokens
  <2>5. CASE since <= Oldest
    BY <2>2, <2>3, <2>4, <2>5
  <2>6. CASE ~(since <= Oldest)
    <3>1. Oldest <= since /\ AgeOf(k) = Oldest
      BY <2>1, <2>4, <2>6, OldestFits
    <3>2. Oldest * PerTick \in Nat /\ Oldest * PerTick <= since * PerTick
      BY <2>1, <3>1, OldestFits, ProductGrows, TimedAssumption
    <3>3. since * PerTick \in Nat
      BY <2>1, ProductGrows, TimedAssumption
    <3> DEFINE x == Oldest * PerTick
               y == since * PerTick
    <3>4. x \in Nat /\ y \in Nat /\ Burst <= x /\ x <= y
      BY <3>2, <3>3, OldestFits
    <3>5. AgeOf(k) * PerTick = x
      BY <3>1
    <3> HIDE DEF x
    <3>6. Capped(tokens + x) = Capped(tokens + y)
      <4> HIDE DEF y
      <4>1. QED
        BY <2>1, <3>4, TimedAssumption DEF Capped
    <3>7. QED
      BY <2>2, <2>3, <3>5, <3>6
  <2>7. QED
    BY <2>5, <2>6
<1>4. QED
  BY <1>2, <1>3

LEMMA SameCleanup ==
  ASSUME TimedLimiterTypeOK
  PROVE  /\ Counted!CleanupDue <=> CleanUp
         /\ ~CleanUp => sinceThen = now - lastCleanup /\ sinceThen \in Nat /\ sinceThen < Minute
<1>1. lastCleanup \in Nat /\ lastCleanup <= now /\ now \in Nat
  BY NowType DEF TimedLimiterTypeOK, Never
<1>2. QED
  BY <1>1, TimedAssumption DEF Counted!CleanupDue, CleanUp, sinceThen

LEMMA SameIdle ==
  ASSUME TimedLimiterTypeOK, NEW d \in Stored
  PROVE  Counted!Idle(d) <=> now - held[d].lastSeen > Hour
<1>1. aged[d].age = AgeOf(d)
  BY DEF aged
<1>2. QED
  BY <1>1, AgeMeans DEF Counted!Idle

LEMMA AllowedCounts ==
  ASSUME TimedLimiterTypeOK, NEW k \in Keys, Allowed(k)
  PROVE  Counted!Allow(k)
<1> DEFINE kept == {d \in Stored \ {k} : ~(CleanUp /\ now - held[d].lastSeen > Hour)} \cup {k}
           left == {d \in Counted!Known \ {k} : ~(Counted!CleanupDue /\ Counted!Idle(d))} \cup {k}
           b == [tokens |-> IF Granted(k) THEN Found(k) - Whole ELSE Found(k), lastSeen |-> now]
<1>1. held' = [d \in kept |-> IF d = k THEN b ELSE held[d]]
  BY AllowedKeeps
<1>2. kept = left
  BY SameIdle, SameCleanup DEF Counted!Known, aged
<1>3. now' = now /\ lastCleanup' = (IF CleanUp THEN now ELSE lastCleanup)
  BY DEF Allowed
<1>4. Stored' = kept
  BY <1>1 DEF Stored
<1>5. aged' = [d \in kept |-> IF d = k THEN Counted!Touched(k) ELSE aged[d]]
  <2>1. aged' = [d \in kept |-> [tokens |-> held'[d].tokens, age |-> AgeOf(d)']]
    BY <1>4 DEF aged
  <2>2. [tokens |-> held'[k].tokens, age |-> AgeOf(k)'] = Counted!Touched(k)
    <3>1. held'[k] = b
      BY <1>1
    <3>2. AgeOf(k)' = 0
      BY <1>3, <3>1, NowType, OldestFits DEF AgeOf
    <3>3. held'[k].tokens = IF Granted(k) THEN Found(k) - Whole ELSE Found(k)
      BY <3>1
    <3>4. QED
      BY <3>2, <3>3, SameLevel DEF Counted!Touched, Granted
  <2>3. ASSUME NEW d \in kept, d # k
        PROVE  [tokens |-> held'[d].tokens, age |-> AgeOf(d)'] = aged[d]
    <3>1. held'[d] = held[d] /\ d \in Stored
      BY <1>1, <2>3
    <3>2. AgeOf(d)' = AgeOf(d)
      BY <1>3, <3>1 DEF AgeOf
    <3>3. QED
      BY <3>1, <3>2 DEF aged
  <2>4. QED
    BY <2>1, <2>2, <2>3
<1>6. sinceThen' = IF Counted!CleanupDue THEN 0 ELSE sinceThen
  <2>1. CASE CleanUp
    <3>1. lastCleanup' = now /\ now # Never
      BY <1>3, <2>1, NowType DEF Start, Never
    <3>2. ~CleanUp' /\ sinceThen' = 0
      BY <1>3, <3>1, NowType, TimedAssumption DEF CleanUp, sinceThen
    <3>3. QED
      BY <2>1, <3>2, SameCleanup
  <2>2. CASE ~CleanUp
    <3>1. UNCHANGED <<now, lastCleanup>>
      BY <1>3, <2>2
    <3>2. sinceThen' = sinceThen
      BY <3>1 DEF sinceThen, CleanUp
    <3>3. QED
      BY <2>2, <3>2, SameCleanup
  <2>3. QED
    BY <2>1, <2>2
<1>7. told' = [told EXCEPT ![k] = IF Counted!Refilled(k) >= Whole THEN "allowed" ELSE "limited"]
  BY SameLevel DEF Allowed, Granted
<1> HIDE DEF b, kept
<1>8. QED
  BY <1>2, <1>5, <1>6, <1>7 DEF Counted!Allow

LEMMA PassesCounts ==
  ASSUME TimedLimiterTypeOK, Passes
  PROVE  Counted!Tick
<1>1. now' = now + 1 /\ UNCHANGED <<held, lastCleanup, told>>
  BY DEF Passes
<1>2. aged' = [d \in Counted!Known |-> [aged[d] EXCEPT !.age = Counted!Least(Oldest, @ + 1)]]
  <2>1. Stored' = Stored /\ Counted!Known = Stored
    BY <1>1 DEF Stored, Counted!Known, aged
  <2>2. aged' = [d \in Stored |-> [tokens |-> held[d].tokens, age |-> AgeOf(d)']]
    BY <1>1, <2>1 DEF aged
  <2>3. ASSUME NEW d \in Stored
        PROVE  AgeOf(d)' = Counted!Least(Oldest, AgeOf(d) + 1)
    <3>1. AgeOf(d)' = IF now + 1 - held[d].lastSeen <= Oldest THEN now + 1 - held[d].lastSeen ELSE Oldest
      BY <1>1, HeldType, NowType DEF AgeOf
    <3>2. QED
      BY <3>1, HeldType, NowType, AgeMeans, OldestFits DEF Counted!Least
  <2>4. ASSUME NEW d \in Stored
        PROVE  [tokens |-> held[d].tokens, age |-> AgeOf(d)']
                 = [aged[d] EXCEPT !.age = Counted!Least(Oldest, @ + 1)]
    <3>1. aged[d] = [tokens |-> held[d].tokens, age |-> AgeOf(d)]
      BY DEF aged
    <3>2. QED
      BY <2>3, <3>1
  <2>5. QED
    BY <2>1, <2>2, <2>4
<1>3. sinceThen' = Counted!Least(Minute, sinceThen + 1)
  <2>1. lastCleanup \in Nat /\ lastCleanup <= now /\ now \in Nat
    BY NowType DEF TimedLimiterTypeOK, Never
  <2>2. CASE CleanUp
    <3>1. CleanUp'
      BY <1>1, <2>1, <2>2, TimedAssumption DEF CleanUp
    <3>2. QED
      BY <2>2, <3>1, TimedAssumption DEF sinceThen, Counted!Least
  <2>3. CASE ~CleanUp
    <3>1. sinceThen = now - lastCleanup /\ lastCleanup # Never /\ now - lastCleanup < Minute
      BY <2>1, <2>3, TimedAssumption DEF CleanUp, sinceThen
    <3>2. sinceThen' = IF now + 1 - lastCleanup >= Minute THEN Minute ELSE now + 1 - lastCleanup
      BY <1>1, <2>1, <3>1, TimedAssumption DEF CleanUp, sinceThen
    <3>3. QED
      BY <2>1, <3>1, <3>2, TimedAssumption DEF Counted!Least
  <2>4. QED
    BY <2>2, <2>3
<1>4. QED
  BY <1>1, <1>2, <1>3 DEF Counted!Tick

(* For every rate, burst and idle limit: the limiter that keeps instants   *)
(* and sweeps its buckets one by one allows and forgets exactly what       *)
(* Limiter says it does, so what is proved of Limiter holds of it.         *)
THEOREM TimedLimiterImplements == TimedSpec => ImplementsLimiter
<1>1. TimedInit => Counted!LimiterInit
  <2>1. ASSUME TimedInit
        PROVE  aged = [c \in {} |-> [tokens |-> 0, age |-> 0]]
    BY <2>1 DEF TimedInit, aged, Stored
  <2>2. TimedInit => sinceThen = Minute
    BY DEF TimedInit, sinceThen, CleanUp
  <2>3. QED
    BY <2>1, <2>2 DEF TimedInit, Counted!LimiterInit
<1>2. TimedLimiterTypeOK /\ [TimedNext]_timedVars => [Counted!LimiterNext]_(Counted!limiterVars)
  <2>1. ASSUME UNCHANGED timedVars
        PROVE  UNCHANGED Counted!limiterVars
    <3>1. UNCHANGED <<held, lastCleanup, now, told>>
      BY <2>1 DEF timedVars
    <3>2. aged' = aged /\ sinceThen' = sinceThen
      BY <3>1 DEF aged, Stored, AgeOf, sinceThen, CleanUp
    <3>3. QED
      BY <3>1, <3>2 DEF Counted!limiterVars
  <2>2. QED
    BY <2>1, AllowedCounts, PassesCounts DEF TimedNext, Counted!LimiterNext
<1>3. QED
  BY <1>1, <1>2, TimedLimiterTypeCorrect, PTL
     DEF TimedSpec, ImplementsLimiter, Counted!LimiterSpec
=============================================================================
