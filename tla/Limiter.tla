------------------------------- MODULE Limiter -------------------------------
(***************************************************************************)
(* The rate limiter: internal/guardian/limiter.go.                         *)
(*                                                                         *)
(* Allow takes the limiter's lock, so a call is one action.  A bucket is   *)
(* refilled only when its client calls, from the time since it called      *)
(* last; a client without a bucket gets a full one; and once a minute the  *)
(* call that happens to come in deletes the buckets idle for over an hour. *)
(* The instants lastSeen and lastCleanup are kept as the time since then.  *)
(* The code's floating-point tokens are whole fractions here, so their     *)
(* rounding is left out.                                                   *)
(*                                                                         *)
(* A limiter with rate 0 is disabled: Allow returns true and touches       *)
(* nothing.  That case is left out.                                        *)
(***************************************************************************)
EXTENDS Integers

CONSTANTS
  Clients,       \* the keys: host parts of remote addresses
  Rate,          \* l.rate, in fractions of a token per tick
  Capacity,      \* l.burst, in fractions of a token
  Cost,          \* the fractions of one token
  IdleLimit,     \* time.Hour, in ticks
  CleanupEvery,  \* time.Minute, in ticks
  AgeCap         \* bound: the age of a bucket is counted up to here

(* config.Load enforces a positive burst.  From AgeCap on a bucket is due  *)
(* for deletion and would be refilled to the brim, so counting on would    *)
(* change nothing.                                                         *)
ASSUME LimiterAssumption ==
  /\ Rate \in Nat \ {0}
  /\ Cost \in Nat \ {0}
  /\ Capacity \in Nat /\ Capacity >= Cost
  /\ IdleLimit \in Nat /\ CleanupEvery \in Nat \ {0}
  /\ AgeCap \in Nat /\ AgeCap > IdleLimit + CleanupEvery
  /\ AgeCap * Rate >= Capacity

VARIABLES
  buckets,       \* l.buckets: client -> tokens and time since lastSeen
  sinceCleanup,  \* time since lastCleanup, up to CleanupEvery
  answer         \* history: the last result of Allow for each client

limiterVars == <<buckets, sinceCleanup, answer>>

Known == DOMAIN buckets

Least(a, b) == IF a <= b THEN a ELSE b

(* The zero lastCleanup makes the first call clean up.                     *)
LimiterInit ==
  /\ buckets = [c \in {} |-> [tokens |-> 0, age |-> 0]]
  /\ sinceCleanup = CleanupEvery
  /\ answer = [c \in Clients |-> "none"]

-----------------------------------------------------------------------------
(* b.tokens when Allow(c) compares it with 1.                              *)
Refilled(c) ==
  IF c \in Known
  THEN Least(Capacity, buckets[c].tokens + buckets[c].age * Rate)
  ELSE Capacity

(* Mutant: a denied request does not move lastSeen.                        *)
TouchedIfAllowed(c) ==
  IF Refilled(c) >= Cost
  THEN [tokens |-> Refilled(c) - Cost, age |-> 0]
  ELSE [tokens |-> Refilled(c), age |-> IF c \in Known THEN buckets[c].age ELSE 0]

(* The bucket Allow(c) stores.                                             *)
Touched(c) ==
  [tokens |-> IF Refilled(c) >= Cost THEN Refilled(c) - Cost ELSE Refilled(c),
   age |-> 0]

(* Mutants: buckets go after a minute, or never.                           *)
IdleAMinute(d) == buckets[d].age > CleanupEvery
IdleNever(d) == FALSE

Idle(d) == buckets[d].age > IdleLimit

CleanupDue == sinceCleanup >= CleanupEvery

(* The bucket stored a moment ago is never idle.                           *)
Allow(c) ==
  LET kept == {d \in Known \ {c} : ~(CleanupDue /\ Idle(d))} \cup {c}
  IN  /\ buckets' = [d \in kept |-> IF d = c THEN Touched(c) ELSE buckets[d]]
      /\ sinceCleanup' = IF CleanupDue THEN 0 ELSE sinceCleanup
      /\ answer' = [answer EXCEPT ![c] = IF Refilled(c) >= Cost THEN "allowed" ELSE "limited"]

Tick ==
  /\ buckets' = [d \in Known |-> [buckets[d] EXCEPT !.age = Least(AgeCap, @ + 1)]]
  /\ sinceCleanup' = Least(CleanupEvery, sinceCleanup + 1)
  /\ UNCHANGED answer

LimiterNext == (\E c \in Clients : Allow(c)) \/ Tick

LimiterSpec == LimiterInit /\ [][LimiterNext]_limiterVars

-----------------------------------------------------------------------------
(* Properties.                                                             *)

(* Every stored bucket belongs to a client and holds what it may hold.     *)
LimiterTypeOK ==
  /\ Known \subseteq Clients
  /\ buckets \in [Known -> [tokens : 0 .. Capacity, age : 0 .. AgeCap]]
  /\ sinceCleanup \in 0 .. CleanupEvery
  /\ answer \in [Clients -> {"none", "allowed", "limited"}]

(* Clients that are gone leave nothing behind for long: as long as anybody *)
(* calls, no bucket is kept for more than an hour and a minute.            *)
IdleBucketsDropped ==
  ~CleanupDue => \A d \in Known : buckets[d].age <= IdleLimit + sinceCleanup

(* An hour refills an empty bucket.  Only then is a deleted bucket, which  *)
(* comes back full, one that was full.  The configuration does not enforce *)
(* it.                                                                     *)
RefillsWhileIdle == IdleLimit * Rate >= Capacity

level == [c \in Clients |-> Refilled(c)]

Promised == INSTANCE TokenBucket
  WITH Clients <- Clients, Rate <- Rate, Capacity <- Capacity, Cost <- Cost,
       level <- level, answer <- answer

(* Lazy refills and deletions cannot be told from a bucket per client that *)
(* refills steadily and is never deleted, if RefillsWhileIdle.             *)
ImplementsTokenBucket == Promised!Spec
=============================================================================
