---------------------------- MODULE TimedLimiter ----------------------------
(***************************************************************************)
(* The rate limiter on the fields it really keeps: Allow of                *)
(* internal/guardian/limiter.go with the instants lastSeen and lastCleanup *)
(* and the clock, and with the order in which it stores a bucket, looks    *)
(* through all of them, the one just stored included, and deletes some.    *)
(*                                                                         *)
(* Limiter has ages up to a bound instead and decides at once what is      *)
(* kept.  This module implements it, so nothing is lost by either.  As     *)
(* there, tokens are counted in whole fractions, and the disabled limiter  *)
(* is left out.                                                            *)
(***************************************************************************)
EXTENDS Integers

CONSTANTS
  Keys,          \* host parts of remote addresses
  PerTick,       \* l.rate, in fractions of a token per tick
  Burst,         \* l.burst, in fractions of a token
  Whole,         \* the fractions of one token
  Hour,          \* time.Hour, in ticks
  Minute,        \* time.Minute, in ticks
  LastInstant    \* bound of this model: the clock stops here

(* As for Limiter. *)
ASSUME TimedAssumption ==
  /\ PerTick \in Nat \ {0}
  /\ Whole \in Nat \ {0}
  /\ Burst \in Nat /\ Burst >= Whole
  /\ Hour \in Nat /\ Minute \in Nat \ {0}
  /\ LastInstant \in Nat \ {0}

Never == 0     \* time.Time{}, the first lastCleanup
Start == 1     \* some instant after it

VARIABLES
  held,          \* l.buckets
  lastCleanup,   \* l.lastCleanup
  now,           \* what l.now() returns
  told           \* history: the last result of Allow for each key

timedVars == <<held, lastCleanup, now, told>>

Stored == DOMAIN held

TimedInit ==
  /\ held = [k \in {} |-> [tokens |-> 0, lastSeen |-> Start]]
  /\ lastCleanup = Never
  /\ now = Start
  /\ told = [k \in Keys |-> "none"]

-----------------------------------------------------------------------------
(* Allow. *)

Capped(tokens) == IF tokens <= Burst THEN tokens ELSE Burst

(* b.tokens when it is compared with 1. *)
Found(k) ==
  IF k \in Stored THEN Capped(held[k].tokens + (now - held[k].lastSeen) * PerTick) ELSE Burst

Granted(k) == Found(k) >= Whole

(* l.buckets when the cleanup begins. *)
Written(k) ==
  LET b == [tokens |-> IF Granted(k) THEN Found(k) - Whole ELSE Found(k), lastSeen |-> now]
  IN [d \in Stored \cup {k} |-> IF d = k THEN b ELSE held[d]]

(* Mutant: a cleanup waits for more than a minute.                         *)
CleanUpLate == lastCleanup = Never \/ now - lastCleanup > Minute

CleanUp == lastCleanup = Never \/ now - lastCleanup >= Minute

Allowed(k) ==
  /\ held' = [d \in {e \in Stored \cup {k} : ~(CleanUp /\ now - Written(k)[e].lastSeen > Hour)}
                |-> Written(k)[d]]
  /\ lastCleanup' = IF CleanUp THEN now ELSE lastCleanup
  /\ told' = [told EXCEPT ![k] = IF Granted(k) THEN "allowed" ELSE "limited"]
  /\ UNCHANGED now

Passes ==
  /\ now < LastInstant
  /\ now' = now + 1
  /\ UNCHANGED <<held, lastCleanup, told>>

TimedNext == (\E k \in Keys : Allowed(k)) \/ Passes

TimedSpec == TimedInit /\ [][TimedNext]_timedVars

-----------------------------------------------------------------------------
(* Properties.                                                             *)

(* Buckets hold what they may hold, and no instant kept is still to come.  *)
TimedLimiterTypeOK ==
  /\ now \in Start .. LastInstant
  /\ Stored \subseteq Keys
  /\ held \in [Stored -> [tokens : 0 .. Burst, lastSeen : Start .. now]]
  /\ lastCleanup \in Never .. now
  /\ told \in [Keys -> {"none", "allowed", "limited"}]

(* An age beyond this is as good as any greater one: the bucket is due for *)
(* deletion and would be refilled to the brim.                             *)
Oldest == Hour + Minute + Burst

AgeOf(k) == IF now - held[k].lastSeen <= Oldest THEN now - held[k].lastSeen ELSE Oldest

aged == [k \in Stored |-> [tokens |-> held[k].tokens, age |-> AgeOf(k)]]

sinceThen == IF CleanUp THEN Minute ELSE now - lastCleanup

Counted == INSTANCE Limiter WITH
  Clients <- Keys, Rate <- PerTick, Capacity <- Burst, Cost <- Whole,
  IdleLimit <- Hour, CleanupEvery <- Minute, AgeCap <- Oldest,
  buckets <- aged, sinceCleanup <- sinceThen, answer <- told

(* What Limiter says with ages it stops counting, the code does with       *)
(* instants: the same requests are allowed, the same buckets kept.         *)
ImplementsLimiter == Counted!LimiterSpec
=============================================================================
