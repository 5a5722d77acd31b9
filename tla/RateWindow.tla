------------------------------ MODULE RateWindow ------------------------------
(***************************************************************************)
(* What a client can get out of the limiter in any stretch of time, for    *)
(* which the module counts the tokens granted since a moment that Restart  *)
(* chooses anew at any time.                                               *)
(***************************************************************************)
EXTENDS Limiter

CONSTANT Window   \* bound: the longest stretch that is looked at, in ticks

ASSUME WindowAssumption == Window \in Nat

VARIABLES
  elapsed,   \* history: time since the stretch began
  spent      \* history: fractions of tokens granted to each client in it

windowVars == <<buckets, sinceCleanup, answer, elapsed, spent>>

Nothing == [c \in Clients |-> 0]

WindowInit == LimiterInit /\ elapsed = 0 /\ spent = Nothing

Restart ==
  /\ elapsed' = 0
  /\ spent' = Nothing
  /\ UNCHANGED limiterVars

CountedAllow(c) ==
  /\ Allow(c)
  /\ spent' = [spent EXCEPT ![c] = IF Refilled(c) >= Cost THEN @ + Cost ELSE @]
  /\ UNCHANGED elapsed

CountedTick ==
  /\ elapsed < Window
  /\ Tick
  /\ elapsed' = elapsed + 1
  /\ UNCHANGED spent

WindowNext == (\E c \in Clients : CountedAllow(c)) \/ CountedTick \/ Restart

WindowSpec == WindowInit /\ [][WindowNext]_windowVars

-----------------------------------------------------------------------------
(* Properties.                                                             *)

(* docs/SPEC.md:89, per-client limits: in no stretch of time does a client *)
(* get more than a burst and what the rate yields in that time, however it *)
(* spreads its requests and whatever becomes of its bucket meanwhile.      *)
RateBounded == \A c \in Clients : spent[c] <= Capacity + Rate * elapsed
=============================================================================
