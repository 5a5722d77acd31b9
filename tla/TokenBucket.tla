----------------------------- MODULE TokenBucket -----------------------------
(***************************************************************************)
(* What the rate limiter promises (docs/ARCHITECTURE.md:6): every client   *)
(* has a token bucket of its own, which starts full, refills at a steady   *)
(* rate and is never forgotten.  A request is allowed exactly when a whole *)
(* token is there for it.                                                  *)
(*                                                                         *)
(* Levels are counted in fractions of a token, so that the rate per tick   *)
(* of the clock is a whole number of them: a token is Cost fractions, a    *)
(* full bucket Capacity.                                                   *)
(***************************************************************************)
EXTENDS Integers

CONSTANTS Clients, Rate, Capacity, Cost

VARIABLES
  level,    \* the fractions in each client's bucket
  answer    \* what each client was told last

Least(a, b) == IF a <= b THEN a ELSE b

Init ==
  /\ level = [c \in Clients |-> Capacity]
  /\ answer = [c \in Clients |-> "none"]

Grant(c) ==
  /\ level[c] >= Cost
  /\ level' = [level EXCEPT ![c] = @ - Cost]
  /\ answer' = [answer EXCEPT ![c] = "allowed"]

Deny(c) ==
  /\ level[c] < Cost
  /\ answer' = [answer EXCEPT ![c] = "limited"]
  /\ UNCHANGED level

Refill ==
  /\ level' = [c \in Clients |-> Least(Capacity, level[c] + Rate)]
  /\ UNCHANGED answer

Next == (\E c \in Clients : Grant(c) \/ Deny(c)) \/ Refill

Spec == Init /\ [][Next]_<<level, answer>>
=============================================================================
