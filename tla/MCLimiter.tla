------------------------------ MODULE MCLimiter ------------------------------
(* The rate limiter with two clients, for TLC: a behaviour is either one   *)
(* of the limiter with ages and any stretch of time, or one of the fields  *)
(* and the clock of the code, and the variables of the other rest.         *)
EXTENDS RateWindow, TimedLimiter

VARIABLE fields    \* is it the fields that move?

LimitersInit == fields \in BOOLEAN /\ WindowInit /\ TimedInit

LimitersNext ==
  /\ UNCHANGED fields
  /\ \/ ~fields /\ WindowNext /\ UNCHANGED timedVars
     \/ fields /\ TimedNext /\ UNCHANGED windowVars

LimitersSpec == LimitersInit /\ [][LimitersNext]_<<fields, windowVars, timedVars>>
=============================================================================
