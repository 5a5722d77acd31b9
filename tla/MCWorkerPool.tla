---------------------------- MODULE MCWorkerPool ----------------------------
(* The pool alone, driven by every order of calls, for TLC: a behaviour is *)
(* either one of the pool as the other modules have it, with its history,  *)
(* or one of the fields and the clock of the code, and the variables of    *)
(* the other rest.  And the configuration a pool is made from.             *)
EXTENDS RoundRobin, TimedPool, Sequences

VARIABLE fields    \* is it the fields that move?

PoolsInit == fields \in BOOLEAN /\ ShareInit /\ TimedInit

PoolsNext ==
  /\ UNCHANGED fields
  /\ \/ ~fields /\ ShareNext /\ UNCHANGED timedVars
     \/ fields /\ TimedNext /\ UNCHANGED sharedVars

PoolsSpec == PoolsInit /\ [][PoolsNext]_<<fields, sharedVars, timedVars>>

Conf == INSTANCE Configuration

(* Files with up to two workers that give one setting, which TLC can list. *)
SmallWorkers == [name : [text : {"a", "b", ""}, padded : BOOLEAN], url : {"http", "no host", "malformed"}]
SmallFiles ==
  [text : {"one value", "malformed"}, splits : {TRUE},
   given : UNION {[{s} -> {0, 1}] : s \in Conf!Settings},
   workers : UNION {[1 .. n -> SmallWorkers] : n \in 0 .. 2}]

(* What Load accepts suits NewPool and the rest, and names tell workers    *)
(* apart.  Some file is accepted.                                          *)
ASSUME ConfigurationFits ==
  /\ \A file \in SmallFiles :
       Conf!Loads(file) => Conf!SettingsFit(file) /\ Conf!ReportsFind(file)
  /\ \E file \in SmallFiles : Conf!Loads(file) /\ Len(file.workers) = 2
=============================================================================
