------------------------------ MODULE WorkShare ------------------------------
(***************************************************************************)
(* What both benchmarks make of a fixed number of requests: goroutines     *)
(* share them out.  Each is drawn by one goroutine, which has one at a     *)
(* time, and finished by it, so that every one is either left, busy or     *)
(* done; only a run that has been broken off loses any.                    *)
(***************************************************************************)
EXTENDS Naturals

CONSTANTS Goroutines, Total

VARIABLES
  left,     \* requests that nobody has drawn yet
  busy,     \* the goroutines that have one
  done,     \* requests measured
  broken    \* the run has been broken off

workVars == <<left, busy, done, broken>>

Init ==
  /\ left = Total
  /\ busy = {}
  /\ done = 0
  /\ broken = FALSE

Draw(g) ==
  /\ left > 0 /\ left' = left - 1
  /\ g \notin busy /\ busy' = busy \cup {g}
  /\ UNCHANGED <<done, broken>>

Finish(g) ==
  /\ g \in busy /\ busy' = busy \ {g}
  /\ done' = done + 1
  /\ UNCHANGED <<left, broken>>

(* The goroutine returns without a result; its failure may be what breaks  *)
(* the run off.                                                            *)
Lose(g) ==
  /\ g \in busy /\ busy' = busy \ {g}
  /\ broken' = TRUE
  /\ UNCHANGED <<left, done>>

Break ==
  /\ broken' = TRUE
  /\ UNCHANGED <<left, busy, done>>

Next ==
  \/ \E g \in Goroutines : Draw(g) \/ Finish(g) \/ Lose(g)
  \/ Break

Spec == Init /\ [][Next]_workVars
=============================================================================
