----------------------------- MODULE MCGuardian -----------------------------
(* The whole guardian, for TLC.                                            *)
EXTENDS Guardian, TLC

(* Handlers are interchangeable; sound in runs without liveness only.      *)
HandlerSymmetry == Permutations(Requests)
=============================================================================
