-------------------------- MODULE MCResponseStream --------------------------
(* One streamed answer, for TLC.                                           *)
EXTENDS ResponseStream
=============================================================================
