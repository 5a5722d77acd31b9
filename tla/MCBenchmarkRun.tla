---------------------------- MODULE MCBenchmarkRun ----------------------------
(* The load benchmark with a few goroutines, and the summary of what they  *)
(* have measured, as cmd/benchmark makes one after the other.              *)
EXTENDS BenchmarkRun, LatencySummary

ReportInit == BenchInit /\ SummaryInit /\ left = Measured

ReportNext ==
  \/ BenchNext /\ UNCHANGED summaryVars
  \/ stage = "samples" /\ SummaryNext /\ UNCHANGED benchVars

ReportSpec ==
  ReportInit /\ [][ReportNext]_<<benchVars, summaryVars>> /\ BenchFairness
=============================================================================
