---------------------------- MODULE LatencySummary ----------------------------
(***************************************************************************)
(* What the load benchmark says of its samples: Summarize and latencyStats *)
(* of internal/benchmark/stats.go.  One pass over the samples collects the *)
(* times to the first token, the times per output token of the streams     *)
(* that have one, and the durations of the requests; then each list is     *)
(* sorted and its percentiles are taken.                                   *)
(*                                                                         *)
(* The code appends and sorts at the end.  Here a duration is put at its   *)
(* place when it is appended, which leaves the same lists behind.  The     *)
(* counts and the throughput, which are divisions, are left out.           *)
(***************************************************************************)
EXTENDS Percentiles

CONSTANTS
  MaxSamples,   \* bound on the number of samples
  Durations,    \* what a request may take, and its first token
  Tokens        \* what a server may count as completion tokens

ASSUME SummaryAssumption ==
  MaxSamples \in Nat /\ Durations \subseteq Nat /\ Tokens \subseteq Nat

(* The first token comes before the end, and Request refuses a stream      *)
(* without a token or without a count (client.go).  A slot that was never  *)
(* measured is a sample of zeros.                                          *)
Samples ==
  {s \in [TTFT : Durations, E2E : Durations, CompletionTokens : Tokens] : s.TTFT <= s.E2E}

Quantiles == {50, 95, 99}

VARIABLES
  left,             \* samples the pass has still to visit
  ttft, tpot, e2e,  \* the lists
  written,          \* is the summary complete?
  summary           \* its percentiles, in hundredths
summaryVars == <<left, ttft, tpot, e2e, written, summary>>

SummaryInit ==
  /\ left \in 0 .. MaxSamples
  /\ ttft = <<>> /\ tpot = <<>> /\ e2e = <<>>
  /\ written = FALSE
  /\ summary = [list \in {"TTFT", "TPOT", "E2E"} |-> [q \in Quantiles |-> 0]]

(* The places of a sorted list where a duration may go, and the list with  *)
(* the duration at one of them.                                            *)
Fits(values, duration) ==
  {p \in 1 .. Len(values) + 1 :
     /\ \A i \in 1 .. p - 1 : values[i] <= duration
     /\ \A i \in p .. Len(values) : duration <= values[i]}

Inserted(values, p, duration) ==
  [i \in 1 .. Len(values) + 1 |->
     CASE i < p -> values[i] [] i = p -> duration [] i > p -> values[i - 1]]

Appended(values, duration) ==
  {Inserted(values, p, duration) : p \in Fits(values, duration)}

(* One turn of the loop.  A stream of one token, or whose first token came *)
(* with its end, says nothing of the time per token.                       *)
HasTokenTime(sample) == sample.CompletionTokens > 1 /\ sample.E2E > sample.TTFT

TokenTime(sample) == (sample.E2E - sample.TTFT) \div (sample.CompletionTokens - 1)

Visit(sample) ==
  /\ left > 0
  /\ left' = left - 1
  /\ ttft' \in Appended(ttft, sample.TTFT)
  /\ e2e' \in Appended(e2e, sample.E2E)
  /\ tpot' \in IF HasTokenTime(sample) THEN Appended(tpot, TokenTime(sample)) ELSE {tpot}
  /\ UNCHANGED <<written, summary>>

(* latencyStats: no durations, no percentiles.                             *)
LatencyStats(values) ==
  [q \in Quantiles |-> IF values = <<>> THEN 0 ELSE Percentile(values, q)]

Summarize ==
  /\ left = 0 /\ ~written
  /\ written' = TRUE
  /\ summary' = [list \in {"TTFT", "TPOT", "E2E"} |->
                   LatencyStats(CASE list = "TTFT" -> ttft
                                  [] list = "TPOT" -> tpot
                                  [] list = "E2E" -> e2e)]
  /\ UNCHANGED <<left, ttft, tpot, e2e>>

SummaryNext == (\E sample \in Samples : Visit(sample)) \/ Summarize

SummarySpec == SummaryInit /\ [][SummaryNext]_summaryVars

-----------------------------------------------------------------------------
InOrder(values) == values = <<>> \/ Sorted(values)

(* Type invariant: the lists are in order, and every sample has a time to  *)
(* its first token and a duration.                                         *)
SummaryTypeOK ==
  /\ left \in 0 .. MaxSamples /\ written \in BOOLEAN
  /\ \A values \in {ttft, tpot, e2e} : InOrder(values)
  /\ Len(ttft) = Len(e2e) /\ Len(tpot) <= Len(e2e)
  /\ summary \in [{"TTFT", "TPOT", "E2E"} -> [Quantiles -> Nat]]

(* Whatever the number of samples, and of those that have a time per       *)
(* token, both neighbours that percentileMilliseconds reads exist, and the *)
(* percentile lies between them: a run that measured everything does not   *)
(* panic on its last line.                                                 *)
NeighboursInside ==
  \A values \in {ttft, tpot, e2e} : \A q \in Quantiles :
    values # <<>> => BetweenNeighbours(values, q)

(* P50 <= P95 <= P99 in each part of the summary.                          *)
SummaryOrdered ==
  \A list \in {"TTFT", "TPOT", "E2E"} : \A q, r \in Quantiles :
    q <= r => summary[list][q] <= summary[list][r]

(* No percentile of the time to the first token is above the same          *)
(* percentile of the duration, although the two lists are sorted apart and *)
(* their percentiles may come from different requests.                     *)
FirstTokenFirst ==
  \A q \in Quantiles : summary["TTFT"][q] <= summary["E2E"][q]

=============================================================================
