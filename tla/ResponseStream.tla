--------------------------- MODULE ResponseStream ---------------------------
(***************************************************************************)
(* One streamed answer on its way from a worker through the guardian to    *)
(* the benchmark client: the attempt loop and copyStreaming of             *)
(* internal/guardian/proxy.go, the statusRecorder of server.go they write  *)
(* to, and Request of internal/benchmark/client.go, which reads the        *)
(* answer.  Proxy models the same handler among others and with the pool;  *)
(* here it is alone, and what counts is what becomes of the bytes.         *)
(*                                                                         *)
(* A body is a sequence of events: content tokens, one with the token      *)
(* usage, and [DONE].  An event is named by its worker and its number.     *)
(* The handler is at                                                       *)
(*                                                                         *)
(*   choosing   the head of the attempt loop                               *)
(*   reading    in body.Read                                               *)
(*   writing    holding what it has read, about to write it                *)
(*   flushing   about to call controller.Flush                             *)
(*   broken     copyStreaming has returned an error, not reported yet      *)
(*   returned   ServeHTTP has returned                                     *)
(***************************************************************************)
EXTENDS Integers, Sequences, FiniteSets

CONSTANTS Workers, Tokens, Framings

(* The upstream frames a body by its length or in chunks, so that its      *)
(* reader can tell a broken one from a complete one.  No worker is none.   *)
ASSUME StreamAssumption ==
  /\ "none" \notin Workers /\ IsFiniteSet(Workers)
  /\ Tokens \in Nat \ {0}
  /\ Framings \subseteq {"length", "chunked"}

Total == Tokens + 2
Event(w, i) == <<w, i>>
IsToken(e) == e[2] <= Tokens
IsUsage(e) == e[2] = Tokens + 1

VARIABLES
  handler,      \* its place, the workers tried, and the one it reads from
  upstream,     \* of the response being read: state, framing, events sent
  taken,        \* events of it that the handler has read
  held,         \* what the handler has read and not yet written
  buffer,       \* written, but still in the server's write buffer
  delivered,    \* on the way to the client, or there
  message,      \* the response: no header, open, ended as it should, or cut
  framing,      \* how the server frames the response
  context,      \* of the request: live or ended, by deadline or client
  client,       \* Request: its verdict, events seen, what they contained
  charged       \* history: workers this request has reported a failure of

proxyVars == <<handler, taken, held, charged>>
serverVars == <<buffer, delivered, message, framing>>
streamVars == <<proxyVars, serverVars, upstream, context, client>>

None == "none"

StreamInit ==
  /\ handler = [pc |-> "choosing", tried |-> {}, worker |-> None]
  /\ upstream = [state |-> None, framing |-> None, sent |-> 0]
  /\ taken = 0 /\ held = <<>>
  /\ buffer = <<>> /\ delivered = <<>>
  /\ message = None /\ framing = None
  /\ context = "live"
  /\ client = [verdict |-> None, seen |-> 0, token |-> FALSE, usage |-> FALSE]
  /\ charged = {}

At(pc) == handler.pc = pc
Goto(pc) == handler' = [handler EXCEPT !.pc = pc]

-----------------------------------------------------------------------------
(* The attempt loop. *)

(* A transport error or a 5xx: its body is thrown away, the worker charged.*)
AttemptFails(w) ==
  /\ At("choosing") /\ w \notin handler.tried
  /\ handler' = [handler EXCEPT !.tried = @ \cup {w}]
  /\ charged' = charged \cup {w}
  /\ UNCHANGED <<taken, held, serverVars, upstream>>

(* Mutant: Content-Length is not among the headers that are copied.        *)
CopiedFramingDropped(f) == "chunked"

(* copyResponseHeaders: Content-Length goes through, Transfer-Encoding     *)
(* does not.  (net/http would also remove the length of a body that it     *)
(* decompresses unasked, which it does only for a request that came without *)
(* Accept-Encoding: outside this model, whose client sends that header.)   *)
CopiedFraming(f) == f

(* A response below 500 is selected: its headers are committed.            *)
Commit(w) ==
  /\ At("choosing") /\ w \notin handler.tried /\ context = "live"
  /\ handler' = [pc |-> "reading", tried |-> handler.tried \cup {w}, worker |-> w]
  /\ \E f \in Framings :
       /\ upstream' = [state |-> "streaming", framing |-> f, sent |-> 0]
       /\ framing' = CopiedFraming(f)
  /\ message' = "open"
  /\ taken' = 0 /\ held' = <<>>
  /\ UNCHANGED <<charged, buffer, delivered>>

(* The pool offers no other worker, or the attempts are used up.           *)
GiveUp ==
  /\ At("choosing")
  /\ Goto("returned")
  /\ message' = "error"
  /\ UNCHANGED <<taken, held, charged, buffer, delivered, framing, upstream>>

-----------------------------------------------------------------------------
(* copyStreaming. *)

Broken == upstream.state = "broken"

Take(n) ==
  /\ held' = [i \in 1 .. n - taken |-> Event(handler.worker, taken + i)]
  /\ taken' = n
  /\ Goto("writing")
  /\ UNCHANGED <<charged, serverVars, upstream>>

(* body.Read returns some of what has arrived.                             *)
Read == At("reading") /\ \E n \in taken + 1 .. upstream.sent : Take(n)

(* w.Write, by way of the statusRecorder; it fails if the client has left  *)
(* and the server has noticed.                                             *)
Write ==
  /\ At("writing")
  /\ \/ buffer' = buffer \o held /\ held' = <<>> /\ Goto("flushing")
     \/ client.verdict = "gone" /\ Goto("broken") /\ UNCHANGED <<buffer, held>>
  /\ UNCHANGED <<taken, charged, delivered, message, framing, upstream>>

(* Mutant: without statusRecorder.Unwrap the controller finds no Flusher,  *)
(* and its error is ignored.                                               *)
FlushUnsupported ==
  /\ At("flushing")
  /\ Goto("reading")
  /\ UNCHANGED <<buffer, delivered, taken, held, charged, message, framing, upstream>>

Flush ==
  /\ At("flushing")
  /\ delivered' = delivered \o buffer /\ buffer' = <<>>
  /\ Goto("reading")
  /\ UNCHANGED <<taken, held, charged, message, framing, upstream>>

(* Mutant: any error of Read is taken for the end of the body.             *)
ReadEndsAnyhow ==
  /\ At("reading") /\ (Broken \/ upstream.state = "finished") /\ taken = upstream.sent
  /\ Goto("returned")
  /\ UNCHANGED <<taken, held, charged, serverVars, upstream>>

(* io.EOF.                                                                 *)
ReadEnds ==
  /\ At("reading") /\ upstream.state = "finished" /\ taken = upstream.sent
  /\ Goto("returned")
  /\ UNCHANGED <<taken, held, charged, serverVars, upstream>>

(* Any other error: the connection to the worker has broken, or the        *)
(* request's context has ended.                                            *)
ReadFails ==
  /\ At("reading")
  /\ (Broken /\ taken = upstream.sent) \/ context = "ended"
  /\ Goto("broken")
  /\ UNCHANGED <<taken, held, charged, serverVars, upstream>>

(* Mutant: a broken stream is retried like an attempt that failed.         *)
ReportAndRetry ==
  /\ At("broken")
  /\ charged' = charged \cup {handler.worker}
  /\ Goto("choosing")
  /\ UNCHANGED <<taken, held, serverVars, upstream>>

(* ReportFailure, the warning, and return.                                 *)
ReportBreak ==
  /\ At("broken")
  /\ charged' = charged \cup {handler.worker}
  /\ Goto("returned")
  /\ UNCHANGED <<taken, held, serverVars, upstream>>

HandlerStep ==
  /\ \/ \E w \in Workers : AttemptFails(w) \/ Commit(w)
     \/ GiveUp
     \/ Read \/ Write \/ Flush \/ ReadEnds \/ ReadFails \/ ReportBreak
  /\ UNCHANGED <<context, client>>

-----------------------------------------------------------------------------
(* The server of net/http, around the handler. *)

(* The write buffer is full: it goes out unasked.                          *)
Spill ==
  /\ buffer # <<>> /\ message = "open"
  /\ delivered' = delivered \o buffer /\ buffer' = <<>>
  /\ UNCHANGED <<proxyVars, message, framing, upstream, context, client>>

(* The handler has returned: the rest goes out.  Chunks are terminated,    *)
(* whatever they hold; if less than the declared length has been written   *)
(* the connection is closed.                                               *)
FinishRequest ==
  /\ At("returned") /\ message = "open"
  /\ delivered' = delivered \o buffer /\ buffer' = <<>>
  /\ message' = IF framing = "length" /\ Len(delivered') < Total THEN "cut" ELSE "complete"
  /\ UNCHANGED <<proxyVars, framing, upstream, context, client>>

-----------------------------------------------------------------------------
(* The worker, and the end of the request's context.                       *)

Send ==
  /\ upstream.state = "streaming" /\ upstream.sent < Total
  /\ upstream' = [upstream EXCEPT !.sent = @ + 1]

End(state) ==
  /\ upstream.state = "streaming"
  /\ upstream' = [upstream EXCEPT !.state = state]

Finish == upstream.sent = Total /\ End("finished")

(* A body of the declared length is complete, whatever comes after it; one *)
(* in chunks only with the last, empty chunk.                              *)
Break == (upstream.sent < Total \/ upstream.framing = "chunked") /\ End("broken")

WorkerStep ==
  /\ Send \/ Finish \/ Break
  /\ UNCHANGED <<proxyVars, serverVars, context, client>>

DeadlineExpires ==
  /\ context = "live" /\ handler.pc # "returned"
  /\ context' = "ended"
  /\ UNCHANGED <<proxyVars, serverVars, upstream, client>>

-----------------------------------------------------------------------------
(* Request, the benchmark's client. *)

Decide(verdict) == client' = [client EXCEPT !.verdict = verdict]

SeeEvent ==
  /\ client.seen < Len(delivered)
  /\ LET e == delivered[client.seen + 1] IN
       client' = [client EXCEPT !.seen = @ + 1,
                                !.token = @ \/ IsToken(e),
                                !.usage = @ \/ IsUsage(e)]

(* Mutant: a stream without usage counts.                                  *)
AcceptsAnyToken == client.token

Accepts == client.token /\ client.usage

(* The scanner is at the end of a response that ended as it should.  The   *)
(* last event may have been torn where the stream broke; then decoding it  *)
(* fails.                                                                  *)
SeeEnd ==
  /\ client.seen = Len(delivered) /\ message = "complete"
  /\ Decide(IF Accepts THEN "success" ELSE "failure") \/ (Broken /\ Decide("failure"))

(* An error status, or an unexpected end of the connection.                *)
SeeFailure ==
  /\ message = "error" \/ (message = "cut" /\ client.seen = Len(delivered))
  /\ Decide("failure")

ClientReads ==
  /\ client.verdict = None
  /\ SeeEvent \/ SeeEnd \/ SeeFailure
  /\ UNCHANGED <<proxyVars, serverVars, upstream, context>>

(* Its own timeout or an interrupt; the server cancels the context.        *)
ClientLeaves ==
  /\ client.verdict = None
  /\ Decide("gone")
  /\ context' = "ended"
  /\ UNCHANGED <<proxyVars, serverVars, upstream>>

-----------------------------------------------------------------------------

StreamNext ==
  \/ HandlerStep \/ Spill \/ FinishRequest
  \/ WorkerStep \/ DeadlineExpires
  \/ ClientReads \/ ClientLeaves

StreamSafetySpec == StreamInit /\ [][StreamNext]_streamVars

(* The handler and the client run; the worker may stall at any event.      *)
StreamSpec ==
  /\ StreamSafetySpec
  /\ WF_streamVars(HandlerStep)
  /\ WF_streamVars(FinishRequest)
  /\ WF_streamVars(ClientReads)

-----------------------------------------------------------------------------
(* What the handler has promised its one client.                           *)

OutcomeSoFar ==
  IF handler.pc # "returned" THEN "none"
  ELSE IF message = "error" THEN IF handler.tried = {} THEN "unavailable" ELSE "failed"
  ELSE IF handler.worker \in charged THEN "cut" ELSE "whole"

TheExchange ==
  [stage |-> CASE handler.pc = "choosing" -> "open"
               [] handler.pc = "returned" -> "closed"
               [] OTHER -> "committed",
   failed |-> IF handler.pc = "returned" THEN {} ELSE handler.tried \ {handler.worker},
   source |-> IF handler.pc = "returned" THEN None ELSE handler.worker,
   outcome |-> OutcomeSoFar]

exchange == [r \in {"request"} |-> TheExchange]

Promise == INSTANCE Exchange WITH
       Requests <- {"request"}, Workers <- Workers, Nobody <- None,
       MaxAttempts <- Cardinality(Workers), exchange <- exchange

-----------------------------------------------------------------------------
(* Properties.                                                             *)

Script(w) == [i \in 1 .. Total |-> Event(w, i)]
IsPrefixOf(s, t) == Len(s) <= Len(t) /\ \A i \in DOMAIN s : s[i] = t[i]

(* The handler reads no more than was sent, the client sees no more than   *)
(* was delivered, and only workers that were tried are charged.            *)
StreamTypeOK ==
  /\ handler.pc \in {"choosing", "reading", "writing", "flushing", "broken", "returned"}
  /\ handler.tried \subseteq Workers /\ charged \subseteq handler.tried
  /\ handler.worker \in handler.tried \cup {None}
  /\ upstream.state \in {None, "streaming", "finished", "broken"}
  /\ upstream.sent \in 0 .. Total /\ taken \in 0 .. upstream.sent
  /\ upstream.framing \in Framings \cup {None} /\ framing \in Framings \cup {None}
  /\ message \in {None, "open", "complete", "cut", "error"}
  /\ context \in {"live", "ended"}
  /\ client.verdict \in {None, "success", "failure", "gone"}
  /\ client.seen \in 0 .. Len(delivered)

(* docs/SPEC.md:74: never retry after response bytes have reached the      *)
(* client.  Whatever fails and whoever was tried before, the client gets   *)
(* the beginning of the stream of one worker, the one it was told, and     *)
(* nothing twice or out of order.                                          *)
OneWorkersStream ==
  IF handler.worker = None THEN delivered \o buffer \o held = <<>>
  ELSE IsPrefixOf(delivered \o buffer \o held, Script(handler.worker))

(* The handler keeps the promise of Exchange down to its reads and writes: *)
(* they all belong to the response of one worker that had not failed.      *)
ImplementsExchange == Promise!Spec

(* A handler that returns without having charged the worker it committed   *)
(* to has passed on everything.                                            *)
UnchargedMeansWhole ==
  message \in {"complete", "cut"} /\ handler.worker \notin charged =>
    delivered = Script(handler.worker)

(* If the worker declared the length of its answer, one that is cut short  *)
(* never looks complete to the client.                                     *)
TruncationVisible ==
  upstream.framing = "length" /\ message = "complete" =>
    delivered = Script(handler.worker)

(* The benchmark counts no stream as a success that lacks a token or the   *)
(* usage, although it cannot tell from the connection that it is cut.      *)
SuccessMeansWhole ==
  client.verdict = "success" => Len(delivered) > Tokens /\ upstream.sent > Tokens

(* docs/API.md:13: the body is streamed without buffering.  An event that  *)
(* the worker has sent reaches the client, though the worker may send      *)
(* nothing more, ever, unless the stream breaks first.                     *)
EventsArrive ==
  \A n \in 1 .. Total :
    upstream.sent >= n ~> client.seen >= n \/ client.verdict # None
                          \/ context = "ended" \/ Broken

(* docs/ARCHITECTURE.md:35: if a stream breaks after the response has been *)
(* committed, the connection ends.                                         *)
BreakEndsConnection ==
  Broken /\ message = "complete" => delivered = Script(handler.worker)
=============================================================================
