------------------------ MODULE ResponseStreamProofs ------------------------
(***************************************************************************)
(* Proofs about one streamed answer, for any workers, any length of the    *)
(* stream and any framing, whatever fails and however the handler, the     *)
(* server, the worker and the client interleave.                           *)
(*                                                                         *)
(* The properties follow from where every event is: in the client's hands, *)
(* in the write buffer, or held by the handler, in this order and without  *)
(* a gap (Flow); from what the handler's place says of the response        *)
(* (Stages); and from the client's flags, which lag what it has seen       *)
(* (ClientKnows).                                                          *)
(***************************************************************************)
EXTENDS ResponseStream, TLAPS, SequenceTheorems, FiniteSetTheorems

Places == {"choosing", "reading", "writing", "flushing", "broken", "returned"}
Committed == {"open", "complete", "cut"}
Events == Workers \X (1 .. Total)

Records ==
  /\ handler \in [pc : Places, tried : SUBSET Workers, worker : Workers \cup {None}]
  /\ upstream \in [state : {None, "streaming", "finished", "broken"},
                   framing : Framings \cup {None}, sent : 0 .. Total]
  /\ client \in [verdict : {None, "success", "failure", "gone"}, seen : Nat,
                 token : BOOLEAN, usage : BOOLEAN]
  /\ charged \subseteq handler.tried
  /\ handler.worker \in handler.tried \cup {None}
  /\ taken \in 0 .. upstream.sent
  /\ framing \in Framings \cup {None}
  /\ message \in {None, "open", "complete", "cut", "error"}
  /\ context \in {"live", "ended"}

Flow ==
  /\ delivered \in Seq(Events) /\ buffer \in Seq(Events) /\ held \in Seq(Events)
  /\ Len(delivered) + Len(buffer) + Len(held) = taken
  /\ \A i \in 1 .. Len(delivered) : delivered[i] = Event(handler.worker, i)
  /\ \A i \in 1 .. Len(buffer) : buffer[i] = Event(handler.worker, Len(delivered) + i)
  /\ \A i \in 1 .. Len(held) :
       held[i] = Event(handler.worker, Len(delivered) + Len(buffer) + i)

Stages ==
  /\ handler.pc = "choosing" => handler.worker = None /\ message = None
  /\ handler.pc \in {"reading", "writing", "flushing", "broken"} => message = "open"
  /\ handler.pc \in {"reading", "flushing"} => held = <<>>
  /\ message \in Committed => handler.worker \in Workers /\ framing = upstream.framing
  /\ handler.worker = None => taken = 0
  /\ message \in {"complete", "cut"} => handler.pc = "returned" /\ buffer = <<>>
  /\ handler.pc = "returned" /\ message \in Committed /\ handler.worker \notin charged =>
       held = <<>> /\ taken = Total
  /\ message = "complete" /\ framing = "length" => Len(delivered) >= Total
  /\ upstream.state = "finished" => upstream.sent = Total

ClientKnows ==
  /\ client.seen <= Len(delivered)
  /\ client.usage => client.seen > Tokens
  /\ client.verdict = "success" => client.usage

StreamInv == Records /\ Flow /\ Stages /\ ClientKnows

-----------------------------------------------------------------------------
(* Numbers and sequences.                                                  *)

LEMMA TotalIsNat == Total \in Nat /\ Tokens \in Nat /\ Total = Tokens + 2
  BY StreamAssumption DEF Total

LEMMA ConcatIs ==
  ASSUME NEW S, NEW s \in Seq(S), NEW t \in Seq(S)
  PROVE  /\ s \o t \in Seq(S)
         /\ Len(s \o t) = Len(s) + Len(t)
         /\ \A i \in 1 .. Len(s) : (s \o t)[i] = s[i]
         /\ \A i \in 1 .. Len(t) : (s \o t)[Len(s) + i] = t[i]
  BY ConcatProperties, LenProperties

(* The rest of one part of the flow, put behind another one, continues it. *)
LEMMA FlowOn ==
  ASSUME NEW S, NEW w, NEW n \in Nat, NEW s \in Seq(S), NEW t \in Seq(S),
         \A i \in 1 .. Len(s) : s[i] = Event(w, n + i),
         \A i \in 1 .. Len(t) : t[i] = Event(w, n + Len(s) + i)
  PROVE  \A i \in 1 .. Len(s) + Len(t) : (s \o t)[i] = Event(w, n + i)
<1> TAKE i \in 1 .. Len(s) + Len(t)
<1>1. Len(s) \in Nat /\ Len(t) \in Nat
  BY LenProperties
<1>2. CASE i <= Len(s)
  BY <1>1, <1>2, ConcatIs
<1>3. CASE i > Len(s)
  <2>1. i - Len(s) \in 1 .. Len(t) /\ Len(s) + (i - Len(s)) = i
    BY <1>1, <1>3
  <2>2. (s \o t)[i] = t[i - Len(s)]
    BY <2>1, ConcatIs
  <2>3. n + Len(s) + (i - Len(s)) = n + i
    BY <1>1
  <2>4. QED
    BY <2>1, <2>2, <2>3
<1>4. QED
  BY <1>1, <1>2, <1>3

-----------------------------------------------------------------------------
(* What the records are after a step.                                      *)

LEMMA GotoIs ==
  ASSUME Records, NEW p \in Places, Goto(p)
  PROVE  /\ handler' \in [pc : Places, tried : SUBSET Workers, worker : Workers \cup {None}]
         /\ handler'.pc = p
         /\ handler'.tried = handler.tried
         /\ handler'.worker = handler.worker
  BY DEF Records, Goto

LEMMA DecideIs ==
  ASSUME Records, NEW v \in {None, "success", "failure", "gone"}, Decide(v)
  PROVE  /\ client' \in [verdict : {None, "success", "failure", "gone"}, seen : Nat,
                          token : BOOLEAN, usage : BOOLEAN]
         /\ client'.verdict = v
         /\ client'.seen = client.seen
         /\ client'.usage = client.usage
  BY DEF Records, Decide

LEMMA EndIs ==
  ASSUME Records, NEW state \in {"finished", "broken"}, End(state)
  PROVE  /\ upstream' \in [state : {None, "streaming", "finished", "broken"},
                            framing : Framings \cup {None}, sent : 0 .. Total]
         /\ upstream'.state = state
         /\ upstream'.framing = upstream.framing
         /\ upstream'.sent = upstream.sent
  BY DEF Records, End

-----------------------------------------------------------------------------
(* One lemma per step.                                                     *)

LEMMA InitKeeps == StreamInit => StreamInv
<1> SUFFICES ASSUME StreamInit PROVE StreamInv
  OBVIOUS
<1>1. Records
  BY TotalIsNat DEF StreamInit, Records, Places
<1>2. Flow
  BY DEF StreamInit, Flow
<1>3. Stages
  BY DEF StreamInit, Stages, Committed, None
<1>4. ClientKnows
  BY DEF StreamInit, ClientKnows, None
<1>5. QED
  BY <1>1, <1>2, <1>3, <1>4 DEF StreamInv

LEMMA AttemptFailsKeeps ==
  ASSUME StreamInv, NEW w \in Workers, AttemptFails(w), UNCHANGED <<context, client>>
  PROVE  StreamInv'
<1>1. /\ handler' = [handler EXCEPT !.tried = @ \cup {w}]
      /\ charged' = charged \cup {w}
      /\ handler.pc = "choosing"
      /\ UNCHANGED <<taken, held, buffer, delivered, message, framing, upstream, context, client>>
  BY DEF AttemptFails, At, serverVars
<1>2. /\ handler' \in [pc : Places, tried : SUBSET Workers, worker : Workers \cup {None}]
      /\ handler'.pc = handler.pc
      /\ handler'.tried = handler.tried \cup {w}
      /\ handler'.worker = handler.worker
  BY <1>1 DEF StreamInv, Records
<1>3. Records'
  BY <1>1, <1>2 DEF StreamInv, Records
<1>4. Flow'
  BY <1>1, <1>2 DEF StreamInv, Flow
<1>5. Stages'
  BY <1>1, <1>2 DEF StreamInv, Stages
<1>6. ClientKnows'
  BY <1>1 DEF StreamInv, ClientKnows
<1>7. QED
  BY <1>3, <1>4, <1>5, <1>6 DEF StreamInv

(* Nothing is under way before a response is committed.                    *)
LEMMA CommitKeeps ==
  ASSUME StreamInv, NEW w \in Workers, Commit(w), UNCHANGED <<context, client>>
  PROVE  StreamInv'
<1>1. PICK f \in Framings :
        /\ upstream' = [state |-> "streaming", framing |-> f, sent |-> 0]
        /\ framing' = f
  BY DEF Commit, CopiedFraming
<1>2. /\ handler' = [pc |-> "reading", tried |-> handler.tried \cup {w}, worker |-> w]
      /\ handler.pc = "choosing"
      /\ message' = "open" /\ taken' = 0 /\ held' = <<>>
      /\ UNCHANGED <<charged, buffer, delivered, context, client>>
  BY DEF Commit, At
<1>3. Records'
  BY <1>1, <1>2, TotalIsNat DEF StreamInv, Records, Places
<1>4. Flow'
  <2>1. taken = 0
    BY <1>2 DEF StreamInv, Stages
  <2>2. Len(delivered) = 0 /\ Len(buffer) = 0
    BY <2>1 DEF StreamInv, Flow
  <2>3. QED
    BY <1>2, <2>2 DEF StreamInv, Flow
<1>5. Stages'
  <2>1. w # None
    BY StreamAssumption DEF None
  <2>2. QED
    BY <1>1, <1>2, <2>1 DEF Stages, Committed
<1>6. ClientKnows'
  BY <1>2 DEF StreamInv, ClientKnows
<1>7. QED
  BY <1>3, <1>4, <1>5, <1>6 DEF StreamInv

LEMMA GiveUpKeeps ==
  ASSUME StreamInv, GiveUp, UNCHANGED <<context, client>>
  PROVE  StreamInv'
<1>1. /\ handler.pc = "choosing" /\ Goto("returned") /\ message' = "error"
      /\ UNCHANGED <<taken, held, charged, buffer, delivered, framing, upstream, context, client>>
  BY DEF GiveUp, At
<1>2. /\ handler' \in [pc : Places, tried : SUBSET Workers, worker : Workers \cup {None}]
      /\ handler'.pc = "returned"
      /\ handler'.tried = handler.tried
      /\ handler'.worker = handler.worker
  BY <1>1, GotoIs DEF StreamInv, Places
<1>3. Records'
  BY <1>1, <1>2 DEF StreamInv, Records
<1>4. Flow'
  BY <1>1, <1>2 DEF StreamInv, Flow
<1>5. Stages'
  BY <1>1, <1>2 DEF StreamInv, Stages, Committed
<1>6. ClientKnows'
  BY <1>1 DEF StreamInv, ClientKnows
<1>7. QED
  BY <1>3, <1>4, <1>5, <1>6 DEF StreamInv

(* What is read continues what has been passed on: nothing was held.       *)
LEMMA ReadKeeps ==
  ASSUME StreamInv, Read, UNCHANGED <<context, client>>
  PROVE  StreamInv'
<1>1. PICK n \in taken + 1 .. upstream.sent : Take(n)
  BY DEF Read
<1>2. /\ held' = [i \in 1 .. n - taken |-> Event(handler.worker, taken + i)]
      /\ taken' = n /\ Goto("writing") /\ handler.pc = "reading"
      /\ UNCHANGED <<charged, buffer, delivered, message, framing, upstream, context, client>>
  BY <1>1 DEF Read, Take, At, serverVars
<1>3. /\ handler' \in [pc : Places, tried : SUBSET Workers, worker : Workers \cup {None}]
      /\ handler'.pc = "writing"
      /\ handler'.tried = handler.tried
      /\ handler'.worker = handler.worker
  BY <1>2, GotoIs DEF StreamInv, Places
<1>4. message = "open" /\ held = <<>> /\ handler.worker \in Workers
  BY <1>2 DEF StreamInv, Stages, Committed
<1>5. /\ taken \in Nat /\ upstream.sent \in 0 .. Total /\ taken < n /\ n <= upstream.sent
      /\ n \in Nat
  BY <1>1, TotalIsNat DEF StreamInv, Records
<1>6. Records'
  BY <1>2, <1>3, <1>5 DEF StreamInv, Records
<1>7. Flow'
  <2>1. /\ Len(delivered) \in Nat /\ Len(buffer) \in Nat
        /\ Len(delivered) + Len(buffer) = taken
    BY <1>4 DEF StreamInv, Flow
  <2>2. n - taken \in Nat
    BY <1>5
  <2>3. \A i \in 1 .. n - taken : Event(handler.worker, taken + i) \in Events
    BY <1>4, <1>5, TotalIsNat DEF Event, Events
  <2>4. held' \in Seq(Events) /\ Len(held') = n - taken
    BY <1>2, <2>2, <2>3
  <2>5. \A i \in 1 .. Len(held') : held'[i] = Event(handler.worker, taken + i)
    BY <1>2, <2>4
  <2>6. Len(delivered) + Len(buffer) + Len(held') = n
    BY <1>5, <2>1, <2>4
  <2>7. QED
    BY <1>2, <1>3, <2>1, <2>4, <2>5, <2>6 DEF StreamInv, Flow
<1>8. Stages'
  <2>1. handler.worker # None
    BY <1>4, StreamAssumption DEF None
  <2>2. QED
    BY <1>2, <1>3, <1>4, <2>1 DEF StreamInv, Stages, Committed
<1>9. ClientKnows'
  BY <1>2 DEF StreamInv, ClientKnows
<1>10. QED
  BY <1>6, <1>7, <1>8, <1>9 DEF StreamInv

LEMMA WriteKeeps ==
  ASSUME StreamInv, Write, UNCHANGED <<context, client>>
  PROVE  StreamInv'
<1>1. /\ handler.pc = "writing"
      /\ \/ buffer' = buffer \o held /\ held' = <<>> /\ Goto("flushing")
         \/ Goto("broken") /\ UNCHANGED <<buffer, held>>
      /\ UNCHANGED <<taken, charged, delivered, message, framing, upstream, context, client>>
  BY DEF Write, At
<1>2. message = "open" /\ handler.worker \in Workers /\ handler.worker # None
  BY <1>1, StreamAssumption DEF StreamInv, Stages, Committed, None
<1>3. PICK p \in {"flushing", "broken"} : Goto(p) /\ (p = "flushing" => held' = <<>>)
  BY <1>1
<1>4. /\ handler' \in [pc : Places, tried : SUBSET Workers, worker : Workers \cup {None}]
      /\ handler'.pc = p
      /\ handler'.tried = handler.tried
      /\ handler'.worker = handler.worker
  BY <1>3, GotoIs DEF StreamInv, Places
<1>5. Records'
  BY <1>1, <1>4 DEF StreamInv, Records
<1>6. Flow'
  <2>1. CASE buffer' = buffer \o held /\ held' = <<>>
    <3>1. /\ delivered \in Seq(Events) /\ buffer \in Seq(Events) /\ held \in Seq(Events)
          /\ Len(delivered) \in Nat /\ Len(buffer) \in Nat /\ Len(held) \in Nat
          /\ Len(delivered) + Len(buffer) + Len(held) = taken
      BY DEF StreamInv, Flow
    <3>2. buffer' \in Seq(Events) /\ Len(buffer') = Len(buffer) + Len(held)
      BY <2>1, <3>1, ConcatIs
    <3>3. \A i \in 1 .. Len(buffer) + Len(held) :
            (buffer \o held)[i] = Event(handler.worker, Len(delivered) + i)
      BY <3>1, FlowOn DEF StreamInv, Flow
    <3>4. held' \in Seq(Events) /\ Len(held') = 0
      BY <2>1
    <3>5. Len(delivered) + Len(buffer') + Len(held') = taken
      BY <3>1, <3>2, <3>4
    <3>6. \A i \in 1 .. Len(buffer') : buffer'[i] = Event(handler.worker, Len(delivered) + i)
      BY <2>1, <3>2, <3>3
    <3>7. QED
      BY <1>1, <1>4, <3>2, <3>4, <3>5, <3>6 DEF StreamInv, Flow
  <2>2. CASE UNCHANGED <<buffer, held>>
    BY <1>1, <1>4, <2>2 DEF StreamInv, Flow
  <2>3. QED
    BY <1>1, <2>1, <2>2
<1>7. Stages'
  BY <1>1, <1>2, <1>3, <1>4 DEF StreamInv, Stages, Committed
<1>8. ClientKnows'
  BY <1>1 DEF StreamInv, ClientKnows
<1>9. QED
  BY <1>5, <1>6, <1>7, <1>8 DEF StreamInv

(* Whatever was written goes on its way behind what is already there.      *)
LEMMA DeliverKeepsFlow ==
  ASSUME Flow, delivered' = delivered \o buffer, buffer' = <<>>,
         held' = held, taken' = taken, handler'.worker = handler.worker
  PROVE  Flow' /\ Len(delivered') = Len(delivered) + Len(buffer)
<1>1. /\ delivered \in Seq(Events) /\ buffer \in Seq(Events) /\ held \in Seq(Events)
      /\ Len(delivered) \in Nat /\ Len(buffer) \in Nat /\ Len(held) \in Nat
      /\ Len(delivered) + Len(buffer) + Len(held) = taken
  BY DEF Flow
<1>2. delivered' \in Seq(Events) /\ Len(delivered') = Len(delivered) + Len(buffer)
  BY <1>1, ConcatIs
<1>3. \A i \in 1 .. Len(delivered) : delivered[i] = Event(handler.worker, 0 + i)
  BY <1>1 DEF Flow
<1>4. \A i \in 1 .. Len(buffer) : buffer[i] = Event(handler.worker, 0 + Len(delivered) + i)
  BY <1>1 DEF Flow
<1>5. \A i \in 1 .. Len(delivered) + Len(buffer) :
        (delivered \o buffer)[i] = Event(handler.worker, 0 + i)
  BY <1>1, <1>3, <1>4, FlowOn
<1>6. \A i \in 1 .. Len(delivered') : delivered'[i] = Event(handler'.worker, i)
  BY <1>1, <1>2, <1>5
<1>7. buffer' \in Seq(Events) /\ Len(buffer') = 0
  OBVIOUS
<1>8. Len(delivered') + Len(buffer') = Len(delivered) + Len(buffer)
  BY <1>1, <1>2, <1>7
<1>9. Len(delivered') + Len(buffer') + Len(held') = taken'
  BY <1>1, <1>8
<1>10. \A i \in 1 .. Len(held') :
         held'[i] = Event(handler'.worker, Len(delivered') + Len(buffer') + i)
  BY <1>8 DEF Flow
<1>11. QED
  BY <1>1, <1>2, <1>6, <1>7, <1>9, <1>10 DEF Flow

(* What the client has seen stays seen when more is delivered.             *)
LEMMA DeliverKeepsClient ==
  ASSUME Records, ClientKnows, UNCHANGED client, NEW n \in Nat,
         Len(delivered) \in Nat, Len(delivered') = Len(delivered) + n
  PROVE  ClientKnows'
<1>1. client.seen \in Nat /\ client.seen <= Len(delivered)
  BY DEF Records, ClientKnows
<1>2. client'.seen <= Len(delivered')
  BY <1>1
<1>3. QED
  BY <1>2 DEF ClientKnows

LEMMA FlushKeeps ==
  ASSUME StreamInv, Flush, UNCHANGED <<context, client>>
  PROVE  StreamInv'
<1>1. /\ handler.pc = "flushing" /\ Goto("reading")
      /\ delivered' = delivered \o buffer /\ buffer' = <<>>
      /\ UNCHANGED <<taken, held, charged, message, framing, upstream, context, client>>
  BY DEF Flush, At
<1>2. /\ handler' \in [pc : Places, tried : SUBSET Workers, worker : Workers \cup {None}]
      /\ handler'.pc = "reading"
      /\ handler'.tried = handler.tried
      /\ handler'.worker = handler.worker
  BY <1>1, GotoIs DEF StreamInv, Places
<1>3. Records'
  BY <1>1, <1>2 DEF StreamInv, Records
<1>4. Flow' /\ Len(delivered') = Len(delivered) + Len(buffer)
  BY <1>1, <1>2, DeliverKeepsFlow DEF StreamInv
<1>5. Stages'
  BY <1>1, <1>2 DEF StreamInv, Stages, Committed
<1>6. ClientKnows'
  <2>1. Len(delivered) \in Nat /\ Len(buffer) \in Nat
    BY DEF StreamInv, Flow
  <2>2. QED
    BY <1>1, <1>4, <2>1, DeliverKeepsClient DEF StreamInv
<1>7. QED
  BY <1>3, <1>4, <1>5, <1>6 DEF StreamInv

(* The body has ended: everything was read, and what was read, written.    *)
LEMMA ReadEndsKeeps ==
  ASSUME StreamInv, ReadEnds, UNCHANGED <<context, client>>
  PROVE  StreamInv'
<1>1. /\ handler.pc = "reading" /\ upstream.state = "finished" /\ taken = upstream.sent
      /\ Goto("returned")
      /\ UNCHANGED <<taken, held, charged, buffer, delivered, message, framing, upstream,
                     context, client>>
  BY DEF ReadEnds, At, serverVars
<1>2. /\ handler' \in [pc : Places, tried : SUBSET Workers, worker : Workers \cup {None}]
      /\ handler'.pc = "returned"
      /\ handler'.tried = handler.tried
      /\ handler'.worker = handler.worker
  BY <1>1, GotoIs DEF StreamInv, Places
<1>3. Records'
  BY <1>1, <1>2 DEF StreamInv, Records
<1>4. Flow'
  BY <1>1, <1>2 DEF StreamInv, Flow
<1>5. Stages'
  BY <1>1, <1>2 DEF StreamInv, Stages
<1>6. ClientKnows'
  BY <1>1 DEF StreamInv, ClientKnows
<1>7. QED
  BY <1>3, <1>4, <1>5, <1>6 DEF StreamInv

LEMMA ReadFailsKeeps ==
  ASSUME StreamInv, ReadFails, UNCHANGED <<context, client>>
  PROVE  StreamInv'
<1>1. /\ handler.pc = "reading" /\ Goto("broken")
      /\ UNCHANGED <<taken, held, charged, buffer, delivered, message, framing, upstream,
                     context, client>>
  BY DEF ReadFails, At, serverVars
<1>2. /\ handler' \in [pc : Places, tried : SUBSET Workers, worker : Workers \cup {None}]
      /\ handler'.pc = "broken"
      /\ handler'.tried = handler.tried
      /\ handler'.worker = handler.worker
  BY <1>1, GotoIs DEF StreamInv, Places
<1>3. Records'
  BY <1>1, <1>2 DEF StreamInv, Records
<1>4. Flow'
  BY <1>1, <1>2 DEF StreamInv, Flow
<1>5. Stages'
  BY <1>1, <1>2 DEF StreamInv, Stages
<1>6. ClientKnows'
  BY <1>1 DEF StreamInv, ClientKnows
<1>7. QED
  BY <1>3, <1>4, <1>5, <1>6 DEF StreamInv

(* The worker whose stream has broken is charged.                          *)
LEMMA ReportBreakKeeps ==
  ASSUME StreamInv, ReportBreak, UNCHANGED <<context, client>>
  PROVE  StreamInv'
<1>1. /\ handler.pc = "broken" /\ Goto("returned") /\ charged' = charged \cup {handler.worker}
      /\ UNCHANGED <<taken, held, buffer, delivered, message, framing, upstream,
                     context, client>>
  BY DEF ReportBreak, At, serverVars
<1>2. /\ handler' \in [pc : Places, tried : SUBSET Workers, worker : Workers \cup {None}]
      /\ handler'.pc = "returned"
      /\ handler'.tried = handler.tried
      /\ handler'.worker = handler.worker
  BY <1>1, GotoIs DEF StreamInv, Places
<1>3. handler.worker \in handler.tried /\ handler.worker \in charged'
  BY <1>1, StreamAssumption DEF StreamInv, Stages, Records, Committed, None
<1>4. Records'
  BY <1>1, <1>2, <1>3 DEF StreamInv, Records
<1>5. Flow'
  BY <1>1, <1>2 DEF StreamInv, Flow
<1>6. Stages'
  BY <1>1, <1>2, <1>3 DEF StreamInv, Stages, Committed
<1>7. ClientKnows'
  BY <1>1 DEF StreamInv, ClientKnows
<1>8. QED
  BY <1>4, <1>5, <1>6, <1>7 DEF StreamInv

LEMMA SpillKeeps == StreamInv /\ Spill => StreamInv'
<1> SUFFICES ASSUME StreamInv, Spill PROVE StreamInv'
  OBVIOUS
<1>1. /\ message = "open" /\ delivered' = delivered \o buffer /\ buffer' = <<>>
      /\ UNCHANGED <<handler, taken, held, charged, message, framing, upstream, context, client>>
  BY DEF Spill, proxyVars
<1>2. Records'
  BY <1>1 DEF StreamInv, Records
<1>3. Flow' /\ Len(delivered') = Len(delivered) + Len(buffer)
  BY <1>1, DeliverKeepsFlow DEF StreamInv
<1>4. Stages'
  BY <1>1 DEF StreamInv, Stages, Committed
<1>5. ClientKnows'
  <2>1. Len(delivered) \in Nat /\ Len(buffer) \in Nat
    BY DEF StreamInv, Flow
  <2>2. QED
    BY <1>1, <1>3, <2>1, DeliverKeepsClient DEF StreamInv
<1>6. QED
  BY <1>2, <1>3, <1>4, <1>5 DEF StreamInv

LEMMA FinishRequestKeeps == StreamInv /\ FinishRequest => StreamInv'
<1> SUFFICES ASSUME StreamInv, FinishRequest PROVE StreamInv'
  OBVIOUS
<1>1. /\ handler.pc = "returned" /\ message = "open"
      /\ delivered' = delivered \o buffer /\ buffer' = <<>>
      /\ UNCHANGED <<handler, taken, held, charged, framing, upstream, context, client>>
  BY DEF FinishRequest, proxyVars, At
<1>2. /\ message' \in {"cut", "complete"}
      /\ message' = "complete" /\ framing = "length" => ~(Len(delivered') < Total)
  BY DEF FinishRequest
<1>3. Records'
  BY <1>1, <1>2 DEF StreamInv, Records
<1>4. Flow' /\ Len(delivered') = Len(delivered) + Len(buffer)
  BY <1>1, DeliverKeepsFlow DEF StreamInv
<1>5. Stages'
  <2>1. Len(delivered') \in Nat
    BY <1>4 DEF Flow
  <2>2. QED
    BY <1>1, <1>2, <2>1, TotalIsNat DEF StreamInv, Stages, Committed
<1>6. ClientKnows'
  <2>1. Len(delivered) \in Nat /\ Len(buffer) \in Nat
    BY DEF StreamInv, Flow
  <2>2. QED
    BY <1>1, <1>4, <2>1, DeliverKeepsClient DEF StreamInv
<1>7. QED
  BY <1>3, <1>4, <1>5, <1>6 DEF StreamInv

LEMMA WorkerStepKeeps == StreamInv /\ WorkerStep => StreamInv'
<1> SUFFICES ASSUME StreamInv, WorkerStep PROVE StreamInv'
  OBVIOUS
<1>1. UNCHANGED <<handler, taken, held, charged, buffer, delivered, message, framing,
                  context, client>>
  BY DEF WorkerStep, proxyVars, serverVars
<1>2. /\ upstream' \in [state : {None, "streaming", "finished", "broken"},
                         framing : Framings \cup {None}, sent : 0 .. Total]
      /\ upstream'.framing = upstream.framing
      /\ upstream.sent <= upstream'.sent
      /\ upstream'.state = "finished" => upstream'.sent = Total
  <2>1. upstream.sent \in 0 .. Total /\ Total \in Nat
    BY TotalIsNat DEF StreamInv, Records
  <2>2. CASE Send
    <3>1. upstream.state = "streaming" /\ upstream.sent + 1 \in 0 .. Total
      BY <2>1, <2>2 DEF Send
    <3>2. QED
      BY <2>1, <2>2, <3>1 DEF Send, StreamInv, Records
  <2>3. CASE Finish
    BY <2>1, <2>3, EndIs DEF Finish, StreamInv
  <2>4. CASE Break
    BY <2>1, <2>4, EndIs DEF Break, StreamInv
  <2>5. QED
    BY <2>2, <2>3, <2>4 DEF WorkerStep
<1>3. Records'
  <2>1. taken \in 0 .. upstream'.sent
    BY <1>2, TotalIsNat DEF StreamInv, Records
  <2>2. QED
    BY <1>1, <1>2, <2>1 DEF StreamInv, Records
<1>4. Flow'
  BY <1>1 DEF StreamInv, Flow
<1>5. Stages'
  BY <1>1, <1>2 DEF StreamInv, Stages
<1>6. ClientKnows'
  BY <1>1 DEF StreamInv, ClientKnows
<1>7. QED
  BY <1>3, <1>4, <1>5, <1>6 DEF StreamInv

LEMMA DeadlineKeeps == StreamInv /\ DeadlineExpires => StreamInv'
<1> SUFFICES ASSUME StreamInv, DeadlineExpires PROVE StreamInv'
  OBVIOUS
<1>1. /\ context' = "ended"
      /\ UNCHANGED <<handler, taken, held, charged, buffer, delivered, message, framing,
                     upstream, client>>
  BY DEF DeadlineExpires, proxyVars, serverVars
<1>2. QED
  BY <1>1 DEF StreamInv, Records, Flow, Stages, ClientKnows

(* The event with the usage comes after the last token.                    *)
LEMMA SeeEventKnows ==
  ASSUME StreamInv, SeeEvent, UNCHANGED delivered
  PROVE  /\ client' \in [verdict : {None, "success", "failure", "gone"}, seen : Nat,
                          token : BOOLEAN, usage : BOOLEAN]
         /\ client'.verdict = client.verdict
         /\ ClientKnows' \/ client.verdict = "success"
<1> DEFINE e == delivered[client.seen + 1]
<1>1. /\ client.seen < Len(delivered)
      /\ client' = [client EXCEPT !.seen = @ + 1, !.token = @ \/ IsToken(e),
                                  !.usage = @ \/ IsUsage(e)]
  BY DEF SeeEvent
<1>2. /\ client \in [verdict : {None, "success", "failure", "gone"}, seen : Nat,
                      token : BOOLEAN, usage : BOOLEAN]
      /\ client.seen <= Len(delivered) /\ (client.usage => client.seen > Tokens)
  BY DEF StreamInv, Records, ClientKnows
<1>3. e = Event(handler.worker, client.seen + 1)
  BY <1>1, <1>2 DEF StreamInv, Flow
<1>4. IsUsage(e) => client.seen + 1 > Tokens
  BY <1>2, <1>3, TotalIsNat DEF IsUsage, Event
<1> HIDE DEF e
<1> DEFINE token == client.token \/ IsToken(e)
           usage == client.usage \/ IsUsage(e)
<1>5. token \in BOOLEAN /\ usage \in BOOLEAN
  BY <1>2, SMT DEF IsToken, IsUsage
<1>5a. client' = [client EXCEPT !.seen = @ + 1, !.token = token, !.usage = usage]
  BY <1>1
<1>5b. usage <=> client.usage \/ IsUsage(e)
  OBVIOUS
<1> HIDE DEF token, usage
<1>6. /\ client' \in [verdict : {None, "success", "failure", "gone"}, seen : Nat,
                       token : BOOLEAN, usage : BOOLEAN]
      /\ client'.verdict = client.verdict /\ client'.seen = client.seen + 1
  <2>1. PICK v \in {None, "success", "failure", "gone"}, n \in Nat, t \in BOOLEAN, u \in BOOLEAN :
          client = [verdict |-> v, seen |-> n, token |-> t, usage |-> u]
    BY <1>2
  <2>2. client' = [verdict |-> v, seen |-> n + 1, token |-> token, usage |-> usage]
    BY <1>5a, <2>1
  <2>3. QED
    BY <1>5, <2>1, <2>2
<1>7. client'.usage <=> client.usage \/ IsUsage(e)
  BY <1>2, <1>5a, <1>5b
<1>8. Len(delivered) \in Nat /\ client.seen \in Nat
  BY <1>2 DEF StreamInv, Flow
<1>9. ClientKnows' \/ client.verdict = "success"
  BY <1>1, <1>2, <1>4, <1>6, <1>7, <1>8, TotalIsNat DEF ClientKnows
<1>10. QED
  BY <1>6, <1>9

LEMMA ClientKeeps == StreamInv /\ (ClientReads \/ ClientLeaves) => StreamInv'
<1> SUFFICES ASSUME StreamInv, ClientReads \/ ClientLeaves PROVE StreamInv'
  OBVIOUS
<1>1. /\ UNCHANGED <<handler, taken, held, charged, buffer, delivered, message, framing, upstream>>
      /\ context' \in {context, "ended"}
      /\ client.verdict = None
  BY DEF ClientReads, ClientLeaves, proxyVars, serverVars
<1>2. ASSUME NEW v \in {"success", "failure", "gone"}, Decide(v), v = "success" => Accepts
      PROVE  /\ client' \in [verdict : {None, "success", "failure", "gone"}, seen : Nat,
                              token : BOOLEAN, usage : BOOLEAN]
             /\ ClientKnows'
  <2>1. /\ client'.verdict = v /\ client'.seen = client.seen /\ client'.usage = client.usage
        /\ client' \in [verdict : {None, "success", "failure", "gone"}, seen : Nat,
                         token : BOOLEAN, usage : BOOLEAN]
    BY <1>2, DecideIs DEF StreamInv
  <2>2. QED
    BY <1>1, <1>2, <2>1 DEF StreamInv, ClientKnows, Accepts
<1>3. /\ client' \in [verdict : {None, "success", "failure", "gone"}, seen : Nat,
                       token : BOOLEAN, usage : BOOLEAN]
      /\ ClientKnows'
  <2>1. CASE ClientReads /\ SeeEvent
    BY <1>1, <2>1, SeeEventKnows DEF None
  <2>2. CASE ClientReads /\ SeeEnd
    BY <1>2, <2>2 DEF SeeEnd
  <2>3. CASE ClientReads /\ SeeFailure
    BY <1>2, <2>3 DEF SeeFailure
  <2>4. CASE ClientLeaves
    BY <1>2, <2>4 DEF ClientLeaves
  <2>5. QED
    BY <2>1, <2>2, <2>3, <2>4 DEF ClientReads
<1>4. Records'
  BY <1>1, <1>3 DEF StreamInv, Records
<1>5. Flow' /\ Stages'
  BY <1>1 DEF StreamInv, Flow, Stages
<1>6. QED
  BY <1>3, <1>4, <1>5 DEF StreamInv

LEMMA StepKeeps == StreamInv /\ [StreamNext]_streamVars => StreamInv'
<1> SUFFICES ASSUME StreamInv, [StreamNext]_streamVars PROVE StreamInv'
  OBVIOUS
<1>1. CASE HandlerStep
  BY <1>1, AttemptFailsKeeps, CommitKeeps, GiveUpKeeps, ReadKeeps, WriteKeeps, FlushKeeps,
     ReadEndsKeeps, ReadFailsKeeps, ReportBreakKeeps DEF HandlerStep
<1>2. CASE Spill \/ FinishRequest
  BY <1>2, SpillKeeps, FinishRequestKeeps
<1>3. CASE WorkerStep \/ DeadlineExpires
  BY <1>3, WorkerStepKeeps, DeadlineKeeps
<1>4. CASE ClientReads \/ ClientLeaves
  BY <1>4, ClientKeeps
<1>5. CASE UNCHANGED streamVars
  BY <1>5 DEF StreamInv, Records, Flow, Stages, ClientKnows, streamVars, proxyVars, serverVars
<1>6. QED
  BY <1>1, <1>2, <1>3, <1>4, <1>5 DEF StreamNext

LEMMA StreamInvariant == StreamSafetySpec => []StreamInv
  BY InitKeeps, StepKeeps, PTL DEF StreamSafetySpec

-----------------------------------------------------------------------------
(* Theorems.                                                               *)

(* The handler reads no more than was sent, the client sees no more than   *)
(* was delivered, and only workers that were tried are charged.            *)
THEOREM StreamTypeCorrect == StreamSafetySpec => []StreamTypeOK
<1>1. StreamInv => StreamTypeOK
  BY DEF StreamInv, Records, Places, Flow, ClientKnows, StreamTypeOK
<1>2. QED
  BY <1>1, StreamInvariant, PTL

(* What has been delivered is the beginning of the stream of the worker    *)
(* that was committed, and all of it if nothing is missing at the end.     *)
LEMMA DeliveredWhole ==
  ASSUME StreamInv, Len(delivered) >= Total
  PROVE  delivered = Script(handler.worker)
<1>1. /\ Len(delivered) \in Nat /\ Len(buffer) \in Nat /\ Len(held) \in Nat
      /\ Len(delivered) + Len(buffer) + Len(held) = taken
      /\ delivered \in Seq(Events)
  BY DEF StreamInv, Flow
<1>2. taken \in 0 .. Total /\ Total \in Nat
  BY TotalIsNat DEF StreamInv, Records
<1>3. Len(delivered) = Total
  BY <1>1, <1>2
<1>4. delivered = [i \in 1 .. Total |-> delivered[i]]
  BY <1>1, <1>3
<1>5. \A i \in 1 .. Total : delivered[i] = Event(handler.worker, i)
  BY <1>3 DEF StreamInv, Flow
<1>6. QED
  BY <1>4, <1>5 DEF Script

(* Whatever fails and whoever was tried, the client gets the beginning of  *)
(* the stream of one worker, and nothing twice or out of order.            *)
THEOREM OneStream == StreamSafetySpec => []OneWorkersStream
<1>1. ASSUME StreamInv
      PROVE  OneWorkersStream
  <2> DEFINE all == delivered \o buffer \o held
             w == handler.worker
  <2>1. /\ Len(delivered) \in Nat /\ Len(buffer) \in Nat /\ Len(held) \in Nat
        /\ Len(delivered) + Len(buffer) + Len(held) = taken
        /\ delivered \in Seq(Events) /\ buffer \in Seq(Events) /\ held \in Seq(Events)
    BY <1>1 DEF StreamInv, Flow
  <2>2. /\ delivered \o buffer \in Seq(Events)
        /\ Len(delivered \o buffer) = Len(delivered) + Len(buffer)
    BY <2>1, ConcatIs
  <2>3. all \in Seq(Events) /\ Len(all) = taken
    BY <2>1, <2>2, ConcatIs
  <2>4. \A i \in 1 .. Len(delivered \o buffer) : (delivered \o buffer)[i] = Event(w, 0 + i)
    <3>1. \A i \in 1 .. Len(delivered) : delivered[i] = Event(w, 0 + i)
      BY <1>1, <2>1 DEF StreamInv, Flow
    <3>2. \A i \in 1 .. Len(buffer) : buffer[i] = Event(w, 0 + Len(delivered) + i)
      BY <1>1, <2>1 DEF StreamInv, Flow
    <3>3. QED
      BY <2>1, <2>2, <3>1, <3>2, FlowOn
  <2>5. \A i \in 1 .. Len(held) : held[i] = Event(w, 0 + Len(delivered \o buffer) + i)
    BY <1>1, <2>1, <2>2 DEF StreamInv, Flow
  <2>6. \A i \in 1 .. Len(delivered \o buffer) + Len(held) : all[i] = Event(w, 0 + i)
    BY <2>1, <2>2, <2>4, <2>5, FlowOn
  <2>7. \A i \in 1 .. taken : all[i] = Event(w, i)
    BY <2>1, <2>2, <2>6
  <2>8. taken \in 0 .. Total /\ Total \in Nat
    BY <1>1, TotalIsNat DEF StreamInv, Records
  <2> HIDE DEF all, w
  <2>9. IsPrefixOf(all, Script(w))
    <3>1. Len(Script(w)) = Total /\ \A i \in 1 .. Total : Script(w)[i] = Event(w, i)
      BY <2>8 DEF Script
    <3>2. DOMAIN all = 1 .. taken
      BY <2>3
    <3>3. QED
      BY <2>3, <2>7, <2>8, <3>1, <3>2 DEF IsPrefixOf
  <2>10. w = None => all = <<>>
    <3>1. w = None => taken = 0
      BY <1>1 DEF StreamInv, Stages, w
    <3>2. QED
      BY <2>3, <3>1
  <2>11. QED
    BY <2>9, <2>10 DEF OneWorkersStream, all, w
<1>2. QED
  BY <1>1, StreamInvariant, PTL

(* A handler that ends without having charged the worker it committed to   *)
(* has passed on everything.                                               *)
THEOREM UnchargedPassedAll == StreamSafetySpec => []UnchargedMeansWhole
<1>1. ASSUME StreamInv, message \in {"complete", "cut"}, handler.worker \notin charged
      PROVE  delivered = Script(handler.worker)
  <2>1. buffer = <<>> /\ held = <<>> /\ taken = Total
    BY <1>1 DEF StreamInv, Stages, Committed
  <2>2. Len(delivered) = Total
    BY <1>1, <2>1, TotalIsNat DEF StreamInv, Flow
  <2>3. QED
    BY <1>1, <2>2, TotalIsNat, DeliveredWhole
<1>2. QED
  BY <1>1, StreamInvariant, PTL DEF UnchargedMeansWhole

(* An answer of declared length that is cut short never looks complete.    *)
THEOREM TruncationShows == StreamSafetySpec => []TruncationVisible
<1>1. ASSUME StreamInv, upstream.framing = "length", message = "complete"
      PROVE  delivered = Script(handler.worker)
  <2>1. Len(delivered) >= Total
    BY <1>1 DEF StreamInv, Stages, Committed
  <2>2. QED
    BY <1>1, <2>1, DeliveredWhole
<1>2. QED
  BY <1>1, StreamInvariant, PTL DEF TruncationVisible

(* The benchmark counts no stream as a success that lacks a token or the   *)
(* usage.                                                                  *)
THEOREM SuccessIsWhole == StreamSafetySpec => []SuccessMeansWhole
<1>1. ASSUME StreamInv, client.verdict = "success"
      PROVE  Len(delivered) > Tokens /\ upstream.sent > Tokens
  <2>1. client.seen > Tokens /\ client.seen <= Len(delivered) /\ client.seen \in Nat
    BY <1>1 DEF StreamInv, Records, ClientKnows
  <2>2. /\ Len(delivered) \in Nat /\ Len(buffer) \in Nat /\ Len(held) \in Nat
        /\ Len(delivered) + Len(buffer) + Len(held) = taken
    BY <1>1 DEF StreamInv, Flow
  <2>3. taken <= upstream.sent /\ upstream.sent \in Nat
    BY <1>1, TotalIsNat DEF StreamInv, Records
  <2>4. QED
    BY <2>1, <2>2, <2>3, TotalIsNat
<1>2. QED
  BY <1>1, StreamInvariant, PTL DEF SuccessMeansWhole

-----------------------------------------------------------------------------
(* The handler keeps the promise of Exchange.                              *)

LEMMA ExchangeIs ==
  /\ exchange["request"] = TheExchange
  /\ exchange' = [exchange EXCEPT !["request"] = TheExchange']
  BY DEF exchange

LEMMA SameExchange == UNCHANGED TheExchange => UNCHANGED exchange
  BY DEF exchange

LEMMA SameCardinality == \A S : Promise!Cardinality(S) = Cardinality(S)
  BY Zenon DEF Cardinality, Promise!Cardinality

(* As long as a worker is left that was not tried, an attempt is.          *)
LEMMA AskedBelow ==
  ASSUME StreamInv, NEW w \in Workers, handler.pc = "choosing", w \notin handler.tried
  PROVE  Promise!MayAsk("request", w) /\ TheExchange.failed = handler.tried
<1>1. /\ handler.worker = None /\ None \notin Workers
      /\ handler.tried \subseteq Workers /\ IsFiniteSet(Workers)
  BY StreamAssumption DEF StreamInv, Stages, Records, None
<1>2. TheExchange.failed = handler.tried /\ TheExchange.stage = "open"
  BY <1>1 DEF TheExchange
<1> DEFINE tried == handler.tried
<1>3. Cardinality(tried) < Cardinality(Workers)
  <2>1. tried \subseteq Workers /\ tried # Workers
    BY <1>1
  <2> HIDE DEF tried
  <2>2. Cardinality(tried) <= Cardinality(Workers) /\ Cardinality(tried) # Cardinality(Workers)
    BY <1>1, <2>1, FS_Subset
  <2>3. Cardinality(tried) \in Nat /\ Cardinality(Workers) \in Nat
    BY <1>1, <2>1, FS_Subset, FS_CardinalityType
  <2>4. QED
    BY <2>2, <2>3
<1>4. exchange["request"].failed = tried /\ exchange["request"].stage = "open"
  BY <1>2, ExchangeIs
<1>5. w \notin tried
  OBVIOUS
<1> HIDE DEF tried
<1>6. Promise!MayAsk("request", w)
  BY <1>3, <1>4, <1>5, SameCardinality DEF Promise!MayAsk, Promise!Is
<1>7. QED
  BY <1>2, <1>6

LEMMA AttemptFailsPromise ==
  ASSUME StreamInv, NEW w \in Workers, AttemptFails(w)
  PROVE  Promise!Fail("request", w)
<1>1. handler.pc = "choosing" /\ w \notin handler.tried
  BY DEF AttemptFails, At
<1>2. /\ handler'.pc = "choosing" /\ handler'.worker = handler.worker
      /\ handler'.tried = handler.tried \cup {w}
  BY <1>1 DEF AttemptFails, StreamInv, Records
<1>3. handler.worker = None /\ None \notin handler.tried /\ w # None
  BY <1>1, StreamAssumption DEF StreamInv, Stages, Records, None
<1>4. TheExchange = [stage |-> "open", failed |-> handler.tried, source |-> None, outcome |-> "none"]
  BY <1>1, <1>3 DEF TheExchange, OutcomeSoFar
<1>5. TheExchange' = [stage |-> "open", failed |-> handler.tried \cup {w},
                      source |-> None, outcome |-> "none"]
  BY <1>2, <1>3 DEF TheExchange, OutcomeSoFar
<1>6. TheExchange' = [exchange["request"] EXCEPT !.failed = @ \cup {w}]
  BY <1>4, <1>5, ExchangeIs
<1>7. exchange' = [exchange EXCEPT !["request"].failed = @ \cup {w}]
  BY <1>6, ExchangeIs
<1>8. QED
  BY <1>1, <1>7, AskedBelow DEF Promise!Fail

LEMMA CommitPromise ==
  ASSUME StreamInv, NEW w \in Workers, Commit(w)
  PROVE  Promise!Commit("request", w)
<1>1. handler.pc = "choosing" /\ w \notin handler.tried
      /\ handler' = [pc |-> "reading", tried |-> handler.tried \cup {w}, worker |-> w]
  BY DEF Commit, At
<1>2. TheExchange' = [stage |-> "committed", failed |-> handler.tried,
                      source |-> w, outcome |-> "none"]
  <2>1. (handler.tried \cup {w}) \ {w} = handler.tried
    BY <1>1
  <2>2. QED
    BY <1>1, <2>1 DEF TheExchange, OutcomeSoFar
<1>3. QED
  BY <1>1, <1>2, AskedBelow, ExchangeIs DEF Promise!Commit

LEMMA GiveUpPromise ==
  ASSUME StreamInv, GiveUp
  PROVE  Promise!GiveUp("request")
<1>1. handler.pc = "choosing" /\ Goto("returned") /\ message' = "error"
  BY DEF GiveUp, At
<1>2. handler'.pc = "returned" /\ handler'.tried = handler.tried
  BY <1>1, GotoIs DEF StreamInv, Places
<1>3. TheExchange.stage = "open" /\ TheExchange.failed = handler.tried
  BY <1>1, StreamAssumption DEF TheExchange, StreamInv, Stages, Records, None
<1>4. TheExchange' = Promise!Closed(IF TheExchange.failed = {} THEN "unavailable" ELSE "failed")
  BY <1>1, <1>2, <1>3 DEF TheExchange, OutcomeSoFar, Promise!Closed
<1>5. QED
  BY <1>3, <1>4, ExchangeIs DEF Promise!GiveUp, Promise!Close, Promise!Is

LEMMA EndPromise ==
  ASSUME StreamInv, ReadEnds \/ ReportBreak
  PROVE  Promise!End("request")
<1>1. handler.pc \in {"reading", "broken"} /\ Goto("returned") /\ UNCHANGED message
  BY DEF ReadEnds, ReportBreak, At, serverVars
<1>2. handler'.pc = "returned" /\ message' = "open"
  BY <1>1, GotoIs DEF StreamInv, Places, Stages
<1>3. TheExchange.stage = "committed"
  BY <1>1 DEF TheExchange
<1>4. TheExchange' \in {Promise!Closed("whole"), Promise!Closed("cut")}
  BY <1>2 DEF TheExchange, OutcomeSoFar, Promise!Closed
<1>5. QED
  BY <1>3, <1>4, ExchangeIs DEF Promise!End, Promise!Close, Promise!Is

(* Reading, writing, flushing and what the others do shows nothing.        *)
LEMMA RelayPromise ==
  ASSUME StreamInv, Read \/ Write \/ Flush \/ ReadFails
  PROVE  UNCHANGED exchange
<1>1. PICK pc \in {"reading", "writing", "flushing", "broken"} : Goto(pc)
  BY DEF Read, Take, Write, Flush, ReadFails
<1>2. handler.pc \in {"reading", "writing", "flushing", "broken"}
  BY DEF Read, Write, Flush, ReadFails, At
<1>3. handler'.pc = pc /\ handler'.tried = handler.tried /\ handler'.worker = handler.worker
  BY <1>1, GotoIs DEF StreamInv, Places
<1>4. UNCHANGED TheExchange
  BY <1>1, <1>2, <1>3 DEF TheExchange, OutcomeSoFar
<1>5. QED
  BY <1>4, SameExchange

LEMMA OthersPromise ==
  ASSUME StreamInv,
         \/ Spill \/ FinishRequest \/ WorkerStep \/ DeadlineExpires
         \/ ClientReads \/ ClientLeaves \/ UNCHANGED streamVars
  PROVE  UNCHANGED exchange
<1>1. UNCHANGED <<handler, charged>>
  BY DEF Spill, FinishRequest, WorkerStep, DeadlineExpires, ClientReads, ClientLeaves,
         streamVars, proxyVars
<1>2. message' = message \/ (message # "error" /\ message' # "error")
  BY DEF Spill, FinishRequest, WorkerStep, DeadlineExpires, ClientReads, ClientLeaves,
         streamVars, serverVars
<1>3. UNCHANGED TheExchange
  BY <1>1, <1>2 DEF TheExchange, OutcomeSoFar
<1>4. QED
  BY <1>3, SameExchange

LEMMA StepPromise == StreamInv /\ [StreamNext]_streamVars => [Promise!Next]_exchange
<1> SUFFICES ASSUME StreamInv, [StreamNext]_streamVars PROVE [Promise!Next]_exchange
  OBVIOUS
<1>1. CASE HandlerStep
  BY <1>1, AttemptFailsPromise, CommitPromise, GiveUpPromise, EndPromise, RelayPromise
     DEF HandlerStep, Promise!Next
<1>2. CASE ~HandlerStep
  BY <1>2, OthersPromise DEF StreamNext
<1>3. QED
  BY <1>1, <1>2

LEMMA InitPromise == StreamInit => Promise!Init
<1> SUFFICES ASSUME StreamInit PROVE Promise!Init
  OBVIOUS
<1>1. TheExchange = Promise!Fresh
  BY DEF StreamInit, TheExchange, OutcomeSoFar, Promise!Fresh
<1>2. QED
  BY <1>1 DEF exchange, Promise!Init

(* Down to its reads and writes the handler asks no worker twice, none     *)
(* once a response has been committed, and answers every request once.     *)
THEOREM StreamKeepsPromise == StreamSafetySpec => ImplementsExchange
  BY InitPromise, StepPromise, StreamInvariant, PTL
     DEF StreamSafetySpec, ImplementsExchange, Promise!Spec
=============================================================================
