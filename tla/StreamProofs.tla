----------------------------- MODULE StreamProofs -----------------------------
(***************************************************************************)
(* What holds of every stream, whatever its text, its events, the number   *)
(* of claims and the number of faults: nothing is broadcast before it is   *)
(* durable, and reconcile_required is cleared only when every event went   *)
(* to the channel.  StreamInv is inductive: it adds what the publisher and *)
(* the calls on their way may be relied on to know.  InboxInv is the same  *)
(* for the browser, which always waits for an answer or a timer.           *)
(***************************************************************************)
EXTENDS TurnStream, TLAPS, SequenceTheorems, FiniteSetTheorems

-----------------------------------------------------------------------------
(* The invariant *)

Typed ==
    /\ turn \in TurnRecord /\ owned \in BOOLEAN /\ stream \in StreamRecord
    /\ log \in Seq(Entry)
    /\ pub \in Publisher /\ io \in IOState
    /\ term \in TermState
    /\ exec \in Executor
    /\ \A c \in late : c.call = "write" => c.op \in Write

(* Before the start fence nothing was written, so a requeue loses nothing. *)
Fenced ==
    /\ turn.status = "queued" => ~turn.begun
    /\ exec.pc = "starting" => ~turn.begun
    /\ exec.pc = "answering" => turn.begun
    /\ ~turn.begun => io.pc = "idle" /\ pub.ops = <<>>
    /\ ~turn.begun /\ ~Ended => log = <<>> /\ sent = {} /\ late = {}

(* A write under way is the head of the queue, or its turn was abandoned. *)
HeadIsBusy ==
    /\ pub.at = "abandoned" => pub.only /\ pub.blocked
    /\ io.pc # "idle" => \/ pub.at = "abandoned"
                         \/ pub.at = "open" /\ pub.busy /\ pub.ops # <<>>

(* The events of the end are delivered when no write is under way. *)
EndIsLast ==
    /\ exec.pc = "deliver" \/ (exec.pc = "finalize" /\ exec.publish) =>
          io.pc = "idle" /\ Drained
    /\ exec.pc = "deliver" => Ended /\ exec.next \in 1..Len(log)
    /\ term.pc # "idle" => exec.pc = "deliver" /\ term.seq = exec.next
    /\ term.pc \in {"send", "ack"} => term.seq < Len(log)

(* What an answer names is in the log. *)
AnswersAreDurable ==
    /\ stream.batchSeq <= Len(log)
    /\ io.pc \in {"send", "ack"} => io.ans.seq \in 1..Len(log)
    /\ io.pc = "reply" /\ io.ans.out \in {"persisted", "already_persisted"} =>
          io.ans.seq \in 1..Len(log)

(* Every event up to this one went to the channel. *)
Sent(n) == \A i \in 1..n : Event(i) \in sent

(* Outside reconcile-only mode the publisher knows that all it wrote was    *)
(* sent, but for the event it is sending.                                   *)
LiveMeansSent ==
    ~pub.only => \/ Sent(pub.durable)
                 \/ io.pc = "send" /\ pub.durable = io.ans.seq
                 \/ term.pc \in {"send", "sendDone"} /\ pub.durable = term.seq

(* So an acknowledgement is asked for only of what was sent. *)
AcksAreTrue ==
    /\ io.pc = "send" => Sent(io.ans.seq - 1)
    /\ io.pc = "ack" => Sent(io.ans.seq)
    /\ term.pc = "send" => Sent(term.seq - 1)
    /\ term.pc = "sendDone" /\ ~pub.only => Sent(term.seq - 1)
    /\ term.pc \in {"ack", "ackDone"} => Sent(term.seq)
    /\ \A c \in late : c.call = "ack" => c.seq \in 1..Len(log) /\ Sent(c.seq)

SentIsOfThisTurn == \A m \in sent : m.gen = turn.gen /\ m.seq \in 1..Len(log)

(* Kept apart: no step but those of the sweep depends on it. *)
SweepsTyped == closing \subseteq SweepCall

StreamInv ==
    /\ Typed
    /\ Fenced
    /\ HeadIsBusy
    /\ EndIsLast
    /\ AnswersAreDurable
    /\ SentIsOfThisTurn
    /\ LiveMeansSent
    /\ AcksAreTrue
    /\ ClearedMeansSent

-----------------------------------------------------------------------------
(* What the stored procedures do to the log *)

(* A write appends one entry and asks for reconciliation, or does nothing; *)
(* an answer of success names an entry of the log.                         *)
LEMMA PersistAppends ==
    ASSUME Typed, stream.batchSeq <= Len(log), NEW op \in Write, Persist(op)
    PROVE  /\ turn' = turn /\ owned' = owned
           /\ log' \in Seq(Entry) /\ stream' \in StreamRecord
           /\ stream'.batchSeq <= Len(log')
           /\ \/ log' = log /\ stream' = stream
              \/ Len(log') = Len(log) + 1 /\ stream'.required /\ Held
           /\ AnswerTo(op) \in Answer
           /\ AnswerTo(op).out \in {"persisted", "already_persisted"} =>
                AnswerTo(op).seq \in 1..Len(log')
<1> USE DEF Typed
<1>1. AnswerTo(op) \in Answer
  BY DEF AnswerTo, TextAnswer, SemanticAnswer, Appended, Refused, Refusal, Answer,
         Written, LastBatch, StreamRecord, None, Ended, Held
<1>2. CASE AnswerTo(op).out = "persisted"
  <2>1. /\ log' = Append(log, op) /\ UNCHANGED <<turn, owned>>
        /\ stream' = [text |-> op.to, required |-> TRUE,
                      batchSeq |-> IF op.kind = "text" THEN Len(log) + 1
                                                       ELSE stream.batchSeq]
    BY <1>2 DEF Persist
  <2>2. op \in Entry /\ op.to \in Texts
    BY DEF Write, Entry
  <2>3. log' \in Seq(Entry) /\ Len(log') = Len(log) + 1
    BY <2>1, <2>2, AppendProperties
  <2>4. Refusal = None
    BY <1>2 DEF AnswerTo, TextAnswer, SemanticAnswer, Refused, Refusal, None
  <2>5. Held
    BY <2>4 DEF Refusal, None
  <2>6. AnswerTo(op).seq = Len(log) + 1
    BY <1>2, <2>4 DEF AnswerTo, TextAnswer, SemanticAnswer, Appended, Refused
  <2>7. QED
    BY <1>1, <2>1, <2>2, <2>3, <2>5, <2>6 DEF StreamRecord
<1>3. CASE AnswerTo(op).out # "persisted"
  <2>1. UNCHANGED storeVars
    BY <1>3 DEF Persist, storeVars
  <2>2. ASSUME AnswerTo(op).out = "already_persisted"
        PROVE  AnswerTo(op).seq \in 1..Len(log)
    <3>1. CASE op.kind = "text"
      BY <2>2, <3>1 DEF AnswerTo, TextAnswer, Appended, Refused, Refusal, LastBatch,
                        StreamRecord, None
    <3>2. CASE op.kind # "text"
      BY <2>2, <3>2 DEF AnswerTo, SemanticAnswer, Appended, Refused, Refusal, Written,
                        None
    <3>3. QED
      BY <3>1, <3>2
  <2>3. QED
    BY <1>1, <1>3, <2>1, <2>2 DEF storeVars
<1>4. QED
  BY <1>2, <1>3

(* The end appends a few entries and asks for reconciliation. *)
LEMMA CloseAppends ==
    ASSUME Typed, NEW status \in Terminal, NEW text \in Texts, NEW k \in 0..2,
           Close(status, text, k)
    PROVE  /\ turn' = [turn EXCEPT !.status = status] /\ turn' \in TurnRecord
           /\ log' \in Seq(Entry) /\ Len(log') = Len(log) + k + 1
           /\ stream' \in StreamRecord /\ stream'.required
           /\ stream'.batchSeq = stream.batchSeq
<1> DEFINE events == [i \in 1..k |-> [kind |-> "semantic", id |-> 0, to |-> text]]
<1> USE DEF Typed
<1>1. events \in Seq(Entry) /\ Len(events) = k
  BY DEF Entry
<1>2. <<Done(text)>> \in Seq(Entry) /\ Len(<<Done(text)>>) = 1
  BY DEF Done, Entry
<1> HIDE DEF events
<1>3. log \o events \in Seq(Entry) /\ Len(log \o events) = Len(log) + k
  BY <1>1, ConcatProperties
<1>4. log' = (log \o events) \o <<Done(text)>>
  BY DEF Close, events
<1>5. log' \in Seq(Entry) /\ Len(log') = Len(log) + k + 1
  BY <1>2, <1>3, <1>4, ConcatProperties
<1>6. QED
  BY <1>5 DEF Close, TurnRecord, StreamRecord

-----------------------------------------------------------------------------
(* The worker's calls to the store *)

(* The states in which everything starts, and starts again after a crash *)
LEMMA RestingTyped ==
    /\ EmptyStream \in StreamRecord /\ <<>> \in Seq(Entry)
    /\ Absent \in Publisher /\ Abandoned \in Publisher
    /\ IOIdle \in IOState /\ TermIdle \in TermState
    /\ Idle \in Executor /\ [Idle EXCEPT !.pc = "starting"] \in Executor
<1>0. 0 \in Texts
  BY StreamAssumption DEF Texts
<1>1. EmptyStream \in StreamRecord /\ <<>> \in Seq(Entry)
  BY <1>0 DEF EmptyStream, StreamRecord
<1>2. Absent \in Publisher /\ Abandoned \in Publisher
  <2>1. Absent \in Publisher
    BY <1>0 DEF Absent, Publisher
  <2>2. QED
    BY <2>1 DEF Abandoned, Publisher
<1>3. IOIdle \in IOState /\ TermIdle \in TermState
  BY <1>0 DEF IOIdle, IOState, NoWrite, Write, Refused, Answer, TermIdle, TermState
<1>4. Idle \in Executor /\ [Idle EXCEPT !.pc = "starting"] \in Executor
  <2>1. Idle \in Executor
    BY <1>0 DEF Idle, Executor, Terminal
  <2>2. QED
    BY <2>1 DEF Executor
<1>5. QED
  BY <1>1, <1>2, <1>3, <1>4

(* Nothing was written or sent when a turn is admitted. *)
LEMMA InitEstablishes == Init => StreamInv
<1> SUFFICES ASSUME Init PROVE StreamInv
  OBVIOUS
<1> USE DEF Init, StoreInit, PublisherInit
<1>1. turn \in TurnRecord
  BY StreamAssumption DEF TurnRecord
<1>2. Typed
  BY <1>1, RestingTyped DEF Typed
<1>3. Fenced /\ HeadIsBusy /\ EndIsLast
  BY DEF Fenced, HeadIsBusy, EndIsLast, Absent, IOIdle, TermIdle, Idle
<1>4. AnswersAreDurable /\ SentIsOfThisTurn
  BY DEF AnswersAreDurable, SentIsOfThisTurn, EmptyStream, IOIdle
<1>5. LiveMeansSent /\ AcksAreTrue /\ ClearedMeansSent
  BY DEF LiveMeansSent, AcksAreTrue, ClearedMeansSent, Sent, Absent, IOIdle, TermIdle
<1>6. QED
  BY <1>2, <1>3, <1>4, <1>5 DEF StreamInv

(* The browser, the channel and calls that change nothing *)
LEMMA FramePreserves ==
    ASSUME StreamInv, UNCHANGED <<storeVars, workerVars, exec>>
    PROVE  StreamInv'
BY DEF StreamInv, Typed, Fenced, HeadIsBusy, EndIsLast, AnswersAreDurable,
       SentIsOfThisTurn, LiveMeansSent, AcksAreTrue, ClearedMeansSent, Sent, Event,
       Ended, Drained, storeVars, workerVars

(* What the publisher's steps make of its state *)
LEMMA AbsentAndAbandoned ==
    /\ Absent.at = "none" /\ Absent.ops = <<>> /\ Absent.durable = 0
    /\ Absent.only = FALSE /\ Absent.busy = FALSE
    /\ Abandoned.at = "abandoned" /\ Abandoned.ops = <<>> /\ Abandoned.durable = 0
    /\ Abandoned.only = TRUE /\ Abandoned.blocked = TRUE /\ Abandoned.busy = FALSE
<1>1. /\ Absent.at = "none" /\ Absent.ops = <<>> /\ Absent.durable = 0
      /\ Absent.only = FALSE /\ Absent.busy = FALSE
  BY DEF Absent
<1>2. Absent \in Publisher
  BY RestingTyped
<1>3. QED
  BY <1>1, <1>2 DEF Abandoned, Publisher

(* What the local operations of the publisher do to its modes. *)
LEMMA PublisherSteps ==
    ASSUME NEW p \in Publisher
    PROVE  /\ Rejected(p) \in Publisher /\ Rejected(p).only = TRUE
           /\ Rejected(p).at = p.at /\ Rejected(p).blocked = TRUE
           /\ Rejected(p).ops = <<>> /\ Rejected(p).busy = FALSE
           /\ ReconcileOnly(p) \in Publisher /\ ReconcileOnly(p).only = TRUE
           /\ ReconcileOnly(p).at = p.at /\ ReconcileOnly(p).blocked = p.blocked
           /\ ReconcileOnly(p).ops = p.ops /\ ReconcileOnly(p).busy = p.busy
           /\ ReconcileOnly(p).durable = p.durable
           /\ Completed(p) \in Publisher /\ Completed(p).only = p.only
           /\ Completed(p).at = p.at /\ Completed(p).blocked = p.blocked
           /\ Completed(p).durable = p.durable
           /\ Deferred(p) \in Publisher /\ Deferred(p).only = p.only
           /\ Deferred(p).at = p.at /\ Deferred(p).blocked = p.blocked
           /\ Deferred(p).durable = p.durable
           /\ Unregistered(p) \in {p, Absent, Abandoned}
<1> USE DEF Publisher
<1>1. /\ Rejected(p) \in Publisher /\ Rejected(p).only = TRUE
      /\ Rejected(p).at = p.at /\ Rejected(p).blocked = TRUE
      /\ Rejected(p).ops = <<>> /\ Rejected(p).busy = FALSE
  <2>1. <<>> \in Seq(Operation)
    OBVIOUS
  <2>2. Rejected(p) \in Publisher
    BY <2>1 DEF Rejected
  <2>3. QED
    BY <2>2 DEF Rejected
<1>2. /\ ReconcileOnly(p) \in Publisher /\ ReconcileOnly(p).only = TRUE
      /\ ReconcileOnly(p).at = p.at /\ ReconcileOnly(p).blocked = p.blocked
      /\ ReconcileOnly(p).ops = p.ops /\ ReconcileOnly(p).busy = p.busy
      /\ ReconcileOnly(p).durable = p.durable
  BY DEF ReconcileOnly
<1>3. /\ Completed(p) \in Publisher /\ Completed(p).only = p.only
      /\ Completed(p).at = p.at /\ Completed(p).blocked = p.blocked
      /\ Completed(p).durable = p.durable
  BY HeadTailProperties DEF Completed
<1>4. /\ Deferred(p) \in Publisher /\ Deferred(p).only = p.only
      /\ Deferred(p).at = p.at /\ Deferred(p).blocked = p.blocked
      /\ Deferred(p).durable = p.durable
  <2>1. p.ops # <<>> => [p.ops EXCEPT ![1].inFlight = FALSE] \in Seq(Operation)
    <3>1. ASSUME p.ops # <<>> PROVE 1 \in 1..Len(p.ops) /\ p.ops[1] \in Operation
      BY <3>1
    <3>2. ASSUME p.ops # <<>> PROVE [p.ops[1] EXCEPT !.inFlight = FALSE] \in Operation
      BY <3>1, <3>2 DEF Operation
    <3>3. QED
      BY <3>1, <3>2, ExceptSeq
  <2>2. QED
    BY <2>1 DEF Deferred
<1>5. Unregistered(p) \in {p, Absent, Abandoned}
  BY DEF Unregistered
<1>6. QED
  BY <1>1, <1>2, <1>3, <1>4, <1>5

(* The claim of the turn by an executor. *)
LEMMA ClaimPreserves == ASSUME StreamInv, Claim PROVE StreamInv'
<1> USE DEF Claim, ClaimTurn
<1>1. ~turn.begun /\ ~Ended /\ log = <<>> /\ sent = {} /\ late = {}
      /\ io.pc = "idle" /\ pub.ops = <<>> /\ term.pc = "idle"
  BY DEF StreamInv, Fenced, EndIsLast, Ended, Terminal
<1>2. Typed'
  <2>1. turn' \in TurnRecord
    <3>1. turn \in TurnRecord /\ turn.gen + 1 \in 0..MaxGenerations
      BY StreamAssumption DEF StreamInv, Typed, TurnRecord
    <3>2. QED
      BY <3>1 DEF TurnRecord
  <2>2. QED
    BY <2>1, RestingTyped DEF StreamInv, Typed, workerVars
<1>3. Fenced'
  BY <1>1 DEF StreamInv, Typed, TurnRecord, Fenced, Ended, Terminal, workerVars
<1>4. HeadIsBusy' /\ EndIsLast' /\ AnswersAreDurable' /\ SentIsOfThisTurn'
  BY <1>1 DEF StreamInv, HeadIsBusy, EndIsLast, AnswersAreDurable, SentIsOfThisTurn,
              Drained, EmptyStream, workerVars
<1>5. LiveMeansSent' /\ AcksAreTrue' /\ ClearedMeansSent'
  BY <1>1 DEF StreamInv, LiveMeansSent, AcksAreTrue, ClearedMeansSent, Sent, Event, workerVars
<1>6. QED
  BY <1>2, <1>3, <1>4, <1>5 DEF StreamInv

(* The turn is registered with the publisher before its start. *)
LEMMA PreparePreserves == ASSUME StreamInv, Prepare PROVE StreamInv'
<1> USE DEF StreamInv, Prepare, RegisterTurn
<1>1. /\ pub' \in Publisher /\ pub'.at = "open" /\ pub'.ops = <<>>
      /\ pub'.busy = FALSE /\ pub'.durable = 0
  BY RestingTyped, AbsentAndAbandoned DEF Publisher
<1>2. ~turn.begun /\ io.pc = "idle"
  BY DEF Fenced
<1>3. Typed' /\ Fenced' /\ HeadIsBusy'
  BY <1>1, <1>2 DEF Typed, Fenced, HeadIsBusy, Ended, storeVars
<1>4. EndIsLast' /\ AnswersAreDurable' /\ SentIsOfThisTurn'
  BY <1>1, <1>2 DEF EndIsLast, AnswersAreDurable, SentIsOfThisTurn, Ended, storeVars
<1>5. LiveMeansSent'
  BY <1>1 DEF LiveMeansSent, Sent
<1>6. AcksAreTrue' /\ ClearedMeansSent'
  BY <1>2 DEF AcksAreTrue, ClearedMeansSent, Sent, Event, EndIsLast, storeVars
<1>7. QED
  BY <1>3, <1>4, <1>5, <1>6

(* The start fence. *)
LEMMA BeginPreserves == ASSUME StreamInv, Begin PROVE StreamInv'
<1> USE DEF StreamInv, Begin, BeginTurn
<1>1. turn \in TurnRecord /\ exec \in Executor
  BY DEF Typed
<1>2. /\ turn' \in TurnRecord /\ turn'.begun = TRUE /\ turn'.gen = turn.gen
      /\ turn'.status = "running" /\ exec' \in Executor
      /\ exec'.pc \in {"answering", "recover"} /\ term.pc = "idle"
  BY <1>1 DEF TurnRecord, Executor, EndIsLast
<1>3. Typed' /\ Fenced' /\ HeadIsBusy'
  BY <1>1, <1>2 DEF Typed, Fenced, HeadIsBusy, workerVars
<1>4. EndIsLast' /\ AnswersAreDurable' /\ SentIsOfThisTurn'
  BY <1>2 DEF EndIsLast, AnswersAreDurable, SentIsOfThisTurn, workerVars
<1>5. LiveMeansSent' /\ AcksAreTrue' /\ ClearedMeansSent'
  BY <1>2 DEF LiveMeansSent, AcksAreTrue, ClearedMeansSent, Sent, Event, workerVars
<1>6. QED
  BY <1>3, <1>4, <1>5

-----------------------------------------------------------------------------
(* Answering *)

(* The publisher takes in more: nothing that was known of the log changes. *)
LEMMA TakesInPreserves ==
    ASSUME StreamInv, Awaited, pub.at = "open",
           UNCHANGED <<storeVars, io, term, sent, late>>,
           pub' \in Publisher, pub'.at = "open", pub'.durable = pub.durable,
           pub.only => pub'.only,
           exec' \in Executor, exec'.pc \in {"answering", "recover"}
    PROVE  StreamInv'
<1> USE DEF StreamInv
<1>1. io.pc = "idle" /\ term.pc = "idle" /\ turn.begun
  BY DEF Fenced, HeadIsBusy, EndIsLast, Awaited
<1>2. Typed' /\ Fenced' /\ HeadIsBusy'
  BY <1>1 DEF Typed, Fenced, HeadIsBusy, storeVars
<1>3. EndIsLast' /\ AnswersAreDurable' /\ SentIsOfThisTurn'
  BY <1>1 DEF EndIsLast, AnswersAreDurable, SentIsOfThisTurn, storeVars
<1>4. LiveMeansSent' /\ AcksAreTrue' /\ ClearedMeansSent'
  BY <1>1 DEF LiveMeansSent, AcksAreTrue, ClearedMeansSent, Sent, Event, storeVars
<1>5. QED
  BY <1>2, <1>3, <1>4

(* A chunk of text is queued. *)
LEMMA EmitTextPreserves == ASSUME StreamInv, EmitText PROVE StreamInv'
<1>1. /\ pub \in Publisher /\ exec \in Executor /\ pub.ops = <<>> /\ pub.at = "open"
      /\ exec.pc = "answering" /\ pub.text < MaxText
  BY DEF StreamInv, Typed, EmitText, Awaited, AppendText, Writable
<1>2. ~Merges
  BY <1>1 DEF Merges
<1>3. pub' = [pub EXCEPT !.text = @ + 1,
                !.ops = Append(@, [kind |-> "text", id |-> pub.text,
                                   to |-> pub.text + 1, inFlight |-> FALSE])]
  BY <1>2 DEF EmitText, AppendText
<1>4. [kind |-> "text", id |-> pub.text, to |-> pub.text + 1, inFlight |-> FALSE] \in Operation
  BY <1>1, StreamAssumption DEF Publisher, Operation, Texts
<1>5. pub' \in Publisher /\ pub'.at = "open" /\ pub'.durable = pub.durable /\ pub'.only = pub.only
  <2>1. Append(pub.ops, [kind |-> "text", id |-> pub.text, to |-> pub.text + 1,
                         inFlight |-> FALSE]) \in Seq(Operation)
    BY <1>1, <1>4 DEF Publisher
  <2>2. pub.text + 1 \in Texts
    BY <1>1, StreamAssumption DEF Publisher, Texts
  <2>3. pub' \in Publisher
    BY <1>1, <1>3, <2>1, <2>2 DEF Publisher
  <2>4. QED
    BY <1>1, <1>3, <2>3 DEF Publisher
<1>6. QED
  BY <1>1, <1>5, TakesInPreserves DEF EmitText

(* A semantic event is queued. *)
LEMMA EmitSemanticPreserves == ASSUME StreamInv, EmitSemantic PROVE StreamInv'
<1>1. PICK id \in 1..MaxSemantic : PublishSemantic(id)
  BY DEF EmitSemantic
<1>2. /\ pub \in Publisher /\ exec \in Executor /\ pub.at = "open"
      /\ exec.pc = "answering"
  BY <1>1 DEF StreamInv, Typed, EmitSemantic, Awaited, PublishSemantic, Writable
<1>3. [kind |-> "semantic", id |-> id, to |-> pub.text, inFlight |-> FALSE] \in Operation
  BY <1>2, StreamAssumption DEF Publisher, Operation
<1>4. pub' \in Publisher /\ pub'.at = "open" /\ pub'.durable = pub.durable /\ pub'.only = pub.only
  <2>1. Append(pub.ops, [kind |-> "semantic", id |-> id, to |-> pub.text,
                         inFlight |-> FALSE]) \in Seq(Operation)
    BY <1>2, <1>3 DEF Publisher
  <2>2. pub' \in Publisher
    BY <1>1, <1>2, <2>1 DEF PublishSemantic, Publisher
  <2>3. QED
    BY <1>1, <1>2, <2>2 DEF PublishSemantic, Publisher
<1>5. QED
  BY <1>2, <1>4, TakesInPreserves DEF EmitSemantic

(* A chunk beyond the limits ends the live stream. *)
LEMMA OverloadPreserves == ASSUME StreamInv, Overload PROVE StreamInv'
<1>1. /\ pub \in Publisher /\ exec \in Executor /\ pub.at = "open"
      /\ exec.pc = "answering" /\ pub.text + 1 \in Texts
  BY StreamAssumption DEF StreamInv, Typed, Overload, Awaited, OverloadText, Writable,
                          Publisher, Texts
<1>2. exec' \in Executor /\ exec'.pc = "recover"
  BY <1>1 DEF Overload, Executor
<1>3. pub' \in Publisher /\ pub'.at = "open" /\ pub'.only = TRUE /\ pub'.durable = pub.durable
  <2>1. Rejected(pub).durable = pub.durable
    BY <1>1 DEF Rejected, Publisher
  <2>2. pub' = [Rejected(pub) EXCEPT !.text = pub.text + 1]
    BY <1>1, PublisherSteps DEF Overload, OverloadText, Publisher, Rejected
  <2>3. Rejected(pub) \in Publisher /\ Rejected(pub).at = "open" /\ Rejected(pub).only = TRUE
    BY <1>1, PublisherSteps
  <2>4. QED
    BY <1>1, <2>1, <2>2, <2>3 DEF Publisher
<1>4. QED
  BY <1>1, <1>2, <1>3, TakesInPreserves DEF Overload

(* The answer breaks off. *)
LEMMA StopPreserves == ASSUME StreamInv, Stop PROVE StreamInv'
<1> USE DEF StreamInv, Stop
<1>1. exec' \in Executor /\ exec'.pc = "recover" /\ term.pc = "idle"
  BY DEF Typed, Executor, Publisher, EndIsLast
<1>2. Typed' /\ Fenced' /\ HeadIsBusy'
  BY <1>1 DEF Typed, Fenced, HeadIsBusy, storeVars, workerVars, Ended
<1>3. EndIsLast' /\ AnswersAreDurable' /\ SentIsOfThisTurn'
  BY <1>1 DEF EndIsLast, AnswersAreDurable, SentIsOfThisTurn, storeVars, workerVars
<1>4. LiveMeansSent' /\ AcksAreTrue' /\ ClearedMeansSent'
  BY DEF LiveMeansSent, AcksAreTrue, ClearedMeansSent, Sent, Event, storeVars, workerVars
<1>5. QED
  BY <1>2, <1>3, <1>4

-----------------------------------------------------------------------------
(* Ending *)

(* A step of the store that leaves the log alone: the job is settled, or the *)
(* turn is put back before its start.                                        *)
KeepsLog ==
    /\ turn' \in TurnRecord /\ owned' \in BOOLEAN
    /\ turn'.gen = turn.gen /\ turn'.begun = turn.begun
    /\ \/ turn'.status = turn.status
       \/ turn'.status = "queued" /\ ~turn.begun /\ ~Ended
    /\ UNCHANGED <<stream, log>>

(* A step of the store that ends the turn. *)
EndsTurn ==
    /\ turn' \in TurnRecord /\ owned' \in BOOLEAN
    /\ turn'.gen = turn.gen /\ turn'.begun = turn.begun
    /\ ~Ended /\ turn'.status \in Terminal
    /\ log' \in Seq(Entry) /\ Len(log') > Len(log)
    /\ stream' \in StreamRecord /\ stream'.required
    /\ stream'.batchSeq <= Len(log)

(* The procedures that settle the job or requeue the turn are of the first kind. *)
LEMMA StoreKeepsLog ==
    ASSUME Typed, SettleJob \/ RequeueTurn \/ UNCHANGED storeVars
    PROVE  KeepsLog
<1>1. CASE SettleJob \/ UNCHANGED storeVars
  BY <1>1 DEF Typed, SettleJob, KeepsLog, storeVars
<1>2. CASE RequeueTurn
  BY <1>2 DEF Typed, RequeueTurn, KeepsLog, TurnRecord, Ended, Terminal
<1>3. QED
  BY <1>1, <1>2

(* Closing a turn, with its extra events and done, is of the second. *)
LEMMA CloseEndsTurn ==
    ASSUME StreamInv, ~Ended, NEW status \in Terminal, NEW text \in Texts, NEW k \in 0..2,
           Close(status, text, k), owned' \in BOOLEAN
    PROVE  EndsTurn /\ Len(log') = Len(log) + k + 1
<1>1. Typed /\ stream.batchSeq <= Len(log) /\ Len(log) \in Nat
  BY DEF StreamInv, AnswersAreDurable, Typed
<1>2. /\ turn' = [turn EXCEPT !.status = status] /\ turn' \in TurnRecord
      /\ log' \in Seq(Entry) /\ Len(log') = Len(log) + k + 1
      /\ stream' \in StreamRecord /\ stream'.required
      /\ stream'.batchSeq = stream.batchSeq
  BY <1>1, CloseAppends
<1>3. QED
  BY <1>1, <1>2 DEF EndsTurn, Typed, TurnRecord

(* The executor is done with the turn: it forgets it, and so does the publisher. *)
LEMMA OverPreserves ==
    ASSUME StreamInv, KeepsLog \/ EndsTurn, Over(pub),
           exec.pc \in {"recover", "finalize", "settle"},
           UNCHANGED <<io, term, sent, late>>
    PROVE  StreamInv'
<1> USE DEF StreamInv
<1>1. term.pc = "idle" /\ exec' = Idle /\ Idle \in Executor /\ Idle.pc = "idle"
  BY RestingTyped DEF EndIsLast, Over, Idle
<1>2. \/ pub' = pub
      \/ pub' = Abandoned /\ pub.at = "open"
      \/ pub' = Absent /\ pub.at = "open" /\ Drained
  BY DEF Over, Unregistered
<1>3. /\ turn' \in TurnRecord /\ owned' \in BOOLEAN /\ stream' \in StreamRecord
      /\ log' \in Seq(Entry) /\ Len(log) \in Nat /\ Len(log') \in Nat
      /\ Len(log) <= Len(log') /\ stream'.batchSeq \in Nat /\ stream'.batchSeq <= Len(log)
      /\ turn'.gen = turn.gen /\ turn'.begun = turn.begun
      /\ turn'.status = "queued" => ~turn.begun
      /\ ~Ended' => ~Ended /\ log' = log
      /\ stream'.required \/ (stream' = stream /\ log' = log)
  BY DEF KeepsLog, EndsTurn, Typed, StreamRecord, Ended, Terminal, AnswersAreDurable,
         Fenced
<1>4. Typed'
  BY <1>1, <1>2, <1>3, RestingTyped DEF Typed
<1>5. Fenced'
  BY <1>1, <1>2, <1>3, AbsentAndAbandoned DEF Fenced
<1>6. HeadIsBusy'
  BY <1>2, AbsentAndAbandoned DEF HeadIsBusy, Drained
<1>7. EndIsLast' /\ AnswersAreDurable' /\ SentIsOfThisTurn'
  BY <1>1, <1>3 DEF EndIsLast, AnswersAreDurable, SentIsOfThisTurn
<1>8. LiveMeansSent'
  BY <1>1, <1>2, <1>3, AbsentAndAbandoned DEF LiveMeansSent, Sent, Event
<1>9. AcksAreTrue' /\ ClearedMeansSent'
  BY <1>1, <1>3 DEF AcksAreTrue, ClearedMeansSent, Sent, Event
<1>10. QED
  BY <1>4, <1>5, <1>6, <1>7, <1>8, <1>9

(* Before the call that closes the turn *)
LEMMA ClosingPreserves ==
    ASSUME StreamInv, exec.pc \in {"answering", "recover"},
           NEW status \in Terminal, NEW text \in Texts, NEW ks \in SUBSET (0..2),
           NEW publish \in BOOLEAN, publish => pub.at # "abandoned",
           Closing(status, text, ks, publish),
           UNCHANGED <<storeVars, io, term, sent, late>>
    PROVE  StreamInv'
<1> USE DEF StreamInv
<1>1. PICK k \in ks : exec' = [exec EXCEPT !.pc = "finalize", !.status = status,
         !.text = text, !.k = k, !.tried = FALSE, !.publish = publish /\ Drained]
  BY DEF Closing
<1>2. exec \in Executor /\ (publish /\ Drained) \in BOOLEAN /\ k \in 0..2
  BY DEF Typed
<1>3. exec' \in Executor
  BY <1>1, <1>2 DEF Executor
<1>4. exec'.pc = "finalize" /\ (exec'.publish => publish /\ Drained) /\ term.pc = "idle"
  BY <1>1, <1>2 DEF Executor, EndIsLast
<1>5. pub' = pub \/ (pub' = Abandoned /\ publish /\ ~Drained)
  BY DEF Closing
<1>6. Drained /\ pub.at # "abandoned" => io.pc = "idle"
  BY DEF HeadIsBusy, Drained
<1>7. Typed'
  BY <1>3, <1>5, RestingTyped DEF Typed, storeVars
<1>8. Fenced'
  BY <1>4, <1>5, AbsentAndAbandoned DEF Fenced, Ended, storeVars
<1>9. HeadIsBusy'
  BY <1>5, AbsentAndAbandoned DEF HeadIsBusy
<1>10. EndIsLast'
  BY <1>4, <1>5, <1>6 DEF EndIsLast, Drained
<1>11. AnswersAreDurable' /\ SentIsOfThisTurn'
  BY DEF AnswersAreDurable, SentIsOfThisTurn, storeVars
<1>12. LiveMeansSent'
  BY <1>4, <1>5, AbsentAndAbandoned DEF LiveMeansSent, Sent, Event, storeVars
<1>13. AcksAreTrue' /\ ClearedMeansSent'
  BY <1>4 DEF AcksAreTrue, ClearedMeansSent, Sent, Event, storeVars
<1>14. QED
  BY <1>7, <1>8, <1>9, <1>10, <1>11, <1>12, <1>13

(* The answer is complete and its finalization is prepared. *)
LEMMA FinishAnswerPreserves == ASSUME StreamInv, FinishAnswer PROVE StreamInv'
<1>1. exec.pc = "answering" /\ pub \in Publisher /\ pub.text \in Texts
  BY DEF StreamInv, Typed, FinishAnswer, Awaited, Publisher
<1>2. "completed" \in Terminal /\ {1, 2} \in SUBSET (0..2) /\ TRUE \in BOOLEAN
  BY DEF Terminal
<1>3. pub.at # "abandoned"
  BY DEF StreamInv, HeadIsBusy, FinishAnswer
<1>4. QED
  BY <1>1, <1>2, <1>3, ClosingPreserves DEF FinishAnswer

(* recover_agentic_chat_turn, answered or not. *)
LEMMA RecoverPreserves == ASSUME StreamInv, Recover PROVE StreamInv'
<1>1. exec.pc = "recover" /\ exec \in Executor /\ UNCHANGED <<io, term, sent, late>>
  BY DEF StreamInv, Typed, Recover
<1>2. CASE (SettleJob \/ RequeueTurn \/ UNCHANGED storeVars) /\ Over(pub)
  BY <1>1, <1>2, StoreKeepsLog, OverPreserves DEF StreamInv
<1>3. ASSUME NEW status \in Terminal, UNCHANGED storeVars,
             Closing(status, exec.text, Extras(status), pub.at = "open")
      PROVE  StreamInv'
  <2>1. Extras(status) \in SUBSET (0..2)
    BY DEF Extras
  <2>2. exec.text \in Texts /\ (pub.at = "open") \in BOOLEAN
    BY <1>1 DEF Executor
  <2>3. QED
    BY <1>1, <1>3, <2>1, <2>2, ClosingPreserves
<1>4. QED
  BY <1>2, <1>3 DEF Recover, storeVars, Terminal

(* The call that closes the turn *)
LEMMA EndsTurnPreserves ==
    ASSUME StreamInv, EndsTurn, UNCHANGED workerVars,
           exec' \in Executor, exec'.pc \notin {"starting", "answering"},
           \/ exec'.pc \notin {"deliver", "finalize"}
           \/ exec.pc = "finalize" /\ exec.publish /\ exec'.next \in 1..Len(log')
           \/ exec'.pc = "finalize" /\ exec.pc = "finalize" /\ exec'.publish = exec.publish
    PROVE  StreamInv'
<1> USE DEF StreamInv, EndsTurn, workerVars
<1>1. /\ Ended' /\ term.pc = "idle" /\ turn'.status # "queued"
      /\ Len(log) \in Nat /\ Len(log') \in Nat
  BY DEF EndIsLast, Ended, Terminal, Typed
<1>2. Typed'
  BY DEF Typed
<1>3. Fenced' /\ HeadIsBusy'
  BY <1>1 DEF Fenced, HeadIsBusy
<1>4. EndIsLast'
  BY <1>1 DEF EndIsLast, Drained
<1>5. AnswersAreDurable' /\ SentIsOfThisTurn'
  <2>1. stream'.batchSeq \in Nat
    BY DEF StreamRecord
  <2>2. AnswersAreDurable'
    BY <1>1, <2>1 DEF AnswersAreDurable
  <2>3. SentIsOfThisTurn'
    BY <1>1 DEF SentIsOfThisTurn
  <2>4. QED
    BY <2>2, <2>3
<1>6. LiveMeansSent'
  BY <1>1 DEF LiveMeansSent, Sent, Event
<1>7. AcksAreTrue'
  BY <1>1 DEF AcksAreTrue, Sent, Event
<1>8. ClearedMeansSent'
  BY DEF ClearedMeansSent
<1>9. QED
  BY <1>2, <1>3, <1>4, <1>5, <1>6, <1>7, <1>8

(* An executor that waits to close its turn again, or that recovers it *)
LEMMA WaitsPreserves ==
    ASSUME StreamInv, UNCHANGED <<storeVars, workerVars>>, exec' \in Executor,
           \/ exec'.pc \in {"recover", "settle"}
           \/ exec'.pc = "finalize" /\ exec.pc = "finalize" /\ exec'.publish = exec.publish,
           term.pc = "idle"
    PROVE  StreamInv'
BY DEF StreamInv, Typed, Fenced, HeadIsBusy, EndIsLast, AnswersAreDurable,
       SentIsOfThisTurn, LiveMeansSent, AcksAreTrue, ClearedMeansSent, Sent, Event,
       Ended, Drained, storeVars, workerVars

(* finalize_agentic_chat_turn, answered. *)
LEMMA FinalizePreserves == ASSUME StreamInv, Finalize PROVE StreamInv'
<1>1. /\ exec.pc = "finalize" /\ exec \in Executor /\ exec.status \in Terminal
      /\ exec.text \in Texts /\ exec.k \in 0..2 /\ term.pc = "idle"
      /\ UNCHANGED workerVars /\ owned' = owned /\ Len(log) \in Nat
  BY DEF StreamInv, Typed, Executor, Finalize, FinalizeTurn, EndIsLast
<1>2. CASE FinalizeAnswer(exec.status, exec.text) = "finalized"
  <2>1. ~Ended /\ Close(exec.status, exec.text, exec.k)
    BY <1>2 DEF Finalize, FinalizeTurn, FinalizeAnswer
  <2>2. EndsTurn /\ Len(log') = Len(log) + exec.k + 1
    BY <1>1, <2>1, CloseEndsTurn DEF StreamInv, Typed
  <2>3. exec' = [exec EXCEPT !.pc = IF exec.publish THEN "deliver" ELSE "settle",
                             !.next = Len(log) + 1]
    BY <1>2 DEF Finalize
  <2>4. /\ exec' \in Executor /\ exec'.next \in 1..Len(log')
        /\ exec'.pc = "settle" \/ (exec'.pc = "deliver" /\ exec.publish)
    <3>1. Len(log) + 1 \in 1..Len(log') /\ Len(log) + 1 \in Nat
      BY <1>1, <2>2
    <3>2. CASE exec.publish
      <4>1. exec' = [exec EXCEPT !.pc = "deliver", !.next = Len(log) + 1]
        BY <2>3, <3>2
      <4>2. QED
        BY <1>1, <3>1, <3>2, <4>1 DEF Executor
    <3>3. CASE ~exec.publish
      <4>1. exec' = [exec EXCEPT !.pc = "settle", !.next = Len(log) + 1]
        BY <2>3, <3>3
      <4>2. QED
        BY <1>1, <3>1, <4>1 DEF Executor
    <3>4. QED
      BY <3>2, <3>3
  <2>5. QED
    BY <1>1, <2>2, <2>4, EndsTurnPreserves
<1>3. CASE FinalizeAnswer(exec.status, exec.text) \in {"already_terminal", "cancel_requested"}
  <2>1. UNCHANGED storeVars
    BY <1>1, <1>3 DEF Finalize, FinalizeTurn, storeVars
  <2>2. \/ exec' = [exec EXCEPT !.pc = "settle"]
        \/ exec' = [exec EXCEPT !.pc = "recover", !.started = FALSE]
    BY <1>3 DEF Finalize
  <2>3. exec' \in Executor /\ exec'.pc \in {"recover", "settle"}
    BY <1>1, <2>2 DEF Executor
  <2>4. QED
    BY <1>1, <2>1, <2>3, WaitsPreserves
<1>4. QED
  <2>1. FinalizeAnswer(exec.status, exec.text) \in
          {"already_terminal", "cancel_requested", "raised", "finalized"}
    BY DEF FinalizeAnswer, StreamInv, Typed, Ended
  <2>2. QED
    BY <1>2, <1>3, <2>1 DEF Finalize

(* Whoever calls finalize, it ends the turn or changes nothing. *)
LEMMA FinalizeEndsOrNot ==
    ASSUME StreamInv, NEW status \in Terminal, NEW text \in Texts, NEW k \in 0..2,
           FinalizeTurn(status, text, k)
    PROVE  UNCHANGED storeVars \/ EndsTurn
<1>1. CASE FinalizeAnswer(status, text) = "finalized"
  <2>1. ~Ended /\ Close(status, text, k) /\ owned' \in BOOLEAN
    BY <1>1 DEF FinalizeTurn, FinalizeAnswer, StreamInv, Typed
  <2>2. QED
    BY <2>1, CloseEndsTurn DEF StreamInv
<1>2. CASE FinalizeAnswer(status, text) # "finalized"
  BY <1>2 DEF FinalizeTurn, storeVars
<1>3. QED
  BY <1>1, <1>2

(* finalize_agentic_chat_turn, given up on. *)
LEMMA FinalizeFailsPreserves == ASSUME StreamInv, FinalizeFails PROVE StreamInv'
<1>1. /\ exec.pc = "finalize" /\ exec \in Executor /\ exec.status \in Terminal
      /\ exec.text \in Texts /\ exec.k \in 0..2 /\ term.pc = "idle"
      /\ UNCHANGED <<io, term, sent, late>>
  BY DEF StreamInv, Typed, Executor, FinalizeFails, EndIsLast
<1>2. UNCHANGED storeVars \/ EndsTurn
  BY <1>1, FinalizeEndsOrNot DEF FinalizeFails, storeVars
<1>3. CASE exec.k = 2
  <2>1. UNCHANGED workerVars
    BY <1>1, <1>3 DEF FinalizeFails, workerVars
  <2>2. exec' \in Executor /\ exec'.pc = "finalize" /\ exec'.publish = exec.publish
    <3> DEFINE k == IF exec.status = "completed" THEN 1 ELSE 0
    <3>1. exec' = [exec EXCEPT !.tried = TRUE, !.k = k] /\ k \in 0..2
      BY <1>3 DEF FinalizeFails
    <3> HIDE DEF k
    <3>2. QED
      BY <1>1, <3>1 DEF Executor
  <2>3. QED
    BY <1>1, <1>2, <2>1, <2>2, WaitsPreserves, EndsTurnPreserves
<1>4. CASE exec.k # 2
  <2>1. Over(pub)
    BY <1>4 DEF FinalizeFails
  <2>2. KeepsLog \/ EndsTurn
    BY <1>2, StoreKeepsLog DEF StreamInv
  <2>3. QED
    BY <1>1, <2>1, <2>2, OverPreserves
<1>5. QED
  BY <1>3, <1>4

(* The job is completed and the executor rests. *)
LEMMA SettlePreserves == ASSUME StreamInv, Settle PROVE StreamInv'
<1>1. KeepsLog
  BY StoreKeepsLog DEF StreamInv, Settle
<1>2. QED
  BY <1>1, OverPreserves DEF Settle

-----------------------------------------------------------------------------
(* The sweep, the user, a crash *)

(* The store alone changes: no log entry is lost, and done comes last. *)
LEMMA StorePreserves ==
    ASSUME StreamInv, KeepsLog \/ EndsTurn, UNCHANGED <<workerVars, exec>>
    PROVE  StreamInv'
<1> USE DEF StreamInv, workerVars
<1>1. /\ turn' \in TurnRecord /\ owned' \in BOOLEAN /\ stream' \in StreamRecord
      /\ log' \in Seq(Entry) /\ Len(log) \in Nat /\ Len(log') \in Nat
      /\ Len(log) <= Len(log') /\ stream'.batchSeq \in Nat /\ stream'.batchSeq <= Len(log)
      /\ turn'.gen = turn.gen /\ turn'.begun = turn.begun
      /\ turn'.status = "queued" => ~turn.begun
      /\ ~Ended' => ~Ended /\ log' = log
      /\ stream'.required \/ (stream' = stream /\ log' = log)
      /\ Ended => Ended' /\ log' = log
  BY DEF KeepsLog, EndsTurn, Typed, StreamRecord, Ended, Terminal, AnswersAreDurable,
         Fenced
<1>2. Typed' /\ Fenced' /\ HeadIsBusy'
  BY <1>1 DEF Typed, Fenced, HeadIsBusy
<1>3. EndIsLast'
  BY <1>1 DEF EndIsLast, Drained
<1>4. AnswersAreDurable' /\ SentIsOfThisTurn'
  BY <1>1 DEF AnswersAreDurable, SentIsOfThisTurn
<1>5. LiveMeansSent'
  BY <1>1 DEF LiveMeansSent, Sent, Event
<1>6. AcksAreTrue' /\ ClearedMeansSent'
  BY <1>1 DEF AcksAreTrue, ClearedMeansSent, Sent, Event
<1>7. QED
  BY <1>2, <1>3, <1>4, <1>5, <1>6

(* The stalled-turn sweep puts a turn back or settles its job. *)
LEMMA SweepPreserves == ASSUME StreamInv, Sweep PROVE StreamInv'
BY StoreKeepsLog, StorePreserves DEF Sweep, StreamInv

(* It reads, and what it reads is of its type. *)
LEMMA SweepReadsPreserves ==
    ASSUME StreamInv, SweepsTyped, SweepReads
    PROVE  StreamInv' /\ SweepsTyped'
<1>1. StreamInv'
  BY FramePreserves DEF SweepReads
<1>2. /\ turn.gen \in 0..MaxGenerations /\ stream.text \in Texts
      /\ (IF turn.cancel THEN "cancelled" ELSE "failed") \in {"failed", "cancelled"}
  BY DEF StreamInv, Typed, TurnRecord, StreamRecord
<1>3. QED
  BY <1>1, <1>2 DEF SweepReads, SweepsTyped, SweepCall

(* It ends a turn whose executor is gone, or changes nothing. *)
LEMMA SweepClosesPreserves ==
    ASSUME StreamInv, SweepsTyped, SweepCloses
    PROVE  StreamInv' /\ SweepsTyped'
<1> PICK c \in closing :
      /\ closing' = closing \ {c}
      /\ \/ FinalizeTurn(c.status, c.text, 0)
         \/ UNCHANGED storeVars
  BY DEF SweepCloses
<1>1. c.status \in Terminal /\ c.text \in Texts /\ 0 \in 0..2
  BY DEF SweepsTyped, SweepCall, Terminal
<1>2. UNCHANGED <<workerVars, exec>> /\ SweepsTyped'
  BY DEF SweepCloses, SweepsTyped
<1>3. CASE FinalizeTurn(c.status, c.text, 0)
  <2>1. KeepsLog \/ EndsTurn
    BY <1>1, <1>3, FinalizeEndsOrNot, StoreKeepsLog DEF StreamInv
  <2>2. QED
    BY <1>2, <2>1, StorePreserves
<1>4. CASE UNCHANGED storeVars
  BY <1>2, <1>4, FramePreserves
<1>5. QED
  BY <1>3, <1>4

(* The user cancels the turn, queued or running. *)
LEMMA UserCancelsPreserves == ASSUME StreamInv, UserCancels PROVE StreamInv'
<1>1. UNCHANGED <<workerVars, exec>> /\ RequestCancel
  BY DEF UserCancels
<1>2. CASE turn.status = "queued"
  <2>1. /\ turn' = [turn EXCEPT !.status = "cancelled", !.cancel = TRUE]
        /\ log' = <<Done(0)>> /\ owned' = owned
        /\ stream' = [stream EXCEPT !.text = 0, !.required = TRUE]
    BY <1>1, <1>2 DEF RequestCancel
  <2>2. log = <<>> /\ ~Ended
    BY <1>2 DEF StreamInv, Fenced, Ended, Terminal
  <2>3. 0 \in Texts /\ Done(0) \in Entry
    BY StreamAssumption DEF Texts, Done, Entry
  <2>4. log' \in Seq(Entry) /\ Len(log') = 1 /\ Len(log) = 0
    BY <2>1, <2>2, <2>3
  <2>5. /\ stream' \in StreamRecord /\ stream'.required
        /\ stream'.batchSeq = stream.batchSeq /\ stream.batchSeq <= Len(log)
    BY <2>1, <2>3 DEF StreamInv, Typed, StreamRecord, AnswersAreDurable
  <2>6. /\ turn' \in TurnRecord /\ turn'.status \in Terminal
        /\ turn'.gen = turn.gen /\ turn'.begun = turn.begun
    BY <2>1 DEF StreamInv, Typed, TurnRecord, Terminal
  <2>7. EndsTurn
    BY <2>1, <2>2, <2>4, <2>5, <2>6 DEF EndsTurn, StreamInv, Typed
  <2>8. QED
    BY <1>1, <2>7, StorePreserves
<1>3. CASE turn.status = "running"
  <2>1. KeepsLog
    BY <1>1, <1>3 DEF RequestCancel, KeepsLog, StreamInv, Typed, TurnRecord
  <2>2. QED
    BY <1>1, <2>1, StorePreserves
<1>4. QED
  BY <1>1, <1>2, <1>3 DEF RequestCancel

(* The worker crashes, and its publisher with it. *)
LEMMA CrashPreserves == ASSUME StreamInv, Crash PROVE StreamInv'
<1> USE DEF StreamInv, Crash, storeVars
<1>1. /\ exec' = Idle /\ io' = IOIdle /\ term' = TermIdle /\ pub' = Absent
      /\ Idle.pc = "idle" /\ IOIdle.pc = "idle" /\ TermIdle.pc = "idle"
  BY DEF Idle, IOIdle, TermIdle
<1>2. \/ late' = late
      \/ late' = late \cup {[call |-> "write", op |-> io.op]} /\ turn.begun
  BY DEF Fenced
<1>3. Typed'
  BY <1>1, <1>2, RestingTyped DEF Typed, IOState
<1>4. Fenced' /\ HeadIsBusy' /\ EndIsLast'
  BY <1>1, <1>2, AbsentAndAbandoned DEF Fenced, HeadIsBusy, EndIsLast, Ended
<1>5. AnswersAreDurable' /\ SentIsOfThisTurn'
  BY <1>1 DEF AnswersAreDurable, SentIsOfThisTurn
<1>6. LiveMeansSent' /\ AcksAreTrue' /\ ClearedMeansSent'
  BY <1>1, <1>2, AbsentAndAbandoned
     DEF LiveMeansSent, AcksAreTrue, ClearedMeansSent, Sent, Event
<1>7. QED
  BY <1>3, <1>4, <1>5, <1>6

-----------------------------------------------------------------------------
(* What went to the channel, and what is known of it *)

(* An acknowledgement that is true clears the flag only if all was sent. *)
LEMMA AcknowledgePreserves ==
    ASSUME StreamInv, NEW seq \in 1..Len(log), Sent(seq), Acknowledge(seq)
    PROVE  /\ UNCHANGED <<turn, owned, log>>
           /\ stream' \in StreamRecord /\ stream'.batchSeq = stream.batchSeq
           /\ stream'.required \/ (\A i \in 1..Len(log) : Event(i) \in sent)
<1>1. AckAnswer(seq) = "acknowledged" => seq = Len(log)
  BY DEF AckAnswer, StreamInv, Typed
<1>2. stream \in StreamRecord /\ (stream.required /\ AckAnswer(seq) # "acknowledged") \in BOOLEAN
  BY DEF StreamInv, Typed, StreamRecord
<1>3. stream' \in StreamRecord /\ stream'.batchSeq = stream.batchSeq
      /\ stream'.required = (stream.required /\ AckAnswer(seq) # "acknowledged")
  BY <1>2 DEF Acknowledge, StreamRecord
<1>4. QED
  BY <1>1, <1>3 DEF Acknowledge, Sent, StreamInv, ClearedMeansSent

(* A hint replaces an older hint; no event is taken back. *)
LEMMA HintKeepsEvents ==
    ASSUME StreamInv, NEW seq \in 1..Len(log), MaybeHint(seq), turn' = turn, log' = log
    PROVE  /\ SentIsOfThisTurn'
           /\ \A i \in Nat : Event(i) \in sent => Event(i) \in sent'
BY DEF MaybeHint, Hint, Event, StreamInv, SentIsOfThisTurn

(* The next event of the end is taken up for delivery. *)
LEMMA DeliverNextPreserves == ASSUME StreamInv, DeliverNext PROVE StreamInv'
<1> DEFINE fits == Drained /\ exec.next = pub.durable + 1
           last == exec.next = Len(log)
           next == [pub EXCEPT !.durable = exec.next]
<1>1. /\ exec.pc = "deliver" /\ term.pc = "idle" /\ io.pc = "idle" /\ Drained /\ Ended
      /\ exec.next \in 1..Len(log) /\ Len(log) \in Nat /\ exec \in Executor
      /\ pub \in Publisher /\ exec.next \in Nat
      /\ UNCHANGED <<storeVars, io, late>>
  BY DEF StreamInv, EndIsLast, Typed, DeliverNext, Delivering
<1>2. next \in Publisher /\ next.durable = exec.next /\ next.only = pub.only
      /\ next.at = pub.at /\ next.ops = pub.ops /\ next.busy = pub.busy
      /\ next.blocked = pub.blocked
  BY <1>1 DEF Publisher
<1>3. [exec EXCEPT !.pc = "settle"] \in Executor
      /\ [exec EXCEPT !.pc = "settle"].pc = "settle"
  BY <1>1 DEF Executor
<1> HIDE DEF next
<1>4. CASE UNCHANGED <<term, sent>> /\ Settling /\ (pub' = pub \/ pub' = Rejected(pub))
  <2>1. pub' \in Publisher
    BY <1>1, <1>4, PublisherSteps
  <2>2. Typed' /\ Fenced'
    <3>1. exec' \in Executor /\ exec'.pc = "settle"
      BY <1>3, <1>4 DEF Settling
    <3>2. Typed'
      BY <1>1, <1>4, <2>1, <3>1 DEF StreamInv, Typed, storeVars
    <3>3. pub'.ops = <<>> \/ pub'.ops = pub.ops
      <4>1. Rejected(pub).ops = <<>>
        BY <1>1, PublisherSteps
      <4>2. QED
        BY <1>4, <4>1
    <3>4. Fenced'
      BY <1>1, <1>4, <3>1, <3>3 DEF StreamInv, Fenced, Ended, storeVars
    <3>5. QED
      BY <3>2, <3>4
  <2>3. HeadIsBusy' /\ EndIsLast' /\ AnswersAreDurable' /\ SentIsOfThisTurn'
    BY <1>1, <1>3, <1>4, PublisherSteps
       DEF StreamInv, HeadIsBusy, EndIsLast, AnswersAreDurable, SentIsOfThisTurn,
           Settling, storeVars
  <2>4. LiveMeansSent'
    BY <1>1, <1>4, PublisherSteps DEF StreamInv, LiveMeansSent, Sent, Event, storeVars
  <2>5. AcksAreTrue' /\ ClearedMeansSent'
    BY <1>1, <1>4 DEF StreamInv, AcksAreTrue, ClearedMeansSent, Sent, Event, storeVars
  <2>6. QED
    BY <2>2, <2>3, <2>4, <2>5 DEF StreamInv
<1>5. CASE pub' = next /\ pub.only /\ MaybeHint(exec.next) /\ Settling /\ term' = term
  <2>1. /\ SentIsOfThisTurn'
        /\ \A i \in Nat : Event(i) \in sent => Event(i) \in sent'
    BY <1>1, <1>5, HintKeepsEvents DEF storeVars
  <2>2. Typed' /\ Fenced'
    <3>1. exec' \in Executor /\ exec'.pc = "settle"
      BY <1>3, <1>5 DEF Settling
    <3>2. Typed'
      BY <1>1, <1>2, <1>5, <3>1 DEF StreamInv, Typed, storeVars
    <3>3. Fenced'
      BY <1>1, <1>2, <1>5, <3>1 DEF StreamInv, Fenced, Ended, storeVars
    <3>4. QED
      BY <3>2, <3>3
  <2>3. HeadIsBusy' /\ EndIsLast' /\ AnswersAreDurable'
    BY <1>1, <1>2, <1>3, <1>5
       DEF StreamInv, HeadIsBusy, EndIsLast, AnswersAreDurable, Settling, storeVars
  <2>4. LiveMeansSent'
    BY <1>2, <1>5 DEF LiveMeansSent
  <2>5. AcksAreTrue' /\ ClearedMeansSent'
    BY <1>1, <1>5, <2>1 DEF StreamInv, AcksAreTrue, ClearedMeansSent, Sent, Event, storeVars
  <2>6. QED
    BY <2>1, <2>2, <2>3, <2>4, <2>5 DEF StreamInv
<1>6. CASE fits /\ (last \/ ~pub.only) /\ pub' = next /\ UNCHANGED <<sent, exec>>
           /\ term' = [pc |-> IF last THEN "sendDone" ELSE "send", seq |-> exec.next]
  <2>1. /\ term'.pc \in {"send", "sendDone"} /\ term'.seq = exec.next
        /\ term'.pc = "send" => ~last /\ ~pub.only
        /\ term' \in TermState
    BY <1>1, <1>6 DEF TermState
  <2>2. Typed' /\ Fenced'
    BY <1>1, <1>2, <1>6, <2>1 DEF StreamInv, Typed, Fenced, Ended, storeVars
  <2>3. HeadIsBusy' /\ EndIsLast' /\ AnswersAreDurable' /\ SentIsOfThisTurn'
    BY <1>1, <1>2, <1>6, <2>1
       DEF StreamInv, HeadIsBusy, EndIsLast, AnswersAreDurable, SentIsOfThisTurn,
           Drained, Ended, storeVars
  <2>4. LiveMeansSent'
    BY <1>2, <1>6, <2>1 DEF LiveMeansSent
  <2>5. ~pub.only => Sent(exec.next - 1)
    BY <1>1, <1>6 DEF StreamInv, LiveMeansSent, Publisher
  <2>6. AcksAreTrue' /\ ClearedMeansSent'
    BY <1>1, <1>2, <1>6, <2>1, <2>5
       DEF StreamInv, AcksAreTrue, ClearedMeansSent, Sent, Event, storeVars
  <2>7. QED
    BY <2>2, <2>3, <2>4, <2>6 DEF StreamInv
<1>7. QED
  BY <1>4, <1>5, <1>6 DEF DeliverNext, next

(* An executor that has delivered an event, or done, or gives up on it *)
LEMMA DeliversTyped ==
    ASSUME Typed
    PROVE  /\ Delivers("event") \in Executor
           /\ Delivers("event").next = exec.next + 1
           /\ Delivers("event").pc = exec.pc
           /\ Delivers("done") \in Executor /\ Delivers("done").pc = "settle"
           /\ [exec EXCEPT !.pc = "settle"] \in Executor
           /\ [exec EXCEPT !.pc = "settle"].pc = "settle"
<1>1. exec \in Executor /\ exec.next + 1 \in Nat
  BY DEF Typed, Executor
<1>2. Delivers("event") = [exec EXCEPT !.next = exec.next + 1, !.pc = exec.pc]
  BY DEF Delivers
<1>3. Delivers("done") = [exec EXCEPT !.next = exec.next + 1, !.pc = "settle"]
  BY DEF Delivers
<1>4. Delivers("event") \in Executor /\ Delivers("done") \in Executor
  BY <1>1, <1>2, <1>3 DEF Executor
<1>5. QED
  BY <1>1, <1>2, <1>3, <1>4 DEF Executor

(* Sending the next event extends what was sent. *)
LEMMA SentNext ==
    ASSUME NEW n \in Nat \ {0}, Sent(n - 1), sent' = sent \cup {Event(n)}, turn' = turn
    PROVE  \A i \in 1..n : Event(i)' \in sent'
<1> TAKE i \in 1..n
<1>1. Event(i)' = Event(i)
  BY DEF Event
<1>2. CASE i = n
  BY <1>1, <1>2
<1>3. CASE i # n
  BY <1>1, <1>3 DEF Sent
<1>4. QED
  BY <1>2, <1>3

(* It stays sent when more is. *)
LEMMA SentStays ==
    ASSUME NEW n, Sent(n), sent \subseteq sent', turn' = turn
    PROVE  \A i \in 1..n : Event(i)' \in sent'
<1>1. \A i : Event(i)' = Event(i)
  BY DEF Event
<1>2. QED
  BY <1>1 DEF Sent

(* An event of the end is broadcast. *)
LEMMA TerminalBroadcastsPreserves == ASSUME StreamInv, TerminalBroadcasts PROVE StreamInv'
<1> USE DEF StreamInv, TerminalBroadcasts
<1>1. /\ exec.pc = "deliver" /\ io.pc = "idle" /\ Drained /\ Ended /\ term \in TermState
      /\ exec.next \in 1..Len(log) /\ Len(log) \in Nat /\ term.seq = exec.next
      /\ sent' = sent \cup {Event(term.seq)} /\ UNCHANGED <<storeVars, pub, io, late>>
      /\ term.pc \in {"send", "sendDone"}
  BY DEF EndIsLast, Typed
<1>2. \/ /\ term.pc = "sendDone" /\ pub.only /\ term' = TermIdle /\ exec' = Delivers("done")
      \/ /\ term.pc = "send" /\ term' = [term EXCEPT !.pc = "ack"] /\ exec' = exec
      \/ /\ term.pc = "sendDone" /\ ~pub.only
         /\ term' = [term EXCEPT !.pc = "ackDone"] /\ exec' = exec
  BY <1>1
<1>3. exec' \in Executor /\ (exec' = exec \/ exec'.pc = "settle")
  BY <1>2, DeliversTyped DEF Typed
<1>4. term' \in TermState /\ term'.pc \in {"idle", "ack", "ackDone"}
  BY <1>1, <1>2, RestingTyped DEF TermState, TermIdle
<1>5. Typed'
  BY <1>1, <1>3, <1>4 DEF Typed, storeVars
<1>6. Fenced' /\ HeadIsBusy' /\ AnswersAreDurable'
  BY <1>1, <1>3 DEF Fenced, HeadIsBusy, AnswersAreDurable, Ended, storeVars
<1>7. /\ term'.pc # "idle" => exec' = exec /\ term'.seq = term.seq
      /\ term'.pc = "ack" => term.pc = "send"
      /\ term'.pc = "ackDone" => term.pc = "sendDone" /\ ~pub.only
  BY <1>1, <1>2 DEF TermState, TermIdle
<1>8. EndIsLast'
  BY <1>1, <1>3, <1>4, <1>7 DEF EndIsLast, Drained, Ended, storeVars
<1>9. SentIsOfThisTurn'
  BY <1>1 DEF SentIsOfThisTurn, Event, storeVars
<1>10. Sent(term.seq - 1) => \A i \in 1..term.seq : Event(i)' \in sent'
  <2>1. term.seq \in Nat \ {0} /\ turn' = turn
    BY <1>1 DEF storeVars
  <2>2. QED
    BY <1>1, <2>1, SentNext
<1>11. LiveMeansSent'
  <2>1. \/ pub.only \/ Sent(pub.durable)
        \/ pub.durable = term.seq /\ Sent(term.seq - 1)
    BY <1>1 DEF LiveMeansSent, AcksAreTrue
  <2>2. turn' = turn /\ sent \subseteq sent' /\ pub' = pub
    BY <1>1 DEF storeVars
  <2>3. Sent(pub.durable) => \A i \in 1..pub.durable : Event(i)' \in sent'
    BY <2>2, SentStays
  <2>4. pub.only \/ \A i \in 1..pub.durable : Event(i)' \in sent'
    BY <1>10, <2>1, <2>3
  <2>5. QED
    BY <2>2, <2>4 DEF LiveMeansSent, Sent
<1>12. AcksAreTrue'
  <2>1. term'.pc \in {"ack", "ackDone"} => \A i \in 1..term'.seq : Event(i)' \in sent'
    BY <1>1, <1>4, <1>7, <1>10 DEF AcksAreTrue
  <2>2. \A c \in late' : c.call = "ack" =>
          c.seq \in 1..Len(log)' /\ \A i \in 1..c.seq : Event(i)' \in sent'
    BY <1>1 DEF AcksAreTrue, Sent, Event, storeVars
  <2>3. io'.pc = "idle" /\ term'.pc \in {"idle", "ack", "ackDone"}
    BY <1>1, <1>4
  <2>4. QED
    BY <2>1, <2>2, <2>3 DEF AcksAreTrue, Sent
<1>13. ClearedMeansSent'
  BY <1>1 DEF ClearedMeansSent, Event, storeVars
<1>14. QED
  BY <1>5, <1>6, <1>8, <1>9, <1>11, <1>12, <1>13

(* The broadcast of an event of the end fails. *)
LEMMA TerminalBroadcastFailsPreserves ==
    ASSUME StreamInv, TerminalBroadcastFails PROVE StreamInv'
<1> USE DEF StreamInv, TerminalBroadcastFails
<1>1. /\ exec.pc = "deliver" /\ io.pc = "idle" /\ Drained /\ Ended
      /\ exec.next \in 1..Len(log) /\ term.seq = exec.next /\ pub \in Publisher
      /\ sent' \in {sent, sent \cup {Event(term.seq)}} /\ UNCHANGED <<storeVars, io, late>>
  BY DEF EndIsLast, Typed
<1>2. /\ exec' \in Executor /\ exec'.pc = "settle"
      /\ term' = TermIdle /\ TermIdle.pc = "idle" /\ TermIdle \in TermState
  BY DeliversTyped, RestingTyped DEF Settling, TermIdle
<1>3. pub' = ReconcileOnly(pub) /\ pub' \in Publisher /\ pub'.only = TRUE
      /\ pub'.ops = pub.ops /\ pub'.at = pub.at /\ pub'.blocked = pub.blocked
  BY <1>1, PublisherSteps
<1>4. Typed'
  BY <1>1, <1>2, <1>3 DEF Typed, storeVars
<1>5. Fenced' /\ HeadIsBusy' /\ EndIsLast' /\ AnswersAreDurable'
  BY <1>1, <1>2, <1>3 DEF Fenced, HeadIsBusy, EndIsLast, AnswersAreDurable, Ended, storeVars
<1>6. SentIsOfThisTurn' /\ LiveMeansSent'
  BY <1>1, <1>3 DEF SentIsOfThisTurn, LiveMeansSent, Event, storeVars
<1>7. AcksAreTrue' /\ ClearedMeansSent'
  BY <1>1, <1>2 DEF AcksAreTrue, ClearedMeansSent, Sent, Event, storeVars
<1>8. QED
  BY <1>4, <1>5, <1>6, <1>7

(* An acknowledgement clears the flag only of what was sent to the last event. *)
LEMMA AckStepIsSound ==
    ASSUME StreamInv, NEW seq \in 1..Len(log), Sent(seq), NEW p, AckStep(seq, p)
    PROVE  /\ UNCHANGED <<turn, owned, log>>
           /\ stream' \in StreamRecord /\ stream'.batchSeq = stream.batchSeq
           /\ stream'.required \/ (\A i \in 1..Len(log) : Event(i) \in sent)
           /\ p \in {pub, ReconcileOnly(pub)}
           /\ late' \in {late, late \cup {[call |-> "ack", seq |-> seq]}}
<1>1. CASE Acknowledge(seq)
  <2>1. late' \in {late, late \cup {[call |-> "ack", seq |-> seq]}}
    BY DEF AckStep, NoFault, GivenUp
  <2>2. p \in {pub, ReconcileOnly(pub)}
    BY DEF AckStep
  <2>3. QED
    BY <1>1, <2>1, <2>2, AcknowledgePreserves
<1>2. CASE GivenUp([call |-> "ack", seq |-> seq]) /\ UNCHANGED storeVars /\ p = ReconcileOnly(pub)
  BY <1>2 DEF GivenUp, storeVars, StreamInv, Typed, ClearedMeansSent
<1>3. QED
  BY <1>1, <1>2 DEF AckStep

(* An event of the end is acknowledged, or the call is given up on. *)
LEMMA TerminalIsAcknowledgedPreserves ==
    ASSUME StreamInv, TerminalIsAcknowledged PROVE StreamInv'
<1>1. /\ exec.pc = "deliver" /\ io.pc = "idle" /\ Drained /\ Ended
      /\ exec.next \in 1..Len(log) /\ Len(log) \in Nat /\ exec \in Executor
      /\ term.seq = exec.next /\ term.seq \in 1..Len(log)
      /\ (term.pc = "ack" => term.seq < Len(log))
      /\ term.pc \in {"ack", "ackDone"} /\ pub \in Publisher /\ Sent(term.seq)
      /\ exec.next \in Nat
  BY DEF StreamInv, EndIsLast, Typed, TerminalIsAcknowledged, AcksAreTrue, Executor
<1>2. PICK p \in {pub, ReconcileOnly(pub)} : AckStep(term.seq, p) /\ pub' = p
  BY DEF TerminalIsAcknowledged
<1>3. /\ UNCHANGED <<turn, owned, log>>
      /\ stream' \in StreamRecord /\ stream'.batchSeq = stream.batchSeq
      /\ stream'.required \/ (\A i \in 1..Len(log) : Event(i) \in sent)
      /\ late' \in {late, late \cup {[call |-> "ack", seq |-> term.seq]}}
  BY <1>1, <1>2, AckStepIsSound
<1>4. /\ pub' \in Publisher /\ pub'.ops = pub.ops /\ pub'.busy = pub.busy
      /\ pub'.at = pub.at /\ pub'.blocked = pub.blocked /\ pub'.durable = pub.durable
      /\ ~pub'.only => ~pub.only
      /\ pub.only => pub'.only
  <2>1. CASE pub' = pub
    BY <1>1, <2>1
  <2>2. CASE pub' = ReconcileOnly(pub)
    BY <1>1, <2>2, PublisherSteps
  <2>3. QED
    BY <1>2, <2>1, <2>2
<1>5. /\ exec' \in Executor
      /\ \/ exec'.pc = "settle"
         \/ exec'.pc = "deliver" /\ exec'.next = exec.next + 1 /\ exec.next < Len(log)
  <2>1. exec' = Delivers(IF term.pc = "ackDone" THEN "done" ELSE "event")
    BY DEF TerminalIsAcknowledged
  <2>2. CASE term.pc = "ackDone"
    BY <2>1, <2>2, DeliversTyped DEF StreamInv
  <2>3. CASE term.pc = "ack"
    BY <1>1, <2>1, <2>3, DeliversTyped DEF StreamInv
  <2>4. QED
    BY <1>1, <2>2, <2>3
<1>6. term' = TermIdle /\ TermIdle.pc = "idle" /\ UNCHANGED <<io, sent>>
  BY DEF TerminalIsAcknowledged, TermIdle
<1>7. Typed'
  BY <1>1, <1>3, <1>4, <1>5, <1>6, RestingTyped DEF StreamInv, Typed
<1>8. Fenced' /\ HeadIsBusy'
  BY <1>1, <1>3, <1>4, <1>5, <1>6 DEF StreamInv, Fenced, HeadIsBusy, Ended
<1>9. EndIsLast' /\ AnswersAreDurable' /\ SentIsOfThisTurn'
  BY <1>1, <1>3, <1>4, <1>5, <1>6
     DEF StreamInv, EndIsLast, AnswersAreDurable, SentIsOfThisTurn, Drained, Ended
<1>10. LiveMeansSent'
  <2>1. pub.only \/ Sent(pub.durable)
    BY <1>1 DEF StreamInv, LiveMeansSent
  <2>2. QED
    BY <1>3, <1>4, <1>6, <2>1 DEF LiveMeansSent, Sent, Event
<1>11. AcksAreTrue'
  <2>1. \A c \in late' : c.call = "ack" =>
          c.seq \in 1..Len(log) /\ \A i \in 1..c.seq : Event(i) \in sent
    BY <1>1, <1>3 DEF StreamInv, AcksAreTrue, Sent
  <2>2. \A i : Event(i)' = Event(i)
    BY <1>3 DEF Event
  <2>3. QED
    BY <1>1, <1>3, <1>6, <2>1, <2>2 DEF AcksAreTrue, Sent
<1>12. ClearedMeansSent'
  BY <1>3, <1>6 DEF ClearedMeansSent, Event
<1>13. QED
  BY <1>7, <1>8, <1>9, <1>10, <1>11, <1>12 DEF StreamInv

-----------------------------------------------------------------------------
(* The write of the head of the queue *)

(* While something is queued or on its way, the turn is not being ended. *)
LEMMA WritingIsNotEnding ==
    ASSUME StreamInv, io.pc # "idle" \/ pub.ops # <<>>
    PROVE  /\ turn.begun /\ exec.pc # "deliver" /\ term.pc = "idle"
           /\ ~(exec.pc = "finalize" /\ exec.publish)
BY DEF StreamInv, Fenced, EndIsLast, Drained

(* What a step of the write has to establish when it appends nothing *)
PublisherMove ==
    /\ UNCHANGED <<turn, owned, log, term, exec>>
    /\ stream' = stream \/ ClearedMeansSent'
    /\ stream' \in StreamRecord /\ stream'.batchSeq = stream.batchSeq
    /\ io.pc # "idle" \/ pub.ops # <<>>
    /\ pub' \in Publisher /\ io' \in IOState
    /\ \A c \in late' : \/ c \in late
                        \/ c.call = "write" /\ c.op \in Write
                        \/ c.call = "ack" /\ c.seq \in 1..Len(log) /\ Sent(c.seq)
    /\ \A i \in Nat : Event(i) \in sent => Event(i) \in sent'
    /\ SentIsOfThisTurn' /\ HeadIsBusy' /\ LiveMeansSent'
    /\ io'.pc \in {"idle", "request", "send", "ack"}
    /\ io'.pc \in {"send", "ack"} => io'.ans.seq \in 1..Len(log)
    /\ io'.pc = "send" => Sent(io'.ans.seq - 1)
    /\ io'.pc = "ack" => \A i \in 1..io'.ans.seq : Event(i) \in sent'

(* Such a step keeps the invariant. *)
LEMMA PublisherMoves == ASSUME StreamInv, PublisherMove PROVE StreamInv'
<1> USE DEF PublisherMove
<1>0. /\ turn.begun /\ exec.pc # "deliver" /\ term.pc = "idle"
      /\ ~(exec.pc = "finalize" /\ exec.publish)
  BY WritingIsNotEnding
<1>1. Typed'
  BY DEF StreamInv, Typed
<1>2. Fenced' /\ EndIsLast' /\ AnswersAreDurable'
  BY <1>0 DEF StreamInv, Fenced, EndIsLast, AnswersAreDurable, Ended
<1>3. AcksAreTrue'
  <2>1. io'.pc = "send" => \A i \in 1..(io'.ans.seq - 1) : Event(i)' \in sent'
    BY DEF StreamInv, Typed, IOState, Answer, Sent, Event
  <2>2. io'.pc = "ack" => \A i \in 1..io'.ans.seq : Event(i)' \in sent'
    BY DEF Event
  <2>3. \A c \in late' : c.call = "ack" =>
          c.seq \in 1..Len(log) /\ \A i \in 1..c.seq : Event(i)' \in sent'
    BY DEF StreamInv, AcksAreTrue, Sent, Event
  <2>4. QED
    BY <1>0, <2>1, <2>2, <2>3 DEF AcksAreTrue, Sent
<1>4. ClearedMeansSent'
  BY DEF StreamInv, ClearedMeansSent, Event, Typed
<1>5. QED
  BY <1>1, <1>2, <1>3, <1>4 DEF StreamInv

(* The head of the queue is taken up for writing. *)
LEMMA FlushPreserves == ASSUME StreamInv, Flush, exec' = exec PROVE StreamInv'
<1> USE DEF StreamInv, Flush
<1>1. /\ pub \in Publisher /\ pub.ops \in Seq(Operation) /\ 1 \in 1..Len(pub.ops)
      /\ pub.ops[1] \in Operation
  BY DEF Typed, Publisher
<1> DEFINE head == [pub.ops[1] EXCEPT !.inFlight = TRUE]
           ops == [pub.ops EXCEPT ![1] = head]
<1>2. head \in Operation
  BY <1>1 DEF Operation
<1> HIDE DEF head
<1>3. ops \in Seq(Operation) /\ Len(ops) = Len(pub.ops) /\ ops # <<>>
  BY <1>1, <1>2, ExceptSeq
<1> HIDE DEF ops
<1>4. pub' = [pub EXCEPT !.busy = TRUE, !.ops = ops]
  BY <1>1 DEF ops, head, Publisher
<1>5. /\ pub' \in Publisher /\ pub'.at = "open" /\ pub'.busy = TRUE /\ pub'.ops # <<>>
      /\ pub'.only = pub.only /\ pub'.durable = pub.durable
  BY <1>1, <1>3, <1>4 DEF Publisher
<1>6. io' \in IOState /\ io'.pc = "request"
  <2>1. [kind |-> pub.ops[1].kind, id |-> pub.ops[1].id, to |-> pub.ops[1].to] \in Write
    BY <1>1 DEF Operation, Write
  <2>2. IOIdle \in IOState
    BY RestingTyped
  <2>3. QED
    BY <2>1, <2>2 DEF IOState
<1>7. HeadIsBusy' /\ SentIsOfThisTurn'
  BY <1>5 DEF HeadIsBusy, SentIsOfThisTurn, storeVars
<1>8. pub.only \/ Sent(pub.durable)
  BY WritingIsNotEnding DEF LiveMeansSent
<1>9. LiveMeansSent'
  BY <1>5, <1>8 DEF LiveMeansSent, Sent, Event, storeVars
<1>10. PublisherMove
  BY <1>1, <1>5, <1>6, <1>7, <1>9 DEF PublisherMove, Typed, storeVars
<1>11. QED
  BY <1>10, PublisherMoves

(* A call that gets no answer: the head stays queued and is sent again. *)
LEMMA UnansweredPreserves ==
    ASSUME StreamInv, io.pc \in {"request", "reply"}, pub' = Deferred(pub), io' = IOIdle,
           late' \in {late, late \cup {[call |-> "write", op |-> io.op]}},
           UNCHANGED <<storeVars, term, sent, exec>>
    PROVE  StreamInv'
<1> USE DEF StreamInv
<1>1. /\ pub' \in Publisher /\ pub'.only = pub.only /\ pub'.at = pub.at
      /\ pub'.blocked = pub.blocked /\ pub'.durable = pub.durable
  <2>1. pub \in Publisher
    BY DEF Typed
  <2>2. QED
    BY <2>1, PublisherSteps
<1>2. io' \in IOState /\ io'.pc = "idle" /\ io.op \in Write
  <2>1. IOIdle.pc = "idle"
    BY DEF IOIdle
  <2>2. QED
    BY <2>1, RestingTyped DEF Typed, IOState
<1>3. HeadIsBusy' /\ SentIsOfThisTurn'
  BY <1>1, <1>2 DEF HeadIsBusy, SentIsOfThisTurn, storeVars
<1>4. pub.only \/ Sent(pub.durable)
  BY WritingIsNotEnding DEF LiveMeansSent
<1>5. LiveMeansSent'
  BY <1>1, <1>4 DEF LiveMeansSent, Sent, Event, storeVars
<1>6. \A c \in late' : c \in late \/ (c.call = "write" /\ c.op \in Write)
  BY <1>2
<1>7. PublisherMove
  BY <1>1, <1>2, <1>3, <1>5, <1>6 DEF PublisherMove, Typed, storeVars
<1>8. QED
  BY <1>7, PublisherMoves

(* The answer to a write is received. *)
LEMMA ReceivePreserves ==
    ASSUME StreamInv, io.pc = "reply", pub.at # "abandoned", Receive(pub),
           UNCHANGED <<storeVars, term, late, exec>>
    PROVE  StreamInv'
<1> USE DEF StreamInv, storeVars
<1> DEFINE next == [pub EXCEPT !.durable = io.ans.seq]
           fits == /\ io.ans.out \in {"persisted", "already_persisted"}
                   /\ io.ans.seq = pub.durable + 1
<1>1. /\ pub \in Publisher /\ io \in IOState /\ io.ans.seq \in Nat /\ Len(log) \in Nat
      /\ pub.at = "open" /\ pub.busy /\ pub.ops # <<>>
  BY DEF Typed, IOState, Answer, HeadIsBusy
<1>2. /\ next \in Publisher /\ next.at = pub.at /\ next.busy = pub.busy
      /\ next.ops = pub.ops /\ next.only = pub.only /\ next.durable = io.ans.seq
  BY <1>1 DEF Publisher
<1> HIDE DEF next
<1>3. IOIdle \in IOState /\ IOIdle.pc = "idle"
  BY RestingTyped DEF IOIdle
<1>4. stream \in StreamRecord
  BY DEF Typed
<1>5. CASE pub' = Rejected(pub) /\ io' = IOIdle /\ sent' = sent
  <2>1. pub' \in Publisher /\ pub'.only = TRUE /\ pub'.at = "open"
    BY <1>1, <1>5, PublisherSteps
  <2>2. HeadIsBusy' /\ LiveMeansSent' /\ SentIsOfThisTurn'
    BY <1>3, <1>5, <2>1 DEF HeadIsBusy, LiveMeansSent, SentIsOfThisTurn
  <2>3. PublisherMove
    BY <1>3, <1>4, <1>5, <2>1, <2>2 DEF PublisherMove
  <2>4. QED
    BY <2>3, PublisherMoves
<1>6. CASE fits /\ MaybeHint(io.ans.seq) /\ pub' = Completed(ReconcileOnly(next)) /\ io' = IOIdle
  <2>1. io.ans.seq \in 1..Len(log)
    BY <1>6 DEF AnswersAreDurable
  <2>2. pub' \in Publisher /\ pub'.only = TRUE /\ pub'.at = "open"
    <3>1. ReconcileOnly(next) \in Publisher /\ ReconcileOnly(next).only = TRUE
          /\ ReconcileOnly(next).at = "open"
      BY <1>1, <1>2, PublisherSteps
    <3>2. QED
      BY <1>6, <3>1, PublisherSteps
  <2>3. SentIsOfThisTurn' /\ \A i \in Nat : Event(i) \in sent => Event(i) \in sent'
    BY <1>6, <2>1, HintKeepsEvents
  <2>4. HeadIsBusy' /\ LiveMeansSent'
    BY <1>3, <1>6, <2>2 DEF HeadIsBusy, LiveMeansSent
  <2>5. PublisherMove
    BY <1>3, <1>4, <1>6, <2>2, <2>3, <2>4 DEF PublisherMove
  <2>6. QED
    BY <2>5, PublisherMoves
<1>7. CASE fits /\ ~pub.only /\ pub' = next /\ io' = [io EXCEPT !.pc = "send"] /\ sent' = sent
  <2>1. io.ans.seq \in 1..Len(log)
    BY <1>7 DEF AnswersAreDurable
  <2>2. io' \in IOState /\ io'.pc = "send" /\ io'.ans = io.ans
    BY <1>1, <1>7 DEF IOState
  <2>3. Sent(io.ans.seq - 1)
    <3>1. Sent(pub.durable)
      BY <1>7, WritingIsNotEnding DEF LiveMeansSent
    <3>2. io.ans.seq - 1 = pub.durable
      BY <1>1, <1>7 DEF Publisher
    <3>3. QED
      BY <3>1, <3>2
  <2>4. HeadIsBusy' /\ LiveMeansSent' /\ SentIsOfThisTurn'
    BY <1>1, <1>2, <1>7, <2>2 DEF HeadIsBusy, LiveMeansSent, SentIsOfThisTurn
  <2>5. PublisherMove
    BY <1>2, <1>4, <1>7, <2>1, <2>2, <2>3, <2>4 DEF PublisherMove
  <2>6. QED
    BY <2>5, PublisherMoves
<1>8. QED
  BY <1>5, <1>6, <1>7 DEF Receive, next

(* The answer arrives, whatever became of the turn meanwhile. *)
LEMMA ReplyArrivesPreserves == ASSUME StreamInv, ReplyArrives, exec' = exec PROVE StreamInv'
<1>1. CASE pub.at = "abandoned" /\ io' = IOIdle /\ UNCHANGED <<pub, sent>>
  <2>1. IOIdle \in IOState /\ IOIdle.pc = "idle"
    BY RestingTyped DEF IOIdle
  <2>2. UNCHANGED <<storeVars, term, late>> /\ io.pc = "reply"
    BY DEF ReplyArrives
  <2>3. HeadIsBusy' /\ SentIsOfThisTurn' /\ LiveMeansSent'
    BY <1>1, <2>1, <2>2
       DEF StreamInv, HeadIsBusy, SentIsOfThisTurn, LiveMeansSent, storeVars
  <2>4. PublisherMove
    BY <1>1, <2>1, <2>2, <2>3 DEF StreamInv, Typed, PublisherMove, storeVars
  <2>5. QED
    BY <2>4, PublisherMoves
<1>2. CASE pub.at # "abandoned" /\ Receive(pub)
  BY <1>2, ReceivePreserves DEF ReplyArrives
<1>3. QED
  BY <1>1, <1>2 DEF ReplyArrives

(* A persisted event is broadcast. *)
LEMMA BroadcastsPreserves == ASSUME StreamInv, Broadcasts, exec' = exec PROVE StreamInv'
<1> USE DEF StreamInv, Broadcasts
<1>1. /\ io \in IOState /\ io.pc = "send" /\ io.ans.seq \in 1..Len(log) /\ Len(log) \in Nat
      /\ Sent(io.ans.seq - 1) /\ sent' = sent \cup {Event(io.ans.seq)}
      /\ UNCHANGED <<storeVars, pub, term, late>>
  BY DEF Typed, AnswersAreDurable, AcksAreTrue
<1>2. io' \in IOState /\ io'.pc = "ack" /\ io'.ans = io.ans
  BY <1>1 DEF IOState
<1>3. \A i \in 1..io.ans.seq : Event(i)' \in sent'
  BY <1>1, SentNext DEF storeVars
<1>4. \A i : Event(i)' = Event(i)
  BY <1>1 DEF Event, storeVars
<1>5. LiveMeansSent'
  <2>1. pub.only \/ Sent(pub.durable) \/ pub.durable = io.ans.seq
    BY WritingIsNotEnding, <1>1 DEF LiveMeansSent
  <2>2. Sent(pub.durable) => \A i \in 1..pub.durable : Event(i)' \in sent'
    BY <1>1, SentStays DEF storeVars
  <2>3. pub.only \/ \A i \in 1..pub.durable : Event(i)' \in sent'
    BY <1>3, <2>1, <2>2
  <2>4. QED
    BY <1>1, <2>3 DEF LiveMeansSent, Sent
<1>6. HeadIsBusy' /\ SentIsOfThisTurn'
  BY <1>1, <1>2 DEF HeadIsBusy, SentIsOfThisTurn, Event, storeVars
<1>7. PublisherMove
  BY <1>1, <1>2, <1>3, <1>4, <1>5, <1>6 DEF PublisherMove, Typed, storeVars
<1>8. QED
  BY <1>7, PublisherMoves

(* The broadcast of a persisted event fails. *)
LEMMA BroadcastFailsPreserves == ASSUME StreamInv, BroadcastFails, exec' = exec PROVE StreamInv'
<1> USE DEF StreamInv, BroadcastFails
<1>1. /\ pub \in Publisher /\ io.pc = "send" /\ io.ans.seq \in 1..Len(log)
      /\ sent' \in {sent, sent \cup {Event(io.ans.seq)}}
      /\ UNCHANGED <<storeVars, term, late>>
  BY DEF Typed, AnswersAreDurable
<1>2. io' \in IOState /\ io'.pc = "idle"
  BY RestingTyped DEF IOIdle
<1>3. pub' \in Publisher /\ pub'.only = TRUE /\ pub'.at = pub.at /\ pub'.blocked = pub.blocked
  <2>1. /\ ReconcileOnly(pub) \in Publisher /\ ReconcileOnly(pub).only = TRUE
        /\ ReconcileOnly(pub).at = pub.at /\ ReconcileOnly(pub).blocked = pub.blocked
    BY <1>1, PublisherSteps
  <2>2. QED
    BY <2>1, PublisherSteps
<1>4. HeadIsBusy' /\ LiveMeansSent' /\ SentIsOfThisTurn'
  BY <1>1, <1>2, <1>3 DEF HeadIsBusy, LiveMeansSent, SentIsOfThisTurn, Event, storeVars
<1>5. PublisherMove
  BY <1>1, <1>2, <1>3, <1>4 DEF PublisherMove, Typed, storeVars
<1>6. QED
  BY <1>5, PublisherMoves

(* A broadcast event is acknowledged, or the call is given up on. *)
LEMMA WriteIsAcknowledgedPreserves ==
    ASSUME StreamInv, WriteIsAcknowledged, exec' = exec PROVE StreamInv'
<1> USE DEF StreamInv, WriteIsAcknowledged
<1>1. /\ pub \in Publisher /\ io.pc = "ack" /\ io.ans.seq \in 1..Len(log)
      /\ Sent(io.ans.seq) /\ UNCHANGED <<term, sent>>
  BY DEF Typed, AnswersAreDurable, AcksAreTrue
<1>2. PICK p \in {pub, ReconcileOnly(pub)} : AckStep(io.ans.seq, p) /\ pub' = Completed(p)
  OBVIOUS
<1>3. /\ UNCHANGED <<turn, owned, log>>
      /\ stream' \in StreamRecord /\ stream'.batchSeq = stream.batchSeq
      /\ stream'.required \/ (\A i \in 1..Len(log) : Event(i) \in sent)
      /\ late' \in {late, late \cup {[call |-> "ack", seq |-> io.ans.seq]}}
  BY <1>1, <1>2, AckStepIsSound
<1>4. io' \in IOState /\ io'.pc = "idle"
  BY RestingTyped DEF IOIdle
<1>5. /\ pub' \in Publisher /\ (pub'.only \/ pub'.only = pub.only) /\ pub'.at = pub.at
      /\ pub'.blocked = pub.blocked /\ pub'.durable = pub.durable
  <2>1. /\ p \in Publisher /\ (p.only \/ p.only = pub.only) /\ p.at = pub.at
        /\ p.blocked = pub.blocked /\ p.durable = pub.durable
    <3>1. CASE p = pub
      BY <1>1, <3>1
    <3>2. CASE p = ReconcileOnly(pub)
      BY <1>1, <3>2, PublisherSteps
    <3>3. QED
      BY <3>1, <3>2
  <2>2. QED
    BY <1>2, <2>1, PublisherSteps
<1>6. pub.only \/ Sent(pub.durable)
  BY <1>1, WritingIsNotEnding DEF LiveMeansSent
<1>7. HeadIsBusy' /\ LiveMeansSent' /\ SentIsOfThisTurn'
  <2>1. HeadIsBusy' /\ SentIsOfThisTurn'
    BY <1>1, <1>3, <1>4, <1>5, <1>6 DEF HeadIsBusy, SentIsOfThisTurn
  <2>2. LiveMeansSent'
    BY <1>1, <1>3, <1>5, <1>6 DEF LiveMeansSent, Sent, Event
  <2>3. QED
    BY <2>1, <2>2
<1>8. ClearedMeansSent'
  BY <1>1, <1>3 DEF ClearedMeansSent, Event
<1>9. \A c \in late' : c \in late
                      \/ (c.call = "ack" /\ c.seq \in 1..Len(log) /\ Sent(c.seq))
  BY <1>1, <1>3
<1>10. PublisherMove
  BY <1>1, <1>3, <1>4, <1>5, <1>7, <1>8, <1>9 DEF PublisherMove
<1>11. QED
  BY <1>10, PublisherMoves

-----------------------------------------------------------------------------
(* Writes that reach the database, in time or late *)

(* A write is stored or refused, in answer to a request or after it. *)
LEMMA PersistPreserves ==
    ASSUME StreamInv, NEW op \in Write, Persist(op), turn.begun \/ Ended,
           UNCHANGED <<pub, term, sent, exec>>, late' \subseteq late,
           \/ io' = io
           \/ io.pc = "request" /\ io' = [io EXCEPT !.pc = "reply", !.ans = AnswerTo(op)]
    PROVE  StreamInv'
<1> USE DEF StreamInv
<1>1. /\ turn' = turn /\ owned' = owned
      /\ log' \in Seq(Entry) /\ stream' \in StreamRecord
      /\ stream'.batchSeq <= Len(log')
      /\ \/ log' = log /\ stream' = stream
         \/ Len(log') = Len(log) + 1 /\ stream'.required /\ Held
      /\ AnswerTo(op) \in Answer
      /\ AnswerTo(op).out \in {"persisted", "already_persisted"} =>
           AnswerTo(op).seq \in 1..Len(log')
  BY PersistAppends DEF AnswersAreDurable
<1>2. Len(log) \in Nat /\ Len(log') \in Nat /\ Len(log) <= Len(log')
  BY <1>1 DEF Typed
<1>3. Ended => log' = log /\ stream' = stream
  BY <1>1 DEF Held, Ended, Terminal
<1>4. /\ io' \in IOState
      /\ io.pc = "idle" => io' = io
      /\ io'.pc \in {"send", "ack"} => io' = io
      /\ io'.pc # "idle" => io.pc # "idle"
      /\ io'.pc = "reply" =>
           io' = io \/ io'.ans = AnswerTo(op)
  <2>1. CASE io' = io
    BY <2>1 DEF Typed
  <2>2. CASE io.pc = "request" /\ io' = [io EXCEPT !.pc = "reply", !.ans = AnswerTo(op)]
    BY <1>1, <2>2 DEF Typed, IOState
  <2>3. QED
    BY <2>1, <2>2
<1>5. Typed'
  BY <1>1, <1>4 DEF Typed
<1>6. Fenced' /\ HeadIsBusy'
  BY <1>1, <1>3, <1>4 DEF Fenced, HeadIsBusy, Ended
<1>7. EndIsLast'
  BY <1>1, <1>3, <1>4 DEF EndIsLast, Drained, Ended
<1>8. AnswersAreDurable' /\ SentIsOfThisTurn'
  BY <1>1, <1>2, <1>4 DEF AnswersAreDurable, SentIsOfThisTurn
<1>9. LiveMeansSent'
  <2>1. io.pc = "send" => io' = io
    BY DEF Typed
  <2>2. QED
    BY <1>1, <2>1 DEF LiveMeansSent, Sent, Event
<1>10. AcksAreTrue'
  BY <1>1, <1>2, <1>4 DEF AcksAreTrue, Sent, Event
<1>11. ClearedMeansSent'
  BY <1>1 DEF ClearedMeansSent, Event
<1>12. QED
  BY <1>5, <1>6, <1>7, <1>8, <1>9, <1>10, <1>11

(* A call that was given up on reaches the store after all. *)
LEMMA LateCallArrivesPreserves ==
    ASSUME StreamInv, LateCallArrives, exec' = exec PROVE StreamInv'
<1> USE DEF StreamInv
<1>1. PICK c \in late : /\ late' = late \ {c}
                        /\ \/ c.call = "write" /\ Persist(c.op)
                           \/ c.call = "ack" /\ Acknowledge(c.seq)
  BY DEF LateCallArrives
<1>2. UNCHANGED <<pub, io, term, sent>>
  BY DEF LateCallArrives
<1>3. turn.begun \/ Ended
  BY <1>1 DEF Fenced
<1>4. CASE c.call = "write" /\ Persist(c.op)
  <2>1. c.op \in Write
    BY <1>4 DEF Typed
  <2>2. late' \subseteq late
    BY <1>1
  <2>3. QED
    BY <1>2, <1>3, <1>4, <2>1, <2>2, PersistPreserves
<1>5. CASE c.call = "ack" /\ Acknowledge(c.seq)
  <2>1. c.seq \in 1..Len(log) /\ Sent(c.seq)
    BY <1>5 DEF AcksAreTrue
  <2>2. /\ UNCHANGED <<turn, owned, log>>
        /\ stream' \in StreamRecord /\ stream'.batchSeq = stream.batchSeq
        /\ stream'.required \/ (\A i \in 1..Len(log) : Event(i) \in sent)
    BY <1>5, <2>1, AcknowledgePreserves
  <2>3. Typed' /\ Fenced' /\ HeadIsBusy'
    BY <1>1, <1>2, <2>2 DEF Typed, Fenced, HeadIsBusy, Ended
  <2>4. EndIsLast' /\ AnswersAreDurable' /\ SentIsOfThisTurn'
    BY <1>2, <2>2 DEF EndIsLast, AnswersAreDurable, SentIsOfThisTurn, Drained, Ended
  <2>5. LiveMeansSent' /\ AcksAreTrue' /\ ClearedMeansSent'
    BY <1>1, <1>2, <2>2 DEF LiveMeansSent, AcksAreTrue, ClearedMeansSent, Sent, Event
  <2>6. QED
    BY <2>3, <2>4, <2>5
<1>6. QED
  BY <1>1, <1>4, <1>5

(* Every step of the write loop. *)
LEMMA WritesPreserve == ASSUME StreamInv, Writes, exec' = exec PROVE StreamInv'
<1>1. CASE RequestArrives
  <2>1. io.op \in Write /\ turn.begun /\ late' \subseteq late
    BY <1>1, WritingIsNotEnding DEF RequestArrives, StreamInv, Typed, IOState
  <2>2. QED
    BY <1>1, <2>1, PersistPreserves DEF RequestArrives
<1>2. CASE RequestFails
  BY <1>2, UnansweredPreserves DEF RequestFails, GivenUp
<1>3. CASE ReplyIsLost
  BY <1>3, UnansweredPreserves DEF ReplyIsLost
<1>4. QED
  BY <1>1, <1>2, <1>3, FlushPreserves, ReplyArrivesPreserves, BroadcastsPreserves,
     BroadcastFailsPreserves, WriteIsAcknowledgedPreserves, LateCallArrivesPreserves
     DEF Writes

-----------------------------------------------------------------------------
(* Every step *)

(* The calls of the sweeps are their own. *)
LEMMA ClosingMoves == [Next]_vars => SweepReads \/ SweepCloses \/ closing' = closing
BY DEF Next, vars, Provides, Controls, Concludes, EmitText, EmitSemantic, FinishAnswer,
       Overload, Stop, Claim, Prepare, Begin, Recover, Finalize, FinalizeFails, DeliverNext,
       TerminalBroadcasts, TerminalBroadcastFails, TerminalIsAcknowledged, Settle, Crash,
       Sweep, UserCancels, ChannelDelivers, ChannelBreaks, Browser, BrowserFails,
       BrowserIsRefused

(* Every step but the two of a sweep that closes a turn. *)
LEMMA OthersPreserve ==
    ASSUME StreamInv, [Next]_vars, ~SweepReads, ~SweepCloses
    PROVE  StreamInv'
<1>1. CASE UNCHANGED vars
  BY <1>1, FramePreserves DEF vars, storeVars, workerVars
<1>2. CASE Provides
  BY <1>2, EmitTextPreserves, EmitSemanticPreserves, OverloadPreserves, StopPreserves,
     FinishAnswerPreserves DEF Provides
<1>3. CASE Controls
  BY <1>3, ClaimPreserves, PreparePreserves, BeginPreserves, RecoverPreserves,
     FinalizePreserves, FinalizeFailsPreserves DEF Controls
<1>4. CASE Concludes
  BY <1>4, DeliverNextPreserves, TerminalBroadcastsPreserves,
     TerminalBroadcastFailsPreserves, TerminalIsAcknowledgedPreserves,
     SettlePreserves DEF Concludes
<1>5. CASE Writes /\ UNCHANGED <<client, exec, closing>>
  BY <1>5, WritesPreserve
<1>6. CASE ChannelDelivers \/ ChannelBreaks \/ Browser \/ BrowserFails \/ BrowserIsRefused
  BY <1>6, FramePreserves
     DEF ChannelDelivers, ChannelBreaks, Browser, BrowserFails, BrowserIsRefused,
         publisherVars, workerVars
<1>7. QED
  BY <1>1, <1>2, <1>3, <1>4, <1>5, <1>6, CrashPreserves, SweepPreserves,
     UserCancelsPreserves DEF Next

(* Every step; what a sweep has read keeps its type beside. *)
LEMMA NextPreserves ==
    ASSUME StreamInv, SweepsTyped, [Next]_vars
    PROVE  StreamInv' /\ SweepsTyped'
<1>1. CASE SweepReads \/ SweepCloses
  BY <1>1, SweepReadsPreserves, SweepClosesPreserves
<1>2. CASE ~SweepReads /\ ~SweepCloses
  <2>1. closing' = closing
    BY <1>2, ClosingMoves
  <2>2. QED
    BY <1>2, <2>1, OthersPreserve DEF SweepsTyped
<1>3. QED
  BY <1>1, <1>2

-----------------------------------------------------------------------------
(* The theorems *)

(* What the publisher and the calls on their way know is true: while it      *)
(* works live, everything durable was sent; an acknowledgement is only asked *)
(* for what was sent; and an answer names an entry of the log.               *)
THEOREM StreamInvariant == Spec => []StreamInv
<1>1. Init => StreamInv /\ SweepsTyped
  BY InitEstablishes DEF Init, SweepsTyped
<1>2. (StreamInv /\ SweepsTyped) /\ [Next]_vars => (StreamInv /\ SweepsTyped)'
  BY NextPreserves
<1>3. QED
  BY <1>1, <1>2, PTL DEF Spec

(* Persist before broadcast: whatever fails, an event is given to the        *)
(* channel only after it is in the log.                                      *)
THEOREM DurableBeforeSent == Spec => []SentIsDurable
<1>1. StreamInv => SentIsDurable
  BY DEF StreamInv, SentIsOfThisTurn, SentIsDurable, Typed
<1>2. QED
  BY <1>1, StreamInvariant, PTL

(* reconcile_required is cleared only when every event went to the channel,  *)
(* however many acknowledgements are lost, late or refused.                  *)
THEOREM ClearedOnlyIfSent == Spec => []ClearedMeansSent
<1>1. StreamInv => ClearedMeansSent
  BY DEF StreamInv
<1>2. QED
  BY <1>1, StreamInvariant, PTL

-----------------------------------------------------------------------------
(* The browser always waits for something *)

(* The fields of the browser's state. *)
Shaped(c) ==
    DOMAIN c = {"at", "gen", "applied", "buffering", "requested", "buffer", "overflow",
                "queued", "flight", "reply", "timer", "shown"}

(* The buffer keeps to its limit. *)
Bounded(c) == IsFiniteSet(c.buffer) /\ Cardinality(c.buffer) <= MaxBuffered

Timed(c) == c.timer \in {"none", "watchdog", "retry", "throttle"}

(* The inbox believes to have asked only if it has, or will. *)
Honest(c) ==
    /\ c.requested => c.flight # {} \/ c.queued # {}
    /\ c.reply # {} => c.flight # {}

(* A request is on its way or will be sent when the timer fires. *)
Waiting(c) ==
    /\ Timed(c)
    /\ Honest(c)
    /\ c.flight # {} \/ c.timer # "none"

InboxInv ==
    /\ Shaped(client)
    /\ Bounded(client)
    /\ Tracking => Waiting(client)

(* #queue, from any state: a request is sent now, or when one is answered. *)
LEMMA QueueWaits ==
    ASSUME NEW c, Shaped(c), Timed(c), c.reply # {} => c.flight # {}
    PROVE  /\ Shaped(Queue(c)) /\ Waiting(Queue(c))
           /\ Queue(c).at = c.at /\ Queue(c).reply = c.reply
           /\ Queue(c).buffer = c.buffer
           /\ c.flight # {} => Queue(c).queued # {}
BY DEF Queue, StartFetch, Shaped, Timed, Honest, Waiting

(* #requestReconciliation, unless it was asked for and nothing is awaited. *)
LEMMA AskWaits ==
    ASSUME NEW c, Shaped(c), Timed(c), Honest(c), c.requested => Waiting(c)
    PROVE  /\ Shaped(Ask(c)) /\ Waiting(Ask(c))
           /\ Ask(c).at = c.at /\ Ask(c).reply = c.reply
           /\ Ask(c).buffer = c.buffer
           /\ c.flight # {} /\ ~c.requested => Ask(c).queued # {}
<1>1. CASE c.requested
  BY <1>1 DEF Ask, Shaped, Timed, Honest, Waiting
<1>2. CASE ~c.requested
  <2> DEFINE q == [c EXCEPT !.buffering = TRUE, !.requested = TRUE]
  <2>1. /\ Shaped(q) /\ Timed(q) /\ q.reply = c.reply /\ q.flight = c.flight
        /\ q.at = c.at /\ q.buffer = c.buffer
    BY DEF Shaped, Timed
  <2>2. Ask(c) = Queue(q)
    BY <1>2 DEF Ask
  <2>3. QED
    BY <1>2, <2>1, <2>2, QueueWaits DEF Honest
<1>3. QED
  BY <1>1, <1>2

(* #bufferEvent: an event beyond the limit is dropped, and asked for. *)
LEMMA BufferedWaits ==
    ASSUME NEW c, NEW e, Shaped(c), Bounded(c), Waiting(c)
    PROVE  LET b == Buffered(c, e)
           IN  Shaped(b) /\ Bounded(b) /\ Waiting(b) /\ b.at = c.at
<1> DEFINE b == Buffered(c, e)
<1>0. Cardinality(c.buffer) \in Nat /\ MaxBuffered \in Nat
  BY InboxAssumption, FS_CardinalityType DEF Bounded
<1>1. CASE e \in c.buffer
  BY <1>1 DEF Buffered
<1>2. CASE e \notin c.buffer /\ Cardinality(c.buffer) >= MaxBuffered
  <2> DEFINE o == [c EXCEPT !.overflow = TRUE]
  <2>1. Shaped(o) /\ Waiting(o) /\ o.at = c.at /\ o.buffer = c.buffer
    BY DEF Shaped, Timed, Honest, Waiting
  <2>2. b = Ask(o)
    BY <1>0, <1>2 DEF Buffered
  <2>3. QED
    BY <2>1, <2>2, AskWaits DEF Waiting, Bounded
<1>3. CASE e \notin c.buffer /\ Cardinality(c.buffer) < MaxBuffered
  <2>1. b = [c EXCEPT !.buffer = c.buffer \cup {e}]
    BY <1>0, <1>3 DEF Buffered
  <2>2. Bounded(b)
    <3>1. /\ IsFiniteSet(c.buffer \cup {e})
          /\ Cardinality(c.buffer \cup {e}) = Cardinality(c.buffer) + 1
      BY <1>3, FS_AddElement DEF Bounded
    <3>2. b.buffer = c.buffer \cup {e}
      BY <2>1 DEF Shaped
    <3>3. QED
      BY <1>0, <1>3, <3>1, <3>2 DEF Bounded
  <2>3. QED
    BY <2>1, <2>2 DEF Shaped, Timed, Honest, Waiting
<1>4. QED
  BY <1>0, <1>1, <1>2, <1>3

(* Events are applied without touching what is asked. *)
LEMMA LiveWaits ==
    ASSUME NEW c, NEW n, Shaped(c), Bounded(c)
    PROVE  LET l == ApplyLive(c, n)
           IN  /\ Shaped(l) /\ Bounded(l)
               /\ \/ l.at = "released"
                  \/ /\ l.at = c.at /\ l.flight = c.flight /\ l.timer = c.timer
                     /\ l.requested = c.requested /\ l.queued = c.queued
                     /\ l.reply = c.reply
<1> DEFINE shown == c.shown \o FlattenSeq([i \in 1..n |-> Chunks([k \in 1..n |-> c.applied + k][i])])
           now == [c EXCEPT !.applied = @ + n, !.shown = shown]
<1>1. /\ Shaped(now) /\ Bounded(now) /\ now.at = c.at
      /\ now.flight = c.flight /\ now.timer = c.timer
      /\ now.requested = c.requested /\ now.queued = c.queued /\ now.reply = c.reply
  BY DEF Shaped, Bounded
<1>2. /\ Shaped(Release(now)) /\ Bounded(Release(now))
      /\ Release(now).at = "released"
  BY FS_EmptySet, InboxAssumption DEF Release, Unknown, Shaped, Bounded
<1>3. ApplyLive(c, n) \in {now, Release(now)}
  BY DEF ApplyLive
<1>4. QED
  BY <1>1, <1>2, <1>3

(* What remains of the buffer is smaller, and a gap is asked for. *)
LEMMA SettledWaits ==
    ASSUME NEW c, NEW overflow, Shaped(c), Bounded(c), Timed(c),
           ~c.requested, c.flight # {}, c.reply = {}
    PROVE  LET a == Answered(Settled(c, overflow))
           IN  Shaped(a) /\ Bounded(a) /\ Waiting(a) /\ a.at = c.at
<1> DEFINE rest == {e \in c.buffer : ~Stale(c, e)}
           kept == [c EXCEPT !.buffer = rest]
           open == [kept EXCEPT !.buffering = FALSE]
<1>1. IsFiniteSet(rest) /\ Cardinality(rest) <= MaxBuffered
  <2>1. rest \subseteq c.buffer
    OBVIOUS
  <2>2. /\ IsFiniteSet(rest) /\ Cardinality(rest) <= Cardinality(c.buffer)
        /\ Cardinality(rest) \in Nat /\ Cardinality(c.buffer) \in Nat
    BY <2>1, FS_Subset, FS_CardinalityType DEF Bounded
  <2>3. QED
    BY <2>2, InboxAssumption DEF Bounded
<1> HIDE DEF rest
<1>2. /\ Shaped(kept) /\ Bounded(kept) /\ Timed(kept) /\ Honest(kept)
      /\ ~kept.requested /\ kept.flight = c.flight /\ kept.at = c.at
      /\ kept.reply = {}
  BY <1>1 DEF Shaped, Bounded, Timed, Honest
<1>3. /\ Shaped(open) /\ Bounded(open) /\ ~open.requested /\ open.at = c.at
      /\ open.reply = {}
  BY <1>2 DEF Shaped, Bounded
<1>4. /\ Shaped(Ask(kept)) /\ Bounded(Ask(kept)) /\ Ask(kept).queued # {}
      /\ Ask(kept).at = c.at /\ Ask(kept).reply = {}
  BY <1>2, AskWaits DEF Bounded
<1>5. Settled(c, overflow) \in {open, Ask(kept)}
  BY DEF Settled, rest
<1>6. ASSUME NEW s, Shaped(s), Bounded(s), s.at = c.at, s.reply = {},
             s.requested => s.queued # {}
      PROVE  /\ Shaped(Answered(s)) /\ Bounded(Answered(s)) /\ Waiting(Answered(s))
             /\ Answered(s).at = c.at
  BY <1>6 DEF Answered, Shaped, Bounded, Waiting, Timed, Honest
<1> HIDE DEF kept, open
<1>7. QED
  BY <1>3, <1>4, <1>5, <1>6

(* The answer to a request replaces what is shown, or is asked for again. *)
LEMMA ReceiptWaits ==
    ASSUME InboxInv, ReceiveReceipt
    PROVE  InboxInv'
<1>1. Tracking /\ Shaped(client) /\ Bounded(client) /\ Waiting(client)
  BY DEF InboxInv, ReceiveReceipt
<1> PICK r \in client.reply :
         IF r.asked # client.gen
         THEN client' = TryAgain(client)
         ELSE \E taken \in {Taken(client, r)} :
              \E now \in {ApplyLive(taken, Following(taken))} :
                client' = CASE r.ended -> Release(taken)
                            [] ~r.ended /\ now.at = "released" -> now
                            [] ~r.ended /\ now.at = "tracking" ->
                                 Answered(Settled(now, client.overflow))
  BY DEF ReceiveReceipt
<1>2. client.flight # {}
  BY <1>1 DEF Waiting, Honest
<1>3. CASE r.asked # client.gen
  <2>1. client' = TryAgain(client)
    BY <1>3
  <2>2. Shaped(client') /\ Bounded(client') /\ Waiting(client')
    BY <1>1, <1>2, <2>1 DEF TryAgain, Shaped, Bounded, Waiting, Timed, Honest
  <2>3. QED
    BY <2>2 DEF InboxInv, Tracking
<1>4. CASE ~(r.asked # client.gen)
  <2> DEFINE taken == Taken(client, r)
             now == ApplyLive(taken, Following(taken))
  <2>1. /\ Shaped(taken) /\ Bounded(taken) /\ Timed(taken) /\ taken.flight # {}
        /\ ~taken.requested /\ taken.reply = {} /\ taken.at = "tracking"
    BY <1>1, <1>2 DEF Taken, Shaped, Bounded, Waiting, Timed, Tracking
  <2>2. /\ Shaped(now) /\ Bounded(now)
        /\ \/ now.at = "released"
           \/ /\ now.at = "tracking" /\ Timed(now) /\ now.flight # {}
              /\ ~now.requested /\ now.reply = {}
    BY <2>1, LiveWaits DEF Timed
  <2>3. /\ Shaped(Release(taken)) /\ Bounded(Release(taken))
        /\ Release(taken).at = "released"
    BY FS_EmptySet, InboxAssumption DEF Release, Unknown, Shaped, Bounded
  <2>4. client' = CASE r.ended -> Release(taken)
                    [] ~r.ended /\ now.at = "released" -> now
                    [] ~r.ended /\ now.at = "tracking" ->
                         Answered(Settled(now, client.overflow))
    BY <1>4
  <2> HIDE DEF taken, now
  <2>5. CASE r.ended
    BY <2>3, <2>4, <2>5 DEF InboxInv, Tracking
  <2>6. CASE ~r.ended /\ now.at = "released"
    BY <2>2, <2>4, <2>6 DEF InboxInv, Tracking
  <2>7. CASE ~r.ended /\ now.at = "tracking"
    <3>1. client' = Answered(Settled(now, client.overflow))
      BY <2>4, <2>7
    <3>2. QED
      BY <2>2, <2>7, <3>1, SettledWaits DEF InboxInv
  <2>8. QED
    BY <2>2, <2>5, <2>6, <2>7
<1>5. QED
  BY <1>3, <1>4

(* Every step of the browser. *)
LEMMA BrowserWaits ==
    ASSUME InboxInv,
           \/ UNCHANGED client \/ ChannelNotice \/ ServerAnswers \/ FetchFails
           \/ TimerFires \/ ReceiveReceipt
           \/ \E m : ReceiveHint(m) \/ ReceiveEvent(m)
           \/ \E gen : Adopt(gen)
    PROVE  InboxInv'
<1>1. CASE UNCHANGED client
  BY <1>1 DEF InboxInv, Tracking
<1>2. CASE ChannelNotice \/ \E m : ReceiveHint(m)
  <2>1. client' = Ask(client) /\ Waiting(client) /\ Shaped(client) /\ Bounded(client)
    BY <1>2 DEF ChannelNotice, ReceiveHint, InboxInv
  <2>2. QED
    BY <2>1, AskWaits DEF InboxInv, Waiting, Bounded
<1>3. CASE \E m : ReceiveEvent(m)
  <2> PICK m : ReceiveEvent(m)
    BY <1>3
  <2>1. Waiting(client) /\ Shaped(client) /\ Bounded(client) /\ Tracking
    BY DEF ReceiveEvent, InboxInv
  <2>2. CASE client' = ApplyLive(client, 1)
    BY <2>1, <2>2, LiveWaits DEF InboxInv, Tracking, Waiting, Timed, Honest
  <2>3. CASE client' = Ask(Buffered(client, m))
    <3>1. LET b == Buffered(client, m) IN Shaped(b) /\ Bounded(b) /\ Waiting(b)
      BY <2>1, BufferedWaits
    <3>2. QED
      BY <2>3, <3>1, AskWaits DEF InboxInv, Waiting, Bounded
  <2>4. QED
    BY <2>2, <2>3 DEF ReceiveEvent
<1>4. CASE \E gen : Adopt(gen)
  <2> PICK gen : Adopt(gen)
    BY <1>4
  <2> DEFINE u == [Unknown EXCEPT !.at = "tracking", !.gen = gen]
  <2>1. Shaped(u) /\ Bounded(u) /\ Timed(u) /\ Honest(u) /\ ~u.requested
    BY FS_EmptySet, InboxAssumption DEF Unknown, Shaped, Bounded, Timed, Honest
  <2>2. client' = Ask(u)
    BY DEF Adopt
  <2> HIDE DEF u
  <2>3. QED
    BY <2>1, <2>2, AskWaits DEF InboxInv, Bounded
<1>5. CASE ServerAnswers
  <2>1. Waiting(client) /\ Shaped(client) /\ Bounded(client)
    BY <1>5 DEF ServerAnswers, InboxInv
  <2>2. PICK f \in client.flight : client' = [client EXCEPT !.reply = {Snapshot(f.gen)}]
    BY <1>5 DEF ServerAnswers
  <2>3. QED
    BY <2>1, <2>2 DEF InboxInv, Shaped, Bounded, Waiting, Timed, Honest
<1>6. CASE FetchFails
  BY <1>6 DEF FetchFails, TryAgain, InboxInv, Shaped, Bounded, Waiting, Timed, Honest
<1>7. CASE TimerFires
  <2> DEFINE c == [client EXCEPT !.timer = "none"]
  <2>1. Waiting(client) /\ Shaped(client) /\ Bounded(client)
    BY <1>7 DEF TimerFires, InboxInv
  <2>2. /\ Shaped(c) /\ Bounded(c) /\ Timed(c) /\ Honest(c) /\ c.queued = client.queued
        /\ c.flight = client.flight
    BY <2>1 DEF Shaped, Bounded, Waiting, Timed, Honest
  <2>3. client' = IF c.queued # {} THEN StartFetch(c) ELSE Ask(c)
    BY <1>7 DEF TimerFires
  <2> HIDE DEF c
  <2>4. CASE c.queued # {}
    BY <2>2, <2>3, <2>4 DEF StartFetch, InboxInv, Shaped, Bounded, Waiting, Timed, Honest
  <2>5. CASE c.queued = {}
    <3>1. c.requested => Waiting(c)
      BY <2>2, <2>5 DEF Honest, Waiting
    <3>2. QED
      BY <2>2, <2>3, <2>5, <3>1, AskWaits DEF InboxInv, Bounded
  <2>6. QED
    BY <2>4, <2>5
<1>8. QED
  BY <1>1, <1>2, <1>3, <1>4, <1>5, <1>6, <1>7, ReceiptWaits

(* So does every step of the system. *)
LEMMA InboxKept == InboxInv /\ [Next]_vars => InboxInv'
BY BrowserWaits
   DEF Next, vars, Provides, Controls, Concludes, Writes, EmitText, EmitSemantic,
       FinishAnswer, Overload, Stop, Claim, Prepare, Begin, Recover, Finalize,
       FinalizeFails, DeliverNext, TerminalBroadcasts, TerminalBroadcastFails,
       TerminalIsAcknowledged, Settle, Crash, Sweep, SweepReads, SweepCloses, UserCancels,
       ChannelDelivers, ChannelBreaks, Browser, BrowserFails, BrowserIsRefused

(* While the browser follows a turn it waits for an answer or for a timer    *)
(* that makes it ask, whatever fails and however requests and events cross:  *)
(* the coordinator's queue, flight and timers never all run dry.             *)
THEOREM BrowserNeverForgets == Spec => []NeverForgotten
<1>1. Init => InboxInv
  BY FS_EmptySet, InboxAssumption
     DEF Init, ClientInit, Unknown, InboxInv, Shaped, Bounded, Tracking
<1>2. InboxInv => NeverForgotten
  BY DEF InboxInv, Waiting, NeverForgotten
<1>3. QED
  BY <1>1, <1>2, InboxKept, PTL DEF Spec
=============================================================================
