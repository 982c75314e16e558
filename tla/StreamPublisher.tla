--------------------------- MODULE StreamPublisher ---------------------------
(***************************************************************************)
(* AgenticChatStreamPublisher for one turn.  Text and semantic events wait *)
(* in a queue; its head is persisted, then broadcast, then acknowledged,   *)
(* and only then leaves the queue.  Whenever it cannot know what became of *)
(* an event it goes on in reconcile-only mode: it keeps persisting and     *)
(* sends hints in place of events.                                         *)
(***************************************************************************)
EXTENDS StreamStore

VARIABLES
    pub,            \* the publisher's state of the turn
    io,             \* the write of the head of the queue, step by step
    term,           \* the delivery of what the terminal transaction committed
    sent,           \* what the channel was given: it loses, repeats and
                    \* reorders, so any of it may arrive at any time
    late,           \* calls given up on that the database has yet to see
    faults          \* how many calls have failed

publisherVars == <<pub, io, term, sent, late, faults>>

Operation == [kind : {"text", "semantic"}, id : Nat, to : Texts, inFlight : BOOLEAN]

Publisher == [
    at      : {"none", "open", "abandoned"},
    text    : Texts,            \* assistantText
    durable : Nat,              \* durableSequence
    ops     : Seq(Operation),   \* operations
    busy    : BOOLEAN,
    only    : BOOLEAN,          \* reconcileOnly
    blocked : BOOLEAN]          \* blockedReason is set

NoWrite == [kind |-> "text", id |-> 0, to |-> 0]

IOState == [
    pc  : {"idle", "request", "reply", "send", "ack"},
    op  : Write,                \* the payload as it was sent
    ans : Answer]

IOIdle == [pc |-> "idle", op |-> NoWrite, ans |-> Refused("raised")]

TermState == [pc : {"idle", "send", "ack", "sendDone", "ackDone"}, seq : Nat]
TermIdle == [pc |-> "idle", seq |-> 0]

Message == [hint : BOOLEAN, gen : 1..MaxGenerations, seq : 1..MaxLog]
LateCall == [call : {"write"}, op : Write] \cup [call : {"ack"}, seq : Nat]

PublisherTypeOK ==
    /\ pub \in Publisher
    /\ io \in IOState
    /\ term \in TermState
    /\ sent \subseteq Message
    /\ late \subseteq LateCall
    /\ faults \in 0..MaxFaults

Absent == [at |-> "none", text |-> 0, durable |-> 0, ops |-> <<>>,
           busy |-> FALSE, only |-> FALSE, blocked |-> FALSE]

PublisherInit ==
    /\ pub = Absent
    /\ io = IOIdle
    /\ term = TermIdle
    /\ sent = {}
    /\ late = {}
    /\ faults = 0

-----------------------------------------------------------------------------
(* What one call does to the publisher's state *)

Event(seq) == [hint |-> FALSE, gen |-> turn.gen, seq |-> seq]
Hint(seq) == [hint |-> TRUE, gen |-> turn.gen, seq |-> seq]

Fails == faults < MaxFaults /\ faults' = faults + 1
NoFault == UNCHANGED <<late, faults>>

(* A call given up on: it is never executed, or later. *)
GivenUp(call) == Fails /\ late' \in {late, late \cup {call}}

Writable == pub.at = "open" /\ ~pub.blocked
Drained == pub.ops = <<>> /\ ~pub.busy

Merges == pub.ops # <<>> /\ LET last == pub.ops[Len(pub.ops)]
                            IN  last.kind = "text" /\ ~last.inFlight

(* rejectOperations *)
Rejected(p) == [p EXCEPT !.blocked = TRUE, !.only = TRUE, !.ops = <<>>,
                         !.busy = FALSE]

(* enterReconcileOnly *)
ReconcileOnly(p) == [p EXCEPT !.only = TRUE]

(* completeOperation; an operation rejected in the meantime is not there. *)
Completed(p) ==
    IF p.ops = <<>> THEN p
    ELSE [p EXCEPT !.ops = Tail(@), !.busy = FALSE]

(* deferRetry *)
Deferred(p) ==
    IF p.at = "abandoned" THEN p
    ELSE [p EXCEPT !.busy = FALSE,
                   !.ops = IF @ = <<>> THEN @ ELSE [@ EXCEPT ![1].inFlight = FALSE]]

-----------------------------------------------------------------------------
(* What the executor calls *)

RegisterTurn == pub' = [Absent EXCEPT !.at = "open"]

AppendText ==
    /\ Writable /\ pub.text < MaxText
    /\ pub' = [pub EXCEPT
         !.text = @ + 1,
         !.ops = IF Merges
                 THEN [@ EXCEPT ![Len(@)].to = pub.text + 1]
                 ELSE Append(@, [kind |-> "text", id |-> pub.text,
                                 to |-> pub.text + 1, inFlight |-> FALSE])]

(* A chunk beyond a hard limit: it is kept in the text and nowhere else. *)
OverloadText ==
    /\ Writable /\ pub.text < MaxText
    /\ pub' = [Rejected(pub) EXCEPT !.text = @ + 1]

PublishSemantic(id) ==
    /\ Writable
    /\ pub' = [pub EXCEPT !.ops = Append(@, [kind |-> "semantic", id |-> id,
                                             to |-> pub.text, inFlight |-> FALSE])]

(* The publisher forgets the turn; a write under way finds it abandoned. *)
Abandoned == [Absent EXCEPT !.at = "abandoned", !.only = TRUE, !.blocked = TRUE]

(* safeUnregisterPublisher *)
Unregistered(p) ==
    CASE p.at # "open"             -> p
      [] p.at = "open" /\ ~Drained -> Abandoned
      [] p.at = "open" /\ Drained  -> Absent

-----------------------------------------------------------------------------
(* The write loop *)

(* drainAvailable picks the turn up. *)
Flush ==
    /\ pub.at = "open" /\ ~pub.busy /\ pub.ops # <<>> /\ io.pc = "idle"
    /\ pub' = [pub EXCEPT !.busy = TRUE, !.ops[1].inFlight = TRUE]
    /\ io' = [IOIdle EXCEPT !.pc = "request",
                !.op = [kind |-> pub.ops[1].kind, id |-> pub.ops[1].id,
                        to |-> pub.ops[1].to]]
    /\ UNCHANGED <<storeVars, term, sent, late, faults>>

RequestArrives ==
    /\ io.pc = "request"
    /\ Persist(io.op)
    /\ io' = [io EXCEPT !.pc = "reply", !.ans = AnswerTo(io.op)]
    /\ UNCHANGED <<pub, term, sent, late, faults>>

(* Mutant of RequestFails: no answer is taken for success. *)
RequestFails_assumed ==
    /\ io.pc = "request"
    /\ GivenUp([call |-> "write", op |-> io.op])
    /\ io' = [io EXCEPT !.pc = "send",
                 !.ans = [out |-> "persisted", seq |-> pub.durable + 1]]
    /\ UNCHANGED <<storeVars, pub, term, sent>>

RequestFails ==
    /\ io.pc = "request"
    /\ GivenUp([call |-> "write", op |-> io.op])
    /\ pub' = Deferred(pub)
    /\ io' = IOIdle
    /\ UNCHANGED <<storeVars, term, sent>>

ReplyIsLost ==
    /\ io.pc = "reply"
    /\ Fails
    /\ pub' = Deferred(pub)
    /\ io' = IOIdle
    /\ UNCHANGED <<storeVars, term, sent, late>>

(* maybeHint: rate limited, and its own failure changes nothing.  An older *)
(* hint asks for nothing that the latest does not ask for.                 *)
MaybeHint(seq) == sent' \in {sent, {m \in sent : ~m.hint} \cup {Hint(seq)}}

(* deliverPersisted, up to the broadcast *)
Receive(p) ==
    LET fits == /\ io.ans.out \in {"persisted", "already_persisted"}
                /\ io.ans.seq = p.durable + 1
        next == [p EXCEPT !.durable = io.ans.seq]
    IN  \/ /\ ~fits
           /\ pub' = Rejected(p)
           /\ io' = IOIdle
           /\ UNCHANGED sent
        \/ /\ fits /\ (p.only \/ io.ans.out = "already_persisted")
           /\ MaybeHint(io.ans.seq)
           /\ pub' = Completed(ReconcileOnly(next))
           /\ io' = IOIdle
        \/ /\ fits /\ ~p.only /\ io.ans.out = "persisted"
           /\ pub' = next
           /\ io' = [io EXCEPT !.pc = "send"]
           /\ UNCHANGED sent

ReplyArrives ==
    /\ io.pc = "reply"
    /\ \/ /\ pub.at = "abandoned"
          /\ io' = IOIdle
          /\ UNCHANGED <<pub, sent>>
       \/ pub.at # "abandoned" /\ Receive(pub)
    /\ UNCHANGED <<storeVars, term, late, faults>>

Broadcasts ==
    /\ io.pc = "send"
    /\ sent' = sent \cup {Event(io.ans.seq)}
    /\ io' = [io EXCEPT !.pc = "ack"]
    /\ UNCHANGED <<storeVars, pub, term, late, faults>>

(* A failed broadcast may have gone out all the same. *)
BroadcastFails ==
    /\ io.pc = "send"
    /\ Fails
    /\ sent' \in {sent, sent \cup {Event(io.ans.seq)}}
    /\ pub' = Completed(ReconcileOnly(pub))
    /\ io' = IOIdle
    /\ UNCHANGED <<storeVars, term, late>>

(* didAcknowledgeAgenticChatStreamDeliveryV1 *)
Cleared(seq) == AckAnswer(seq) \in {"acknowledged", "already_acknowledged"}

(***************************************************************************)
(* acknowledge: anything but a cleared flag leaves the delivery uncertain. *)
(* p is what becomes of the publisher's state.                             *)
(***************************************************************************)
AckStep(seq, p) ==
    \/ /\ Acknowledge(seq) /\ NoFault
       /\ p = IF Cleared(seq) THEN pub ELSE ReconcileOnly(pub)
    \/ /\ Acknowledge(seq) /\ Fails /\ UNCHANGED late
       /\ p = ReconcileOnly(pub)
    \/ /\ GivenUp([call |-> "ack", seq |-> seq]) /\ UNCHANGED storeVars
       /\ p = ReconcileOnly(pub)

WriteIsAcknowledged ==
    /\ io.pc = "ack"
    /\ \E p \in {pub, ReconcileOnly(pub)} :
         AckStep(io.ans.seq, p) /\ pub' = Completed(p)
    /\ io' = IOIdle
    /\ UNCHANGED <<term, sent>>

LateCallArrives ==
    /\ \E c \in late :
         /\ late' = late \ {c}
         /\ \/ c.call = "write" /\ Persist(c.op)
            \/ c.call = "ack" /\ Acknowledge(c.seq)
    /\ UNCHANGED <<pub, io, term, sent, faults>>
=============================================================================
