------------------------------ MODULE TurnStream ------------------------------
(***************************************************************************)
(* One worker turn from the first chunk of its text to the window that     *)
(* shows it: the executor that produces and ends it, the publisher, the    *)
(* stored procedures, the channel, and the browser.  A call that fails, a  *)
(* crash, and a request of the browser that fails each count as a fault.   *)
(* The channel needs none: it may lose, repeat or reorder all it is given. *)
(***************************************************************************)
EXTENDS StreamPublisher, RealtimeInbox

VARIABLES
    exec,           \* the executor, as far as it concerns the stream
    closing         \* finalize calls of the sweeps, on their way

vars == <<turn, owned, stream, log, pub, io, term, sent, late, faults, client, exec,
          closing>>
workerVars == <<pub, io, term, sent, late>>

(***************************************************************************)
(* "finalize" is the call that closes the turn, "deliver" the publication  *)
(* of what that call committed, "settle" the completion of the job.        *)
(***************************************************************************)
Executor == [
    pc      : {"idle", "starting", "answering", "recover", "finalize",
               "deliver", "settle"},
    started : BOOLEAN,                      \* executionStarted
    status  : Terminal,                     \* how it closes the turn
    text    : Texts,                        \* assistantText
    publish : BOOLEAN,                      \* mayPublishTerminal
    k       : 0..2,                         \* events committed before done
    tried   : BOOLEAN,                      \* retried without timing
    next    : Nat]                          \* what it delivers next

Idle == [pc |-> "idle", started |-> FALSE, status |-> "failed", text |-> 0,
         publish |-> FALSE, k |-> 0, tried |-> FALSE, next |-> 0]

(* What a sweep read and how it is going to close the turn. *)
SweepCall == [gen : 0..MaxGenerations, status : {"failed", "cancelled"}, text : Texts]

TypeOK ==
    /\ StoreTypeOK /\ PublisherTypeOK /\ ClientTypeOK
    /\ exec \in Executor
    /\ closing \subseteq SweepCall

Init == StoreInit /\ PublisherInit /\ ClientInit /\ exec = Idle /\ closing = {}

-----------------------------------------------------------------------------
(* Claim and start *)

Claim ==
    /\ exec.pc = "idle"
    /\ ClaimTurn
    /\ exec' = [Idle EXCEPT !.pc = "starting"]
    /\ UNCHANGED <<workerVars, faults, client, closing>>

Prepare ==
    /\ exec.pc = "starting" /\ pub.at # "open"
    /\ RegisterTurn
    /\ UNCHANGED <<storeVars, io, term, sent, late, faults, client, exec, closing>>

(* The start fence; its answer may be lost. *)
Begin ==
    /\ exec.pc = "starting" /\ pub.at = "open"
    /\ BeginTurn
    /\ \/ exec' = [exec EXCEPT !.pc = "answering", !.started = TRUE] /\ UNCHANGED faults
       \/ exec' = [exec EXCEPT !.pc = "recover"] /\ Fails
    /\ UNCHANGED <<workerVars, client, closing>>

-----------------------------------------------------------------------------
(* Answering: the executor awaits the delivery of one event before the next *)

(* Mutant of Awaited: events are handed over without waiting. *)
Awaited_not == exec.pc = "answering"

Awaited == exec.pc = "answering" /\ pub.ops = <<>>

EmitText ==
    /\ Awaited
    /\ AppendText
    /\ UNCHANGED <<storeVars, io, term, sent, late, faults, client, exec, closing>>

EmitSemantic ==
    /\ Awaited
    /\ LET used == {log[i].id : i \in {j \in 1..Len(log) : log[j].kind = "semantic"}}
                   \cup {pub.ops[i].id : i \in {j \in 1..Len(pub.ops) :
                                                  pub.ops[j].kind = "semantic"}}
       IN  \E id \in (1..MaxSemantic) \ used :
             (\A d \in 1..(id - 1) : d \in used) /\ PublishSemantic(id)
    /\ UNCHANGED <<storeVars, io, term, sent, late, faults, client, exec, closing>>

Overload ==
    /\ Awaited
    /\ OverloadText
    /\ exec' = [exec EXCEPT !.pc = "recover", !.text = pub.text + 1]
    /\ UNCHANGED <<storeVars, io, term, sent, late, faults, client, closing>>

(* A cancellation, a time limit, a denied start, a provider that fails, or a *)
(* delivery that was rejected                                                *)
Stop ==
    /\ exec.pc \in {"starting", "answering"}
    /\ exec' = [exec EXCEPT !.pc = "recover", !.text = pub.text]
    /\ UNCHANGED <<storeVars, workerVars, faults, client, closing>>

-----------------------------------------------------------------------------
(* Ending *)

(* finalize, up to the call: a write that is still under way is abandoned. *)
Closing(status, text, ks, publish) ==
    /\ pub' = IF publish /\ ~Drained THEN Abandoned ELSE pub
    /\ \E k \in ks : exec' = [exec EXCEPT !.pc = "finalize", !.status = status,
         !.text = text, !.k = k, !.tried = FALSE, !.publish = publish /\ Drained]

FinishAnswer ==
    /\ Awaited /\ ~pub.blocked /\ ~pub.busy
    /\ Closing("completed", pub.text, {1, 2}, TRUE)
    /\ UNCHANGED <<storeVars, io, term, sent, late, faults, client, closing>>

(* Back to the queue loop, with safeUnregisterPublisher *)
Over(p) == pub' = Unregistered(p) /\ exec' = Idle

(* Timing and its companion event need a started execution, and for a *)
(* cancelled one some text.                                           *)
Extras(status) ==
    IF exec.started /\ (status = "cancelled" => exec.text > 0) THEN {0, 2} ELSE {0}

(* recover_agentic_chat_turn and what the executor makes of its answer *)
Recover ==
    /\ exec.pc = "recover"
    /\ \/ /\ Ended
          /\ SettleJob /\ Over(pub) /\ UNCHANGED faults
       \/ /\ ~Ended /\ ~owned
          /\ UNCHANGED <<storeVars, faults>> /\ Over(pub)
       \/ /\ ~turn.begun
          /\ RequeueTurn /\ Over(pub) /\ UNCHANGED faults
       \/ /\ Held
          /\ LET status == IF turn.cancel THEN "cancelled" ELSE "failed"
             IN  Closing(status, exec.text, Extras(status), pub.at = "open")
          /\ UNCHANGED <<storeVars, faults>>
       \/ /\ Fails
          /\ UNCHANGED storeVars /\ Over(pub)
    /\ UNCHANGED <<io, term, sent, late, client, closing>>

Finalize ==
    /\ exec.pc = "finalize" /\ FinalizeAnswer(exec.status, exec.text) # "raised"
    /\ FinalizeTurn(exec.status, exec.text, exec.k)
    /\ exec' =
         CASE FinalizeAnswer(exec.status, exec.text) = "finalized" ->
                [exec EXCEPT !.pc = IF exec.publish THEN "deliver" ELSE "settle",
                             !.next = Len(log) + 1]
           [] FinalizeAnswer(exec.status, exec.text) = "already_terminal" ->
                [exec EXCEPT !.pc = "settle"]
           [] FinalizeAnswer(exec.status, exec.text) = "cancel_requested" ->
                [exec EXCEPT !.pc = "recover", !.started = FALSE]
    /\ UNCHANGED <<workerVars, faults, client, closing>>

(* The call is refused or fails, before or after its effect: with timing it *)
(* is tried once more without, and otherwise the turn is left to the sweep. *)
FinalizeFails ==
    /\ exec.pc = "finalize"
    /\ \/ Fails /\ FinalizeTurn(exec.status, exec.text, exec.k)
       \/ Fails /\ UNCHANGED storeVars
       \/ FinalizeAnswer(exec.status, exec.text) = "raised" /\ UNCHANGED <<storeVars, faults>>
    /\ IF exec.k = 2
       THEN /\ exec' = [exec EXCEPT !.tried = TRUE,
                          !.k = IF exec.status = "completed" THEN 1 ELSE 0]
            /\ UNCHANGED pub
       ELSE Over(pub)
    /\ UNCHANGED <<io, term, sent, late, client, closing>>

-----------------------------------------------------------------------------
(* publishCommittedSemantic and publishTerminal *)

Delivering == exec.pc = "deliver" /\ term.pc = "idle"

Settling == exec' = [exec EXCEPT !.pc = "settle"]

Delivers(e) == [exec EXCEPT !.next = @ + 1, !.pc = IF e = "done" THEN "settle" ELSE @]

DeliverNext ==
    /\ Delivering
    /\ LET fits == Drained /\ exec.next = pub.durable + 1
           last == exec.next = Len(log)
           next == [pub EXCEPT !.durable = exec.next]
       IN  \/ /\ ~fits
              /\ pub' = IF Drained /\ ~last THEN Rejected(pub) ELSE pub
              /\ Settling
              /\ UNCHANGED <<term, sent>>
           \/ /\ fits /\ ~last /\ pub.only
              /\ pub' = next
              /\ MaybeHint(exec.next)
              /\ Settling
              /\ UNCHANGED term
           \/ /\ fits /\ (last \/ ~pub.only)
              /\ pub' = next
              /\ term' = [pc |-> IF last THEN "sendDone" ELSE "send", seq |-> exec.next]
              /\ UNCHANGED <<sent, exec>>
    /\ UNCHANGED <<storeVars, io, late, faults, client, closing>>

TerminalBroadcasts ==
    /\ term.pc \in {"send", "sendDone"}
    /\ sent' = sent \cup {Event(term.seq)}
    /\ IF term.pc = "sendDone" /\ pub.only
       THEN term' = TermIdle /\ exec' = Delivers("done")
       ELSE /\ term' = [term EXCEPT !.pc = IF @ = "send" THEN "ack" ELSE "ackDone"]
            /\ UNCHANGED exec
    /\ UNCHANGED <<storeVars, pub, io, late, faults, client, closing>>

(* An event ends the delivery here; done is tried again a few times. *)
TerminalBroadcastFails ==
    /\ term.pc \in {"send", "sendDone"}
    /\ Fails
    /\ sent' \in {sent, sent \cup {Event(term.seq)}}
    /\ pub' = ReconcileOnly(pub)
    /\ term' = TermIdle
    /\ Settling
    /\ UNCHANGED <<storeVars, io, late, client, closing>>

TerminalIsAcknowledged ==
    /\ term.pc \in {"ack", "ackDone"}
    /\ \E p \in {pub, ReconcileOnly(pub)} : AckStep(term.seq, p) /\ pub' = p
    /\ term' = TermIdle
    /\ exec' = Delivers(IF term.pc = "ackDone" THEN "done" ELSE "event")
    /\ UNCHANGED <<io, sent, client, closing>>

(* reconcileTerminalQueue *)
Settle ==
    /\ exec.pc = "settle"
    /\ \/ SettleJob /\ UNCHANGED faults
       \/ Fails /\ UNCHANGED storeVars
    /\ Over(pub)
    /\ UNCHANGED <<io, term, sent, late, client, closing>>

-----------------------------------------------------------------------------
(* The process, the sweep, the user and the channel *)

(* What was on its way to the database may still arrive. *)
Crash ==
    /\ exec.pc # "idle" \/ io.pc # "idle"
    /\ Fails
    /\ late' \in {late} \cup (IF io.pc = "request"
                              THEN {late \cup {[call |-> "write", op |-> io.op]}} ELSE {})
    /\ pub' = Absent /\ io' = IOIdle /\ term' = TermIdle /\ exec' = Idle
    /\ UNCHANGED <<storeVars, sent, client, closing>>

(***************************************************************************)
(* AgenticChatStalledRecoverySweep, for an owner that is gone; what it has *)
(* sent may still be on its way.  A turn is put back, or the job of an     *)
(* ended one is settled, by recover alone.                                 *)
(***************************************************************************)
OwnerIsGone == exec.pc = "idle" /\ io.pc = "idle"

Sweep ==
    /\ OwnerIsGone
    /\ RequeueTurn \/ (Ended /\ owned /\ SettleJob)
    /\ UNCHANGED <<workerVars, faults, client, exec, closing>>

(* Mutant of SweepReads: a turn that was started is left alone. *)
SweepReads_ifUnstarted ==
    /\ OwnerIsGone /\ Held /\ ~turn.begun
    /\ closing' = closing \cup
         {[gen |-> turn.gen, status |-> IF turn.cancel THEN "cancelled" ELSE "failed",
           text |-> stream.text]}
    /\ UNCHANGED <<storeVars, workerVars, faults, client, exec>>

(* The decision of recover and the snapshot of the text.  A cancellation in *)
(* between is no matter: finalize refuses to fail a cancelled turn.         *)
SweepReads ==
    /\ OwnerIsGone /\ Held
    /\ closing' = closing \cup
         {[gen |-> turn.gen, status |-> IF turn.cancel THEN "cancelled" ELSE "failed",
           text |-> stream.text]}
    /\ UNCHANGED <<storeVars, workerVars, faults, client, exec>>

(* Its finalize, with the text of its snapshot: it finds the turn claimed    *)
(* anew, ended, cancelled or with more text, or closes it, or fails.  Unless *)
(* the turn has ended, the sweep starts over.                                *)
SweepCloses ==
    /\ \E c \in closing :
         /\ closing' = closing \ {c}
         /\ \/ c.gen = turn.gen /\ FinalizeTurn(c.status, c.text, 0) /\ UNCHANGED faults
            \/ c.gen # turn.gen /\ UNCHANGED <<storeVars, faults>>
            \/ Fails /\ UNCHANGED storeVars
    /\ UNCHANGED <<workerVars, client, exec>>

UserCancels ==
    /\ Tracking
    /\ RequestCancel
    /\ UNCHANGED <<workerVars, faults, client, exec, closing>>

ChannelDelivers ==
    /\ \E m \in sent :
         IF m.hint THEN ReceiveHint([gen |-> m.gen, seq |-> m.seq])
                   ELSE ReceiveEvent([gen |-> m.gen, seq |-> m.seq])
    /\ UNCHANGED <<storeVars, publisherVars, exec, closing>>

BrowserFails ==
    /\ FetchMayFail
    /\ FetchFails /\ Fails
    /\ UNCHANGED <<storeVars, workerVars, exec, closing>>

(* What the procedure raises reaches the browser as a failed request. *)
BrowserIsRefused ==
    /\ ~Reconcilable
    /\ FetchFails
    /\ UNCHANGED <<storeVars, publisherVars, exec, closing>>

Browser ==
    /\ \/ \E gen \in 0..MaxGenerations : Adopt(gen)
       \/ ServerAnswers
       \/ ReceiveReceipt
       \/ TimerFires
    /\ UNCHANGED <<storeVars, publisherVars, exec, closing>>

ChannelBreaks ==
    /\ ChannelNotice
    /\ UNCHANGED <<storeVars, publisherVars, exec, closing>>

Provides == EmitText \/ EmitSemantic \/ FinishAnswer \/ Overload \/ Stop
Controls == Claim \/ Prepare \/ Begin \/ Recover \/ Finalize \/ FinalizeFails
Concludes == DeliverNext \/ TerminalBroadcasts \/ TerminalBroadcastFails
             \/ TerminalIsAcknowledged \/ Settle
Writes == Flush \/ RequestArrives \/ RequestFails \/ ReplyIsLost \/ ReplyArrives
          \/ Broadcasts \/ BroadcastFails \/ WriteIsAcknowledged \/ LateCallArrives

Next ==
    \/ Provides
    \/ Controls
    \/ Concludes
    \/ Writes /\ UNCHANGED <<client, exec, closing>>
    \/ Crash
    \/ Sweep
    \/ SweepReads
    \/ SweepCloses
    \/ UserCancels
    \/ ChannelDelivers
    \/ ChannelBreaks
    \/ Browser
    \/ BrowserFails
    \/ BrowserIsRefused

Spec == Init /\ [][Next]_vars

(***************************************************************************)
(* The worker's steps are taken while its process lives; every call has a  *)
(* time limit, so it succeeds or fails.  The sweep and the browser's       *)
(* timers and requests run on.  The channel owes nothing.                  *)
(***************************************************************************)
Fairness ==
    /\ WF_vars(Provides \/ Controls \/ Concludes)
    /\ WF_vars(Writes /\ UNCHANGED <<client, exec, closing>>)
    /\ WF_vars(Sweep)
    /\ WF_vars(SweepReads)
    /\ WF_vars(SweepCloses)
    /\ WF_vars(Browser)
    /\ WF_vars(BrowserIsRefused)

FairSpec == Spec /\ Fairness

-----------------------------------------------------------------------------
(* Properties *)

(* Once an event was not sent, the row says that it has to be reconciled: a *)
(* cleared reconcile_required means that every event went to the channel.   *)
ClearedMeansSent ==
    ~stream.required => \A i \in 1..Len(log) : Event(i) \in sent

(* An event is sent only after it is durable, and hints only name durable   *)
(* sequence numbers: persist before broadcast (eventMessage, maybeHint).    *)
SentIsDurable == \A m \in sent : m.gen = turn.gen => m.seq <= Len(log)

(* Whatever is retried, delayed or repeated, the log has each chunk and     *)
(* each transition once, in order, and an event carries the text before it. *)
LogIsExact ==
    \A i \in 1..Len(log) :
      LET before == {log[j].to : j \in {j \in 1..(i - 1) : log[j].kind = "text"}}
          text == CHOOSE t \in before \cup {0} : \A b \in before : b <= t
      IN  /\ log[i].kind = "text" => log[i].id = text /\ log[i].to > text
          /\ log[i].kind = "semantic" /\ log[i].id > 0 =>
                /\ log[i].to = text
                /\ \A j \in 1..(i - 1) : log[j].kind = "semantic" => log[j].id # log[i].id
          /\ log[i].kind = "done" => i = Len(log)

(* The window shows a prefix of what is stored: no chunk twice, none left   *)
(* out, none that is not durable.                                           *)
ShownIsPrefix == client.shown = Whole(Len(client.shown)) /\ Len(client.shown) <= stream.text

(* A write is never answered with a conflict: the publisher does not change *)
(* a batch after it was sent.                                               *)
NoSelfConflict == io.pc = "reply" => io.ans.out # "conflict"

(* While a turn is followed, a request is under way or a timer is armed.    *)
NeverForgotten == Tracking => client.flight # {} \/ client.timer # "none"

(* A completed turn is shown whole.                                         *)
CompletedIsWhole ==
    client.at = "released" /\ turn.status = "completed" => Len(client.shown) = stream.text

(* What a reader of the turn is promised. *)
T == INSTANCE Transcript WITH
       Length <- MaxText, stored <- stream.text, ended <- Ended,
       read <- Len(client.shown), informed <- client.at = "released"

ImplementsTranscript == T!Spec

(* A turn that was started ends. *)
StartedEnds == turn.begun ~> Ended

(* The browser learns of the end of every turn that was claimed. *)
EndIsLearnt == (Ended /\ turn.gen > 0) ~> client.at = "released"

(* The browser learns of the end of every turn. *)
EveryEndIsLearnt == Ended ~> client.at = "released"

(* Without any fault the end of a completed turn reaches the channel. *)
DoneIsLive ==
    faults = 0 /\ exec.pc = "settle" /\ turn.status = "completed" =>
        Event(Len(log)) \in sent
===============================================================================
