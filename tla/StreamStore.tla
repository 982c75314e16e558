----------------------------- MODULE StreamStore -----------------------------
(***************************************************************************)
(* The transcript of one worker turn as the stored procedures keep it: the *)
(* row of the turn, its stream state and what each sequence number stands  *)
(* for.  Every procedure runs under the lock of the turn's row.            *)
(*                                                                         *)
(* The assistant's text is the number of chunks it consists of: a provider *)
(* only ever appends, so a shorter text is a prefix of a longer one.  A    *)
(* batch of text carries the chunks after its id, up to its end; where it  *)
(* starts tells one batch id from another.                                 *)
(***************************************************************************)
EXTENDS Naturals, Sequences

CONSTANTS
    MaxText,        \* bound: chunks the provider emits
    MaxSemantic,    \* bound: semantic events of an execution
    MaxGenerations, \* bound: claims of the turn
    MaxFaults       \* bound: calls that fail, on either side

ASSUME StreamAssumption ==
    MaxText \in Nat /\ MaxSemantic \in Nat /\ MaxGenerations \in Nat
    /\ MaxFaults \in Nat

VARIABLES
    turn,           \* chat_turn_runs
    owned,          \* the job is processing under the last claim's token
    stream,         \* chat_turn_stream_state
    log             \* what each sequence number stands for

storeVars == <<turn, owned, stream, log>>

None == "none"
Terminal == {"completed", "failed", "cancelled"}
Ended == turn.status \in Terminal
Texts == 0..MaxText

(* The terminal transaction adds three entries at most. *)
MaxLog == MaxText + MaxSemantic + 3

Entry == [kind : {"text", "semantic", "done"}, id : Nat, to : Texts]
Write == [kind : {"text", "semantic"}, id : Nat, to : Texts]
Answer == [out : {"persisted", "already_persisted", "already_terminal",
                  "cancel_requested", "conflict", "raised"}, seq : Nat]

TurnRecord == [
    status : {"queued", "running"} \cup Terminal,
    gen    : 0..MaxGenerations,     \* execution_generation
    begun  : BOOLEAN,               \* execution_started_at is set
    cancel : BOOLEAN]               \* cancel_requested_at is set

StreamRecord == [
    text     : Texts,               \* assistant_text
    batchSeq : Nat,                 \* last_text_sequence; its entry in the log
                                    \* has the batch's id and end
    required : BOOLEAN]             \* reconcile_required

StoreTypeOK ==
    /\ turn \in TurnRecord
    /\ owned \in BOOLEAN
    /\ stream \in StreamRecord
    /\ log \in Seq(Entry) /\ Len(log) <= MaxLog

EmptyStream == [text |-> 0, batchSeq |-> 0, required |-> FALSE]

StoreInit ==
    /\ turn = [status |-> "queued", gen |-> 0, begun |-> FALSE, cancel |-> FALSE]
    /\ owned = FALSE
    /\ stream = EmptyStream
    /\ log = <<>>

-----------------------------------------------------------------------------
(* Control: the claim, the start fence, the requeue and the cancellation *)

ClaimTurn ==
    /\ turn.status = "queued" /\ turn.gen < MaxGenerations
    /\ turn' = [turn EXCEPT !.status = "running", !.gen = @ + 1]
    /\ owned' = TRUE
    /\ stream' = EmptyStream
    /\ log' = <<>>

BeginTurn ==
    /\ turn.status = "running" /\ owned /\ ~turn.cancel
    /\ turn' = [turn EXCEPT !.begun = TRUE]
    /\ UNCHANGED <<owned, stream, log>>

(* schedule_retry, before anything was started *)
RequeueTurn ==
    /\ turn.status = "running" /\ owned /\ ~turn.begun /\ ~turn.cancel
    /\ turn.gen < MaxGenerations
    /\ turn' = [turn EXCEPT !.status = "queued"]
    /\ owned' = FALSE
    /\ UNCHANGED <<stream, log>>

Done(text) == [kind |-> "done", id |-> 0, to |-> text]

(* The terminal transaction: k committed events, then done. *)
Close(status, text, k) ==
    /\ turn' = [turn EXCEPT !.status = status]
    /\ log' = log \o [i \in 1..k |-> [kind |-> "semantic", id |-> 0, to |-> text]]
                  \o <<Done(text)>>
    /\ stream' = [stream EXCEPT !.text = text, !.required = TRUE]

(* A turn nobody works on is closed at once; a running one is told. *)
RequestCancel ==
    \/ /\ turn.status = "queued"
       /\ turn' = [turn EXCEPT !.status = "cancelled", !.cancel = TRUE]
       /\ log' = <<Done(0)>>
       /\ stream' = [stream EXCEPT !.text = 0, !.required = TRUE]
       /\ UNCHANGED owned
    \/ /\ turn.status = "running" /\ ~turn.cancel
       /\ turn' = [turn EXCEPT !.cancel = TRUE]
       /\ UNCHANGED <<owned, stream, log>>

-----------------------------------------------------------------------------
(* Writing *)

Refused(out) == [out |-> out, seq |-> 0]

Held == turn.status = "running" /\ owned

(* The checks that both write procedures begin with. *)
Refusal ==
    CASE Ended                 -> "already_terminal"
      [] ~Ended /\ ~Held       -> "raised"
      [] Held /\ turn.cancel   -> "cancel_requested"
      [] Held /\ ~turn.cancel  -> None

LastBatch(op) == stream.batchSeq > 0 /\ log[stream.batchSeq].id = op.id

Appended(ok) ==
    IF ok THEN [out |-> "persisted", seq |-> Len(log) + 1] ELSE Refused("conflict")

TextAnswer(op) ==
    CASE Refusal # None -> Refused(Refusal)
      [] Refusal = None /\ LastBatch(op) ->
            IF log[stream.batchSeq].to = op.to /\ op.to <= stream.text
            THEN [out |-> "already_persisted", seq |-> stream.batchSeq]
            ELSE Refused("conflict")
      [] Refusal = None /\ ~LastBatch(op) -> Appended(op.id = stream.text)

Written(op) ==
    {i \in 1..Len(log) : log[i].kind = "semantic" /\ log[i].id = op.id}

SemanticAnswer(op) ==
    CASE Refusal # None -> Refused(Refusal)
      [] Refusal = None /\ Written(op) # {} ->
            [out |-> "already_persisted", seq |-> CHOOSE i \in Written(op) : TRUE]
      [] Refusal = None /\ Written(op) = {} -> Appended(stream.text <= op.to)

AnswerTo(op) == IF op.kind = "text" THEN TextAnswer(op) ELSE SemanticAnswer(op)

(* Mutant of Persist: a repeated batch or transition is written again. *)
Persist_everyTime(op) ==
    /\ IF Refusal = None
       THEN /\ log' = Append(log, op)
            /\ stream' = [text |-> op.to, required |-> TRUE,
                          batchSeq |-> IF op.kind = "text" THEN Len(log) + 1
                                                           ELSE stream.batchSeq]
       ELSE UNCHANGED <<stream, log>>
    /\ UNCHANGED <<turn, owned>>

(* What a write changes; its answer is AnswerTo(op) before the step. *)
Persist(op) ==
    /\ IF AnswerTo(op).out = "persisted"
       THEN /\ log' = Append(log, op)
            /\ stream' = [text |-> op.to, required |-> TRUE,
                          batchSeq |-> IF op.kind = "text" THEN Len(log) + 1
                                                           ELSE stream.batchSeq]
       ELSE UNCHANGED <<stream, log>>
    /\ UNCHANGED <<turn, owned>>

(* acknowledge_agentic_chat_stream_delivery *)
AckAnswer(seq) ==
    CASE ~owned                          -> "raised"
      [] owned /\ seq < Len(log)         -> "newer_snapshot"
      [] owned /\ seq = Len(log)         ->
            IF stream.required THEN "acknowledged" ELSE "already_acknowledged"

(* Mutant of Acknowledge: an older sequence number clears the flag as well. *)
Acknowledge_older(seq) ==
    /\ stream' = [stream EXCEPT !.required = @ /\ ~owned]
    /\ UNCHANGED <<turn, owned, log>>

Acknowledge(seq) ==
    /\ stream' = [stream EXCEPT !.required = @ /\ AckAnswer(seq) # "acknowledged"]
    /\ UNCHANGED <<turn, owned, log>>

-----------------------------------------------------------------------------
(* Ending *)

(* Mutant of FinalizeAnswer: whatever text the caller brings is written. *)
FinalizeAnswer_anyText(status, text) ==
    CASE Ended                                            -> "already_terminal"
      [] ~Ended /\ turn.cancel /\ status # "cancelled"    -> "cancel_requested"
      [] ~Ended /\ (turn.cancel => status = "cancelled") /\ ~owned -> "raised"
      [] ~Ended /\ (turn.cancel => status = "cancelled") /\ owned  -> "finalized"

(***************************************************************************)
(* The row of the stream takes no text that lacks some of what it has: its *)
(* trigger, validate_agentic_chat_stream_state_write, raises in the update *)
(* of finalize (20260802033000:95), and the transaction changes nothing.   *)
(***************************************************************************)
FinalizeAnswer(status, text) ==
    CASE Ended                                            -> "already_terminal"
      [] ~Ended /\ turn.cancel /\ status # "cancelled"    -> "cancel_requested"
      [] ~Ended /\ (turn.cancel => status = "cancelled") ->
            IF owned /\ stream.text <= text THEN "finalized" ELSE "raised"

FinalizeTurn(status, text, k) ==
    /\ IF FinalizeAnswer(status, text) = "finalized"
       THEN Close(status, text, k)
       ELSE UNCHANGED <<turn, log, stream>>
    /\ UNCHANGED owned

(* completeQueueJob, or the recovery that reconciles the queue *)
SettleJob ==
    /\ owned' = FALSE
    /\ UNCHANGED <<turn, stream, log>>

-----------------------------------------------------------------------------
(* reconcile_agentic_chat_turn *)

(* It raises for a turn that was closed before its first claim. *)
Reconcilable == turn.status # "queued" => turn.gen >= 1

(* The text is that of the whole turn; no events accompany it, because every *)
(* event row moves the projection up to its own sequence number.             *)
Snapshot(gen) == [asked |-> gen, gen |-> turn.gen, seq |-> Len(log),
                  text |-> stream.text, ended |-> Ended]
=============================================================================
