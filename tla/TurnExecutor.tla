----------------------------- MODULE TurnExecutor -----------------------------
(***************************************************************************)
(* The worker's side of a turn: AgenticChatFixtureTurnExecutor.execute and *)
(* the mutation executor it calls, run by the chat consumer's queue.       *)
(*                                                                         *)
(* An execution is one run of the processor on one claimed job.  A process *)
(* runs one attended execution at a time (consumer concurrency 1); when    *)
(* the worker timeout fires the queue aborts the execution's signal, stops *)
(* its heartbeat and frees its slot, but the promise lives on: it is then  *)
(* a zombie and goes on taking its steps beside the next execution.        *)
(***************************************************************************)
EXTENDS ControlPlane

CONSTANTS
    Executions,     \* slots for executions, live or zombie
    ProcessOf,      \* the process each slot belongs to
    WorkerTimeout,  \* workerTimeoutMs, in seconds
    QueueResidence  \* the queue residence limit of the store, in seconds

ASSUME ExecutorAssumption ==
    /\ ProcessOf \in [Executions -> Processes]
    /\ WorkerTimeout \in Nat
    /\ QueueResidence \in Nat

VARIABLES
    exec,           \* the local state of each execution
    providerCalls,  \* how often the provider was invoked for this turn
    adapterRuns     \* how often the adapter was invoked for each effect

execVars == <<exec, providerCalls, adapterRuns>>

(* Where the execution's next await or check stands. *)
Location == {"idle", "claim", "reject", "prepare", "provider", "stream",
             "reserve", "reserved", "unreserve", "beginEffect", "adapter",
             "settle", "finalize", "complete", "reconcile", "recover"}

AbortReason == {None, "cancelled", "timeout", "overload"}

ExecRecord == [
    pc         : Location,
    tok        : Nat,       \* envelope.processingToken
    gen        : Nat,       \* the generation of its claim receipt
    arg        : CallArg,   \* failure class, terminal status or target state
    tool       : Effects \cup {None},
    abort      : AbortReason,   \* why its combined signal is aborted
    zombie     : BOOLEAN,       \* timed out: no slot, no heartbeat
    registered : BOOLEAN,       \* known to the cancellation observer
    retried    : BOOLEAN]       \* finalize already retried without timing

Resting == [pc |-> "idle", tok |-> NoToken, gen |-> 0, arg |-> None,
            tool |-> None, abort |-> None, zombie |-> FALSE,
            registered |-> FALSE, retried |-> FALSE]

ExecTypeOK ==
    /\ exec \in [Executions -> ExecRecord]
    /\ providerCalls \in Nat
    /\ adapterRuns \in [Effects -> Nat]

ExecInit ==
    /\ exec = [e \in Executions |-> Resting]
    /\ providerCalls = 0
    /\ adapterRuns = [x \in Effects |-> 0]

-----------------------------------------------------------------------------
(* Local steps *)

Active(e) == exec[e].pc # "idle"

Attended(e) == Active(e) /\ ~exec[e].zombie

Aborted(e) == exec[e].abort # None

Goto(e, location) == exec' = [exec EXCEPT ![e].pc = location]

GotoWith(e, location, arg) ==
    exec' = [exec EXCEPT ![e] = [@ EXCEPT !.pc = location, !.arg = arg]]

(***************************************************************************)
(* The catch block hands the failure to recover_agentic_chat_turn.  From   *)
(* here on nothing reads the signal (the calls that end a turn have their  *)
(* own deadline) or the tool.                                              *)
(***************************************************************************)
RecoverAs(e, class) ==
    exec' = [exec EXCEPT ![e] = [@ EXCEPT !.pc = "recover", !.arg = class,
                                          !.tool = None, !.abort = None]]

Finalize(e, s) ==
    exec' = [exec EXCEPT ![e] = [@ EXCEPT !.pc = "finalize", !.arg = s,
                                          !.retried = FALSE, !.tool = None,
                                          !.abort = None]]

Interruptible(e) ==
    exec[e].pc \notin {"idle", "recover", "finalize", "complete", "reconcile"}

(* The execution settles: its finally block unregisters it. *)
Finish(e) == exec' = [exec EXCEPT ![e] = Resting]

NoInvocation == UNCHANGED <<providerCalls, adapterRuns>>

(***************************************************************************)
(* classifyFailure, for an error that carries no class of its own.         *)
(***************************************************************************)
FailureOf(e, afterStart) ==
    CASE exec[e].abort = "cancelled" -> "cancelled"
      [] exec[e].abort = "overload" -> "publisher_overload"
      [] exec[e].abort = "timeout" ->
            IF afterStart THEN "timeout_post_start" ELSE "timeout_pre_start"
      [] OTHER -> IF afterStart THEN "unknown" ELSE "transient_infra"

(* The calls of the execution e. *)
CallOf(e, name) ==
    Call(name, exec[e].tok, exec[e].gen, exec[e].arg, exec[e].tool)

Answered == UNCHANGED netVars

-----------------------------------------------------------------------------
(* The queue: SupabaseQueue.processJobs, startClaimedJob, withWorkerTimeout *)

SlotFree(e) ==
    /\ ~Active(e)
    /\ \A o \in Executions :
         ProcessOf[o] = ProcessOf[e] => ~Attended(o)

(* A poll takes the pending job and starts its processor. *)
Poll(e) ==
    /\ SlotFree(e)
    /\ ClaimPendingJob
    /\ \E entry \in {"claim", "reject"} :   \* is the user in the cohort?
         exec' = [exec EXCEPT ![e] = [@ EXCEPT !.pc = entry, !.tok = issued']]
    /\ Answered /\ NoInvocation

(* The response of claim_pending_jobs is lost: nobody knows the token. *)
PollLost(e) ==
    /\ SlotFree(e)
    /\ ClaimPendingJob
    /\ faults < MaxFaults
    /\ faults' = faults + 1
    /\ UNCHANGED <<late, execVars>>

(***************************************************************************)
(* The worker timeout.  It fires WorkerTimeout after the claim, so if that *)
(* exceeds the residence limit the job is past it by then.                 *)
(***************************************************************************)
TimeOut(e) ==
    /\ Attended(e)
    /\ WorkerTimeout > QueueResidence => aged
    /\ exec' = [exec EXCEPT ![e] =
         [@ EXCEPT !.zombie = TRUE,
                   !.abort = IF Interruptible(e) /\ exec[e].abort = None
                             THEN "timeout" ELSE exec[e].abort]]
    /\ UNCHANGED <<storeVars, netVars>> /\ NoInvocation

(***************************************************************************)
(* The cancellation observer aborts the registered execution of the        *)
(* generation it finds cancelled.                                          *)
(***************************************************************************)
ObserveCancel(e) ==
    /\ exec[e].registered /\ Interruptible(e) /\ ~Aborted(e)
    /\ CurrentRun(exec[e].gen) /\ cancelRequested
    /\ exec' = [exec EXCEPT ![e].abort = "cancelled"]
    /\ UNCHANGED <<storeVars, netVars>> /\ NoInvocation

(***************************************************************************)
(* The publisher overflows, or the provider's time budget runs out (its    *)
(* class, timeout_post_start, is never retried either): the execution      *)
(* aborts its own signal.                                                  *)
(***************************************************************************)
Overload(e) ==
    /\ exec[e].registered /\ Interruptible(e) /\ ~Aborted(e)
    /\ exec' = [exec EXCEPT ![e].abort = "overload"]
    /\ UNCHANGED <<storeVars, netVars>> /\ NoInvocation

-----------------------------------------------------------------------------
(* execute and reject: claim, register, prepare, start fence *)

(***************************************************************************)
(* The observer tracks one turn per process (its capacity is the consumer  *)
(* concurrency) and refuses a second registration, which a zombie of the   *)
(* same process may still hold.                                            *)
(***************************************************************************)
ObserverBusy(e) ==
    \E o \in Executions \ {e} :
        ProcessOf[o] = ProcessOf[e] /\ exec[o].registered

Registered(e) ==
    exec' = [exec EXCEPT ![e] = [@ EXCEPT !.pc = "prepare", !.gen = gen',
                                          !.registered = TRUE]]

RecoverClaim(e, class) ==
    exec' = [exec EXCEPT ![e] = [@ EXCEPT !.pc = "recover", !.gen = gen',
                                          !.arg = class, !.abort = None]]

RejectClaim(e) ==
    exec' = [exec EXCEPT ![e] = [@ EXCEPT !.pc = "finalize", !.gen = gen',
                                          !.arg = "failed", !.retried = TRUE,
                                          !.abort = None]]

AfterClaim(e, out) ==
    \/ out = "raised" /\ Finish(e)
    \/ /\ out = "already_terminal"
       /\ RecoverClaim(e, IF exec[e].pc = "reject" THEN "permanent" ELSE "unknown")
    \/ out = "cancel_requested" /\ RecoverClaim(e, "cancelled")
    \/ /\ out \in {"claimed", "matching_current_claim"}
       /\ \/ exec[e].pc = "reject" /\ RejectClaim(e)
          \/ /\ exec[e].pc = "claim"
             /\ \/ ObserverBusy(e) /\ RecoverClaim(e, "transient_infra")
                \/ ~ObserverBusy(e) /\ Registered(e)

ClaimCall(e) ==
    /\ exec[e].pc \in {"claim", "reject"}
    /\ NoInvocation
    /\ \/ /\ Answered
          /\ \E out \in ClaimOutcome :
               ClaimTurn(exec[e].tok, out) /\ AfterClaim(e, out)
       \/ GiveUp(CallOf(e, "claim")) /\ Finish(e)

(***************************************************************************)
(* Loading the input, registering the publisher or preparing the provider  *)
(* fails, or the signal is found aborted.                                  *)
(***************************************************************************)
PrepareFails(e) ==
    /\ exec[e].pc = "prepare"
    /\ \/ RecoverAs(e, FailureOf(e, FALSE))
       \/ /\ ~Aborted(e)
          /\ \E class \in {"stale_context", "provider_throttle", "permanent"} :
               RecoverAs(e, class)
    /\ UNCHANGED <<storeVars, netVars>> /\ NoInvocation

AfterBegin(e, out) ==
    \/ out = "started" /\ Goto(e, "provider")
    \/ out = "cancel_requested" /\ RecoverAs(e, "cancelled")
    \/ out = "stale_context" /\ RecoverAs(e, "stale_context")
    \/ /\ out \in {"already_terminal", "stale_generation", "already_started"}
       /\ RecoverAs(e, "unknown")
    \/ out = "raised" /\ RecoverAs(e, FailureOf(e, FALSE))

(* Aborted before the call PrepareFails; aborted during it, it is given up. *)
BeginCall(e) ==
    /\ exec[e].pc = "prepare"
    /\ NoInvocation
    /\ \/ /\ ~Aborted(e)
          /\ Answered
          /\ \E out \in BeginOutcome :
               /\ BeginExecution(exec[e].tok, exec[e].gen, out)
               /\ AfterBegin(e, out)
       \/ GiveUp(CallOf(e, "begin")) /\ RecoverAs(e, FailureOf(e, FALSE))

-----------------------------------------------------------------------------
(* The provider stream *)

(***************************************************************************)
(* The stream is opened once; the rounds that continue it with the results *)
(* of its tools belong to the same invocation.                             *)
(***************************************************************************)
InvokeProvider(e) ==
    /\ exec[e].pc = "provider"
    /\ ~Aborted(e)
    /\ providerCalls' = providerCalls + 1
    /\ Goto(e, "stream")
    /\ UNCHANGED <<storeVars, netVars, adapterRuns>>

(* Mutant of StreamFails: a transient failure is retried on the spot. *)
StreamFails_retries(e) ==
    /\ exec[e].pc \in {"provider", "stream"}
    /\ Goto(e, "provider")
    /\ UNCHANGED <<storeVars, netVars>> /\ NoInvocation

(* Provider, publisher and ledger errors, some with a class of their own    *)
(* (those that never retry behave as "permanent").                          *)
StreamFails(e) ==
    /\ exec[e].pc \in {"provider", "stream"}
    /\ \/ RecoverAs(e, FailureOf(e, TRUE))
       \/ /\ ~Aborted(e)
          /\ \E class \in {"transient_infra", "provider_throttle", "permanent"} :
               RecoverAs(e, class)
    /\ UNCHANGED <<storeVars, netVars>> /\ NoInvocation

RequestTool(e) ==
    /\ exec[e].pc = "stream"
    /\ ~Aborted(e)
    /\ \E x \in Effects :
         exec' = [exec EXCEPT ![e] = [@ EXCEPT !.pc = "reserve", !.tool = x]]
    /\ UNCHANGED <<storeVars, netVars>> /\ NoInvocation

FinishStream(e) ==
    /\ exec[e].pc = "stream"
    /\ ~Aborted(e)
    /\ Finalize(e, "completed")
    /\ UNCHANGED <<storeVars, netVars>> /\ NoInvocation

-----------------------------------------------------------------------------
(* AgenticChatFixtureMutationExecutor.execute *)

(***************************************************************************)
(* What a receipt in another state than hoped for means: a success is      *)
(* replayed, a failure is reported to the model as the tool's result, and  *)
(* everything else is an error with the class of stateError.               *)
(***************************************************************************)
ResumeStream(e) ==
    exec' = [exec EXCEPT ![e] = [@ EXCEPT !.pc = "stream", !.arg = None,
                                          !.tool = None]]

HandleReceipt(e, state) ==
    \/ state \in {"succeeded", "failed", "reserved"} /\ ResumeStream(e)
    \/ state = "cancelled" /\ RecoverAs(e, "cancelled")
    \/ /\ state \in {"started", "uncertain"}
       /\ RecoverAs(e, "uncertain_external_commit")

(* An RPC error is no effect error: classifyFailure looks at the signal. *)
EffectCallFails(e) == RecoverAs(e, FailureOf(e, TRUE))

ReserveCall(e) ==
    /\ exec[e].pc = "reserve"
    /\ NoInvocation
    /\ \/ /\ Answered
          /\ \E out \in ReserveOutcome :
               /\ ReserveEffect(exec[e].tool, exec[e].tok, exec[e].gen, out)
               /\ \/ out = "raised" /\ EffectCallFails(e)
                  \/ effect'[exec[e].tool] = "reserved" /\ Goto(e, "reserved")
                  \/ /\ effect'[exec[e].tool] \notin {"none", "reserved"}
                     /\ HandleReceipt(e, effect[exec[e].tool])
       \/ GiveUp(CallOf(e, "reserve")) /\ EffectCallFails(e)

(* Mutant of CheckReservation: the adapter is invoked on the reservation. *)
CheckReservation_skipsBegin(e) ==
    /\ exec[e].pc = "reserved"
    /\ ~Aborted(e)
    /\ Goto(e, "adapter")
    /\ UNCHANGED <<storeVars, netVars>> /\ NoInvocation

(* The last look at the signal before the irreversible boundary. *)
CheckReservation(e) ==
    /\ exec[e].pc = "reserved"
    /\ \/ /\ Aborted(e)
          /\ GotoWith(e, "unreserve", "cancelled")
       \/ /\ ~Aborted(e)
          /\ Goto(e, "beginEffect")
    /\ UNCHANGED <<storeVars, netVars>> /\ NoInvocation

UnreserveCall(e) ==
    /\ exec[e].pc = "unreserve"
    /\ NoInvocation
    /\ \/ /\ Answered
          /\ \E out \in SettleOutcome :
               /\ ReconcileEffect(exec[e].tool, exec[e].tok, exec[e].gen,
                                  "cancelled", out)
               /\ \/ out = "raised" /\ EffectCallFails(e)
                  \/ /\ out # "raised" /\ effect'[exec[e].tool] = "cancelled"
                     /\ EffectCallFails(e)
                  \/ /\ out # "raised" /\ effect'[exec[e].tool] # "cancelled"
                     /\ HandleReceipt(e, effect[exec[e].tool])
       \/ GiveUp(CallOf(e, "settle")) /\ EffectCallFails(e)

BeginEffectCall(e) ==
    /\ exec[e].pc = "beginEffect"
    /\ NoInvocation
    /\ \/ /\ Answered
          /\ \E out \in BeginEffOutcome :
               /\ BeginEffect(exec[e].tool, exec[e].tok, exec[e].gen, out)
               /\ \/ out = "raised" /\ EffectCallFails(e)
                  \/ out = "started" /\ Goto(e, "adapter")
                  \/ /\ out = "existing"
                     /\ HandleReceipt(e, effect[exec[e].tool])
       \/ GiveUp(CallOf(e, "beginEffect")) /\ EffectCallFails(e)

(* Mutant of InvokeAdapter: an ambiguous outcome is tried again. *)
InvokeAdapter_again(e) ==
    /\ exec[e].pc = "adapter"
    /\ adapterRuns' = [adapterRuns EXCEPT ![exec[e].tool] = @ + 1]
    /\ UNCHANGED <<exec, storeVars, netVars, providerCalls>>

(***************************************************************************)
(* The adapter commits, is known to have failed, or leaves its outcome     *)
(* open; its bounded retries share one idempotency key and count as one    *)
(* invocation.                                                             *)
(***************************************************************************)
InvokeAdapter(e) ==
    /\ exec[e].pc = "adapter"
    /\ adapterRuns' = [adapterRuns EXCEPT ![exec[e].tool] = @ + 1]
    /\ \E target \in {"succeeded", "failed", "uncertain"} :
         GotoWith(e, "settle", target)
    /\ UNCHANGED <<storeVars, netVars, providerCalls>>

SettleCall(e) ==
    /\ exec[e].pc = "settle"
    /\ NoInvocation
    /\ \/ /\ Answered
          /\ \E out \in SettleOutcome :
               /\ ReconcileEffect(exec[e].tool, exec[e].tok, exec[e].gen,
                                  exec[e].arg, out)
               /\ \/ out = "raised" /\ EffectCallFails(e)
                  \/ /\ out # "raised"
                     /\ HandleReceipt(e, effect'[exec[e].tool])
       \/ GiveUp(CallOf(e, "settle")) /\ EffectCallFails(e)

-----------------------------------------------------------------------------
(* recover, finalize and reconcileTerminalQueue *)

RecoverCall(e) ==
    /\ exec[e].pc = "recover"
    /\ NoInvocation
    /\ \/ /\ Answered
          /\ \E out \in RecoverOutcome :
               /\ RecoverTurn(exec[e].tok, exec[e].gen, exec[e].arg, out)
               /\ \/ out = "finalize_cancelled" /\ Finalize(e, "cancelled")
                  \/ out = "finalize_failed" /\ Finalize(e, "failed")
                  \/ /\ out \notin {"finalize_cancelled", "finalize_failed"}
                     /\ Finish(e)
       \/ GiveUp(CallOf(e, "recover")) /\ Finish(e)

(* finalizeWithTimingFallback: one more try if the first carried a draft. *)
FinalizeFails(e) ==
    \/ Finish(e)
    \/ /\ ~exec[e].retried
       /\ exec' = [exec EXCEPT ![e].retried = TRUE]

(* Mutant of AfterFinalize: the job of any finalized turn is completed. *)
AfterFinalize_completesAll(e, out) ==
    \/ out = "raised" /\ FinalizeFails(e)
    \/ out = "stale_generation" /\ Finish(e)
    \/ out = "cancel_requested" /\ RecoverAs(e, "cancelled")
    \/ out \in {"finalized", "already_terminal"} /\ Goto(e, "complete")

AfterFinalize(e, out) ==
    \/ out = "raised" /\ FinalizeFails(e)
    \/ out = "stale_generation" /\ Finish(e)
    \/ out = "cancel_requested" /\ RecoverAs(e, "cancelled")
    \/ /\ out = "finalized" /\ exec[e].arg = "completed"
       /\ Goto(e, "complete")
    \/ /\ out = "already_terminal"
       /\ GotoWith(e, "reconcile", TerminalClass(exec[e].arg))
    \/ /\ out = "finalized" /\ exec[e].arg # "completed"
       /\ GotoWith(e, "reconcile", TerminalClass(exec[e].arg))

FinalizeCall(e) ==
    /\ exec[e].pc = "finalize"
    /\ NoInvocation
    /\ \/ /\ Answered
          /\ \E out \in FinalizeOutcome :
               /\ FinalizeTurn(exec[e].tok, exec[e].gen, exec[e].arg, out)
               /\ AfterFinalize(e, out)
       \/ GiveUp(CallOf(e, "finalize")) /\ FinalizeFails(e)

(* The queue row follows: by token for a completed turn, else by recovery. *)
QueueCall(e) ==
    /\ exec[e].pc \in {"complete", "reconcile"}
    /\ NoInvocation
    /\ Finish(e)
    /\ \/ /\ Answered
          /\ \/ /\ exec[e].pc = "complete"
                /\ \E out \in BOOLEAN : CompleteQueueJob(exec[e].tok, out)
             \/ /\ exec[e].pc = "reconcile"
                /\ \E out \in RecoverOutcome :
                     RecoverTurn(exec[e].tok, exec[e].gen, exec[e].arg, out)
       \/ GiveUp(CallOf(e, IF exec[e].pc = "complete" THEN "complete"
                                                      ELSE "recover"))

-----------------------------------------------------------------------------
(* A step of the execution's own code, once started. *)
ExecutorStep(e) ==
    \/ ClaimCall(e)
    \/ PrepareFails(e)
    \/ BeginCall(e)
    \/ InvokeProvider(e)
    \/ StreamFails(e)
    \/ RequestTool(e)
    \/ FinishStream(e)
    \/ ReserveCall(e)
    \/ CheckReservation(e)
    \/ UnreserveCall(e)
    \/ BeginEffectCall(e)
    \/ InvokeAdapter(e)
    \/ SettleCall(e)
    \/ RecoverCall(e)
    \/ FinalizeCall(e)
    \/ QueueCall(e)
=============================================================================
