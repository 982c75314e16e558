------------------------------ MODULE TurnStore ------------------------------
(***************************************************************************)
(* The durable half of one Agentic Chat worker turn: its chat_turn_runs    *)
(* row, its queue_jobs row and its chat_turn_effects rows, together with   *)
(* the stored procedures that are the only writers of them.  Every         *)
(* procedure takes the turn's row lock first and runs in one transaction,  *)
(* so a procedure is one action and turns do not interfere: the module     *)
(* models one turn.                                                        *)
(*                                                                         *)
(* A procedure is an operator P(arguments, out) that relates the rows      *)
(* before and after to the outcome it returns; "raised" stands for every   *)
(* RAISE EXCEPTION (the transaction writes nothing).  Requests repeated    *)
(* with other identifiers (another user, job type or correlation id) are   *)
(* left out: the rows never carry them.                                    *)
(*                                                                         *)
(* StoreSpec is the store under callers that may present any token and any *)
(* generation the store ever issued, in any order.  ChatTurn restricts the *)
(* callers to the worker's own protocol.                                   *)
(***************************************************************************)
EXTENDS Integers, FiniteSets

CONSTANTS
    Effects,        \* the mutating operations a turn may ask for (effect ids)
    MaxAttempts     \* queue_jobs.max_attempts

ASSUME MaxAttemptsAssumption == MaxAttempts \in Nat \ {0}

VARIABLES
    status,           \* chat_turn_runs.status
    gen,              \* chat_turn_runs.execution_generation
    started,          \* execution_started_at is set
    mutationReserved, \* mutation_reserved_at is set
    irreversible,     \* irreversible_boundary_at is set
    cancelRequested,  \* cancel_requested_at is set
    jobStatus,        \* queue_jobs.status
    token,            \* queue_jobs.processing_token, NoToken for NULL
    attempts,         \* queue_jobs.attempts
    issued,           \* how many tokens gen_random_uuid() has handed out
    effect,           \* chat_turn_effects.state of each effect, "none" if no row
    aged,             \* now > queue_jobs.created_at + 300 seconds
    stalled           \* now > queue_jobs.updated_at + the stalled timeout

turnVars  == <<status, gen, started, mutationReserved, irreversible,
               cancelRequested>>
queueVars == <<jobStatus, token, attempts, issued, stalled>>
storeVars == <<status, gen, started, mutationReserved, irreversible,
               cancelRequested, jobStatus, token, attempts, issued, effect,
               aged, stalled>>

-----------------------------------------------------------------------------
(* Types *)

Terminal     == {"completed", "failed", "cancelled"}
TurnStatus   == {"queued", "running"} \cup Terminal
JobStatus    == {"pending", "processing"} \cup Terminal
SettledState == {"succeeded", "failed", "cancelled"}
EffectState  == {"none", "reserved", "started", "uncertain"} \cup SettledState
FailureClass == {"transient_infra", "provider_throttle", "timeout_pre_start",
                 "permanent", "stale_context", "publisher_overload",
                 "timeout_post_start", "cancelled",
                 "uncertain_external_commit", "unknown"}
TargetState  == SettledState \cup {"uncertain"}
NoToken      == 0

ClaimOutcome     == {"raised", "already_terminal", "matching_current_claim",
                     "cancel_requested", "claimed"}
BeginOutcome     == {"raised", "already_terminal", "stale_generation",
                     "cancel_requested", "already_started", "stale_context",
                     "started"}
RecoverOutcome   == {"raised", "already_reconciled", "queue_reconciled",
                     "stale_generation", "already_requeued", "retry_scheduled",
                     "effect_reconciliation_required", "finalize_cancelled",
                     "finalize_failed"}
FinalizeOutcome  == {"raised", "already_terminal", "stale_generation",
                     "cancel_requested", "finalized"}
ReserveOutcome   == {"raised", "existing", "reserved"}
BeginEffOutcome  == {"raised", "existing", "started"}
SettleOutcome    == {"raised", "existing", "reconciled"}

ColumnsOK ==
    /\ status \in TurnStatus
    /\ started \in BOOLEAN
    /\ mutationReserved \in BOOLEAN
    /\ irreversible \in BOOLEAN
    /\ cancelRequested \in BOOLEAN
    /\ jobStatus \in JobStatus
    /\ effect \in [Effects -> EffectState]
    /\ aged \in BOOLEAN
    /\ stalled \in BOOLEAN

CountersOK ==
    /\ gen \in Nat
    /\ issued \in Nat
    /\ token \in 0..issued
    /\ attempts \in 0..(MaxAttempts - 1)

(***************************************************************************)
(* Every column holds a value its CHECK constraints allow; a token or a    *)
(* generation in use has been issued, and attempts never reaches           *)
(* max_attempts (the last failure finalizes instead of requeueing).        *)
(***************************************************************************)
StoreTypeOK == ColumnsOK /\ CountersOK

(* What admission commits: a queued turn of generation 0 and its pending job. *)
StoreInit ==
    /\ status = "queued"
    /\ gen = 0
    /\ started = FALSE
    /\ mutationReserved = FALSE
    /\ irreversible = FALSE
    /\ cancelRequested = FALSE
    /\ jobStatus = "pending"
    /\ token = NoToken
    /\ attempts = 0
    /\ issued = 0
    /\ effect = [x \in Effects |-> "none"]
    /\ aged = FALSE
    /\ stalled = FALSE

-----------------------------------------------------------------------------
(* Fences *)

OwnsJob(t) == jobStatus = "processing" /\ token = t

(* Mutant of CurrentRun: the status is not part of the compare-and-set. *)
CurrentRun_anyStatus(g) == gen = g

CurrentRun(g) == status = "running" /\ gen = g

BoundaryCrossed == mutationReserved \/ irreversible

Blocking == {"reserved", "started", "uncertain"}

RetryableClass == {"transient_infra", "provider_throttle", "timeout_pre_start"}

(* Mutant of SafePreStart: execution_started_at is not looked at. *)
SafePreStart_evenIfStarted ==
    /\ ~BoundaryCrossed
    /\ \A x \in Effects : effect[x] = "none"

(* No trace of execution: neither a boundary column nor an effect row. *)
SafePreStart ==
    /\ ~started
    /\ ~BoundaryCrossed
    /\ \A x \in Effects : effect[x] = "none"

(* Mutants of MayRetry: one attempt too many; however old the job is. *)
MayRetry_onceTooOften(class) ==
    /\ class \in RetryableClass
    /\ SafePreStart
    /\ ~aged
    /\ attempts + 1 <= MaxAttempts
    /\ class = "timeout_pre_start" => attempts = 0

MayRetry_howeverOld(class) ==
    /\ class \in RetryableClass
    /\ SafePreStart
    /\ attempts + 1 < MaxAttempts
    /\ class = "timeout_pre_start" => attempts = 0

MayRetry(class) ==
    /\ class \in RetryableClass
    /\ SafePreStart
    /\ ~aged
    /\ attempts + 1 < MaxAttempts
    /\ class = "timeout_pre_start" => attempts = 0

(* The write fence of the effect procedures. *)
EffectFence(t, g) == CurrentRun(g) /\ started /\ OwnsJob(t)

-----------------------------------------------------------------------------
(* Queue procedures *)

(***************************************************************************)
(* claim_pending_jobs: take the pending job with a fresh token.  Whether   *)
(* scheduled_for has passed is left to the scheduler (the action may wait).*)
(***************************************************************************)
ClaimPendingJob ==
    /\ jobStatus = "pending"
    /\ jobStatus' = "processing"
    /\ issued' = issued + 1
    /\ token' = issued'
    /\ stalled' = FALSE
    /\ UNCHANGED <<turnVars, attempts, effect, aged>>

(* complete_queue_job: TRUE if the caller's token still owns the row. *)
CompleteQueueJob(t, out) ==
    \/ /\ out = FALSE
       /\ ~(jobStatus \in {"processing", "completed"} /\ token = t)
       /\ UNCHANGED storeVars
    \/ /\ out = TRUE
       /\ jobStatus \in {"processing", "completed"}
       /\ token = t
       /\ jobStatus' = "completed"
       /\ token' = NoToken
       /\ stalled' = FALSE
       /\ UNCHANGED <<turnVars, attempts, issued, effect, aged>>

-----------------------------------------------------------------------------
(* Turn procedures *)

(***************************************************************************)
(* claim_agentic_chat_turn: the owner of the job moves a queued turn to    *)
(* running under the next generation; asked again it learns what it holds. *)
(***************************************************************************)
ClaimRaises(t) ==
    \/ ~OwnsJob(t)
    \/ /\ status = "queued"
       /\ ~cancelRequested
       /\ started \/ BoundaryCrossed

ClaimTurn(t, out) ==
    \/ /\ out = "raised"
       /\ ClaimRaises(t)
       /\ UNCHANGED storeVars
    \/ /\ out = "already_terminal"
       /\ OwnsJob(t) /\ status \in Terminal
       /\ UNCHANGED storeVars
    \/ /\ out = "matching_current_claim"
       /\ OwnsJob(t) /\ status = "running" /\ ~cancelRequested
       /\ UNCHANGED storeVars
    \/ /\ out = "cancel_requested"
       /\ OwnsJob(t) /\ status \in {"queued", "running"} /\ cancelRequested
       /\ UNCHANGED storeVars
    \/ /\ out = "claimed"
       /\ status = "queued" /\ ~cancelRequested /\ ~ClaimRaises(t)
       /\ status' = "running"
       /\ gen' = gen + 1
       /\ UNCHANGED <<started, mutationReserved, irreversible, cancelRequested,
                      queueVars, effect, aged>>

(***************************************************************************)
(* begin_agentic_chat_turn_execution: the provider-start fence.  Only      *)
(* "started" carries invoke_provider = true.                               *)
(***************************************************************************)
(* Mutant of RecordStart: execution_started_at is not written. *)
RecordStart_forgets ==
    /\ stalled' = FALSE
    /\ UNCHANGED <<turnVars, jobStatus, token, attempts, issued, effect, aged>>

RecordStart ==
    /\ started' = TRUE
    /\ stalled' = FALSE
    /\ UNCHANGED <<status, gen, mutationReserved, irreversible,
                   cancelRequested, jobStatus, token, attempts, issued,
                   effect, aged>>

BeginRaises(t, g) ==
    \/ status = "queued" /\ gen = g
    \/ CurrentRun(g) /\ ~OwnsJob(t)
    \/ /\ CurrentRun(g) /\ OwnsJob(t)
       /\ ~cancelRequested /\ ~started /\ BoundaryCrossed

BeginExecution(t, g, out) ==
    \/ /\ out = "already_terminal"
       /\ status \in Terminal
       /\ UNCHANGED storeVars
    \/ /\ out = "stale_generation"
       /\ status \notin Terminal /\ gen # g
       /\ UNCHANGED storeVars
    \/ /\ out = "raised"
       /\ BeginRaises(t, g)
       /\ UNCHANGED storeVars
    \/ /\ out = "cancel_requested"
       /\ CurrentRun(g) /\ OwnsJob(t) /\ cancelRequested
       /\ UNCHANGED storeVars
    \/ /\ out = "already_started"
       /\ CurrentRun(g) /\ OwnsJob(t) /\ ~cancelRequested /\ started
       /\ UNCHANGED storeVars
    \/ /\ CurrentRun(g) /\ OwnsJob(t)
       /\ ~cancelRequested /\ ~started /\ ~BeginRaises(t, g)
       /\ \/ out = "stale_context" /\ aged /\ UNCHANGED storeVars
          \/ /\ out = "started" /\ ~aged
             /\ RecordStart

(***************************************************************************)
(* recover_agentic_chat_turn: the only requeue.  It decides from the       *)
(* committed rows, in this order: a terminal turn's queue row is           *)
(* reconciled; a stale generation writes nothing; an accepted cancellation *)
(* outranks everything, then a blocking effect, then a safe retry.         *)
(***************************************************************************)
QueueReconciled == jobStatus = status /\ token = NoToken

RecoverRaises(t, g) ==
    \/ /\ status \in Terminal /\ ~QueueReconciled
       /\ ~OwnsJob(t) /\ jobStatus # "pending"
    \/ /\ status = "queued" /\ gen = g
       /\ ~(jobStatus = "pending" /\ token = NoToken)
    \/ CurrentRun(g) /\ ~OwnsJob(t)

(* Mutant of ReconcileQueueRow: the row keeps its token. *)
ReconcileQueueRow_keepsToken ==
    /\ jobStatus' = status
    /\ stalled' = FALSE
    /\ UNCHANGED <<turnVars, token, attempts, issued, effect, aged>>

ReconcileQueueRow ==
    /\ jobStatus' = status
    /\ token' = NoToken
    /\ stalled' = FALSE
    /\ UNCHANGED <<turnVars, attempts, issued, effect, aged>>

(* Mutant of ScheduleRetry: the attempt is not counted. *)
ScheduleRetry_forFree ==
    /\ status' = "queued"
    /\ jobStatus' = "pending"
    /\ token' = NoToken
    /\ stalled' = FALSE
    /\ UNCHANGED <<gen, started, mutationReserved, irreversible,
                   cancelRequested, attempts, issued, effect, aged>>

ScheduleRetry ==
    /\ status' = "queued"
    /\ jobStatus' = "pending"
    /\ token' = NoToken
    /\ attempts' = attempts + 1
    /\ stalled' = FALSE
    /\ UNCHANGED <<gen, started, mutationReserved, irreversible,
                   cancelRequested, issued, effect, aged>>

(* Mutant of HasBlockingEffect: a begun effect does not block. *)
HasBlockingEffect_unlessBegun ==
    \E x \in Effects : effect[x] \in {"reserved", "uncertain"}

HasBlockingEffect == \E x \in Effects : effect[x] \in Blocking

(* Mutant of CancelDecides: a blocking effect is looked at first. *)
CancelDecides_afterEffects == cancelRequested /\ ~HasBlockingEffect

CancelDecides == cancelRequested

RecoverTurn(t, g, class, out) ==
    \/ /\ out = "already_reconciled"
       /\ status \in Terminal /\ QueueReconciled
       /\ UNCHANGED storeVars
    \/ /\ out = "queue_reconciled"
       /\ status \in Terminal /\ ~QueueReconciled /\ ~RecoverRaises(t, g)
       /\ ReconcileQueueRow
    \/ /\ out = "stale_generation"
       /\ status \notin Terminal /\ gen # g
       /\ UNCHANGED storeVars
    \/ /\ out = "already_requeued"
       /\ status = "queued" /\ gen = g /\ ~RecoverRaises(t, g)
       /\ UNCHANGED storeVars
    \/ /\ out = "raised"
       /\ RecoverRaises(t, g)
       /\ UNCHANGED storeVars
    \/ /\ out = "finalize_cancelled"
       /\ CurrentRun(g) /\ OwnsJob(t) /\ CancelDecides
       /\ UNCHANGED storeVars
    \/ /\ out = "effect_reconciliation_required"
       /\ CurrentRun(g) /\ OwnsJob(t) /\ ~CancelDecides
       /\ HasBlockingEffect
       /\ UNCHANGED storeVars
    \/ /\ CurrentRun(g) /\ OwnsJob(t) /\ ~CancelDecides
       /\ ~HasBlockingEffect
       /\ \/ out = "retry_scheduled" /\ MayRetry(class) /\ ScheduleRetry
          \/ out = "finalize_failed" /\ ~MayRetry(class) /\ UNCHANGED storeVars

(***************************************************************************)
(* finalize_agentic_chat_turn: the one terminal compare-and-set.  It does  *)
(* not look at the effects; the queue row of a running turn stays          *)
(* processing until it is reconciled.  A queued turn is finalized only by  *)
(* request_agentic_chat_turn_cancel, which passes no token.  The checks of *)
(* the text, the projection and the timing evidence are left out: if one   *)
(* raises, that is to its caller a call given up on which never arrives.   *)
(***************************************************************************)
FinalizeRaises(t, g, s) ==
    /\ status \notin Terminal /\ gen = g
    /\ \/ s = "cancelled" /\ ~cancelRequested
       \/ status = "queued"
       \/ status = "running" /\ ~OwnsJob(t) /\ (cancelRequested => s = "cancelled")

(* Mutant of CancelWins: the first terminal status wins. *)
CancelWins_never(s) == FALSE

CancelWins(s) == cancelRequested /\ s # "cancelled"

FinalizeTurn(t, g, s, out) ==
    \/ /\ out = "already_terminal"
       /\ status \in Terminal
       /\ UNCHANGED storeVars
    \/ /\ out = "stale_generation"
       /\ status \notin Terminal /\ gen # g
       /\ UNCHANGED storeVars
    \/ /\ out = "raised"
       /\ FinalizeRaises(t, g, s)
       /\ UNCHANGED storeVars
    \/ /\ out = "cancel_requested"
       /\ CurrentRun(g) /\ CancelWins(s)
       /\ UNCHANGED storeVars
    \/ /\ out = "finalized"
       /\ CurrentRun(g) /\ ~CancelWins(s) /\ ~FinalizeRaises(t, g, s)
       /\ status' = s
       /\ UNCHANGED <<gen, started, mutationReserved, irreversible,
                      cancelRequested, queueVars, effect, aged>>

(***************************************************************************)
(* request_agentic_chat_turn_cancel: a running turn records the request    *)
(* once; a queued turn is cancelled with its job in the same transaction,  *)
(* whether or not a worker has already taken the job.                      *)
(***************************************************************************)
CancelQueuedTurn ==
    /\ status = "queued"
    /\ jobStatus \in {"pending", "processing"}
    /\ cancelRequested' = TRUE
    /\ status' = "cancelled"
    /\ jobStatus' = "cancelled"
    /\ token' = NoToken
    /\ stalled' = FALSE
    /\ UNCHANGED <<gen, started, mutationReserved, irreversible, attempts,
                   issued, effect, aged>>

CancelRunningTurn ==
    /\ status = "running"
    /\ ~cancelRequested
    /\ cancelRequested' = TRUE
    /\ UNCHANGED <<status, gen, started, mutationReserved, irreversible,
                   queueVars, effect, aged>>

RequestCancel == CancelQueuedTurn \/ CancelRunningTurn

-----------------------------------------------------------------------------
(* Effect procedures *)

(* Mutant of ReserveEffect: the boundary column is left behind. *)
ReserveEffect_unrecorded(x, t, g, out) ==
    /\ out = "reserved" /\ effect[x] = "none"
    /\ EffectFence(t, g) /\ ~cancelRequested
    /\ effect' = [effect EXCEPT ![x] = "reserved"]
    /\ UNCHANGED <<turnVars, queueVars, aged>>

(***************************************************************************)
(* reserve_agentic_chat_effect: an existing row answers first, whoever     *)
(* asks; a new row needs the write fence and no accepted cancellation.     *)
(***************************************************************************)
ReserveEffect(x, t, g, out) ==
    \/ /\ out = "existing"
       /\ effect[x] # "none"
       /\ UNCHANGED storeVars
    \/ /\ out = "raised"
       /\ effect[x] = "none"
       /\ ~EffectFence(t, g) \/ cancelRequested
       /\ UNCHANGED storeVars
    \/ /\ out = "reserved"
       /\ effect[x] = "none"
       /\ EffectFence(t, g) /\ ~cancelRequested
       /\ effect' = [effect EXCEPT ![x] = "reserved"]
       /\ mutationReserved' = TRUE
       /\ UNCHANGED <<status, gen, started, irreversible, cancelRequested,
                      queueVars, aged>>

(***************************************************************************)
(* begin_agentic_chat_effect: reserved -> started is the irreversible      *)
(* boundary, and only the caller that makes it is told to invoke the       *)
(* adapter.                                                                *)
(***************************************************************************)
CanBegin(x) == effect[x] = "reserved"

BeginEffect(x, t, g, out) ==
    \/ /\ out = "existing"
       /\ effect[x] # "none" /\ ~CanBegin(x)
       /\ UNCHANGED storeVars
    \/ /\ out = "raised"
       /\ \/ effect[x] = "none"
          \/ CanBegin(x) /\ (~EffectFence(t, g) \/ cancelRequested)
       /\ UNCHANGED storeVars
    \/ /\ out = "started"
       /\ CanBegin(x)
       /\ EffectFence(t, g) /\ ~cancelRequested
       /\ effect' = [effect EXCEPT ![x] = "started"]
       /\ irreversible' = TRUE
       /\ UNCHANGED <<status, gen, started, mutationReserved, cancelRequested,
                      queueVars, aged>>

(***************************************************************************)
(* reconcile_agentic_chat_effect and the transition trigger: a settled     *)
(* effect is immutable, an uncertain one may be resolved without the       *)
(* owner, an unstarted reservation of a cancelled turn may be closed       *)
(* without the owner, everything else needs the write fence.               *)
(***************************************************************************)
LegalTarget(x) ==
    CASE effect[x] = "reserved"  -> {"cancelled"}
      [] effect[x] = "started"   -> {"succeeded", "failed", "uncertain"}
      [] effect[x] = "uncertain" -> {"succeeded", "failed"}
      [] OTHER                   -> {}

AlreadySettled(x, target) ==
    effect[x] \in SettledState \/ (effect[x] = "uncertain" /\ target = "uncertain")

RequiresOwner(x) ==
    /\ effect[x] # "uncertain"
    /\ ~(effect[x] = "reserved" /\ (cancelRequested \/ status = "cancelled"))

MaySettle(x, t, g, target) ==
    /\ target \in LegalTarget(x)
    /\ RequiresOwner(x) => EffectFence(t, g)

ReconcileEffect(x, t, g, target, out) ==
    \/ /\ out = "existing"
       /\ AlreadySettled(x, target)
       /\ UNCHANGED storeVars
    \/ /\ out = "raised"
       /\ ~AlreadySettled(x, target)
       /\ ~MaySettle(x, t, g, target)
       /\ UNCHANGED storeVars
    \/ /\ out = "reconciled"
       /\ ~AlreadySettled(x, target)
       /\ MaySettle(x, t, g, target)
       /\ effect' = [effect EXCEPT ![x] = target]
       /\ UNCHANGED <<turnVars, queueVars, aged>>

-----------------------------------------------------------------------------
(* The clock, as far as the procedures read it *)

ResidenceExpires ==
    /\ ~aged
    /\ aged' = TRUE
    /\ UNCHANGED <<turnVars, queueVars, effect>>

OwnerStalls ==
    /\ jobStatus = "processing"
    /\ ~stalled
    /\ stalled' = TRUE
    /\ UNCHANGED <<turnVars, jobStatus, token, attempts, issued, effect, aged>>

-----------------------------------------------------------------------------
(***************************************************************************)
(* The store under any caller.  complete_queue_job does not look at the    *)
(* turn: its callers' part of the contract, that the turn is completed, is *)
(* the guard here.                                                         *)
(***************************************************************************)
CallClaim(t) == \E out \in ClaimOutcome : ClaimTurn(t, out)

CallBegin(t, g) == \E out \in BeginOutcome : BeginExecution(t, g, out)

CallRecover(t, g) ==
    \E class \in FailureClass, out \in RecoverOutcome :
        RecoverTurn(t, g, class, out)

CallFinalize(t, g) ==
    \E s \in Terminal, out \in FinalizeOutcome : FinalizeTurn(t, g, s, out)

CallComplete(t) ==
    /\ status = "completed"
    /\ \E out \in BOOLEAN : CompleteQueueJob(t, out)

CallReserve(x, t, g) == \E out \in ReserveOutcome : ReserveEffect(x, t, g, out)

CallBeginEffect(x, t, g) ==
    \E out \in BeginEffOutcome : BeginEffect(x, t, g, out)

CallReconcile(x, t, g) ==
    \E target \in TargetState, out \in SettleOutcome :
        ReconcileEffect(x, t, g, target, out)

StoreNext ==
    \/ ClaimPendingJob
    \/ RequestCancel
    \/ ResidenceExpires
    \/ OwnerStalls
    \/ \E t \in 1..issued :
         \/ CallClaim(t)
         \/ CallComplete(t)
         \/ \E g \in 1..gen :
              \/ CallBegin(t, g)
              \/ CallRecover(t, g)
              \/ CallFinalize(t, g)
              \/ \E x \in Effects :
                   \/ CallReserve(x, t, g)
                   \/ CallBeginEffect(x, t, g)
                   \/ CallReconcile(x, t, g)

StoreSpec == StoreInit /\ [][StoreNext]_storeVars

-----------------------------------------------------------------------------
(* What the procedures guarantee whoever calls them *)

(***************************************************************************)
(* The queue row never contradicts the turn: a token is held exactly while *)
(* the job is processing, a pending job means a queued turn (so a claim    *)
(* never hands out a finished or running turn), a running turn always has  *)
(* a processing job, and a finished job shows its turn's own outcome.      *)
(***************************************************************************)
QueueAgreesWithTurn ==
    /\ (token # NoToken) <=> (jobStatus = "processing")
    /\ jobStatus = "pending" => status = "queued"
    /\ status = "running" => jobStatus = "processing"
    /\ jobStatus \in Terminal => status = jobStatus

(***************************************************************************)
(* A queued turn bears no trace of execution: recover_agentic_chat_turn    *)
(* requeues only what provably never reached the provider or an effect,    *)
(* so the next generation starts from nothing.                             *)
(***************************************************************************)
QueuedIsPristine ==
    status = "queued" =>
        /\ ~started /\ ~mutationReserved /\ ~irreversible /\ ~cancelRequested
        /\ \A x \in Effects : effect[x] = "none"

(***************************************************************************)
(* The boundary columns agree with the effect rows they summarise: an      *)
(* effect exists exactly if mutation_reserved_at is set, one went past its *)
(* reservation exactly if irreversible_boundary_at is set, and neither is  *)
(* possible before execution_started_at.                                   *)
(***************************************************************************)
BoundariesMatchEffects ==
    /\ mutationReserved <=> \E x \in Effects : effect[x] # "none"
    /\ irreversible <=>
         \E x \in Effects :
            effect[x] \in {"started", "succeeded", "failed", "uncertain"}
    /\ mutationReserved => started

(***************************************************************************)
(* Every token and every generation is paid for by an attempt: a pending   *)
(* job has spent all its tokens, a processing one has one token out, and   *)
(* each generation was claimed under a token of its own.  So max_attempts  *)
(* bounds how often a turn is claimed.                                     *)
(***************************************************************************)
ClaimsWithinBudget ==
    /\ gen <= issued
    /\ issued <= attempts + 1
    /\ jobStatus = "pending" => issued = attempts
    /\ jobStatus = "processing" => issued = attempts + 1
    /\ status = "queued" => gen <= attempts

(***************************************************************************)
(* An accepted cancellation cannot be lost to a completion, a failure or a *)
(* requeue: from then on the turn is running or cancelled.                 *)
(***************************************************************************)
CancelIsNotLost == cancelRequested => status \in {"running", "cancelled"}

(* Together they are inductive. *)
StoreInv ==
    /\ StoreTypeOK
    /\ QueueAgreesWithTurn
    /\ QueuedIsPristine
    /\ BoundariesMatchEffects
    /\ ClaimsWithinBudget
    /\ CancelIsNotLost

(***************************************************************************)
(* A terminal turn keeps its outcome and never comes back, and its queue   *)
(* row keeps the same outcome, whatever late or stale call arrives; a      *)
(* settled effect keeps its state.                                         *)
(***************************************************************************)
KeepsWhatIsFinal ==
    /\ status \in Terminal => status' = status
    /\ jobStatus \in Terminal => jobStatus' = jobStatus
    /\ \A x \in Effects : effect[x] \in SettledState => effect'[x] = effect[x]

TerminalIsFinal == [][KeepsWhatIsFinal]_storeVars
=============================================================================
