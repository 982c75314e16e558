--------------------------- MODULE TurnStoreProofs ---------------------------
(***************************************************************************)
(* The guarantees of TurnStore hold for every set of effects and every     *)
(* max_attempts, whoever calls the procedures.  The conjunction StoreInv   *)
(* of the invariants is inductive: no procedure preserves one of them      *)
(* without the others (a requeue needs a pristine turn, a pending job      *)
(* needs a queued turn, and so on).  One lemma per procedure.              *)
(***************************************************************************)
EXTENDS TurnStore, TLAPS

-----------------------------------------------------------------------------
(* What a step leaves alone *)

(* Most outcomes leave every row alone; StoreInv is about the rows only. *)
LEMMA NothingWritten ==
    ASSUME StoreInv, UNCHANGED storeVars
    PROVE  StoreInv'
BY DEF storeVars, turnVars, queueVars, StoreInv, StoreTypeOK, ColumnsOK,
       CountersOK, QueueAgreesWithTurn, QueuedIsPristine,
       BoundariesMatchEffects, ClaimsWithinBudget, CancelIsNotLost

(* The boundary columns and the effects are only compared with each other. *)
LEMMA EffectsUntouched ==
    ASSUME StoreInv,
           UNCHANGED <<started, mutationReserved, irreversible, effect>>
    PROVE  BoundariesMatchEffects'
BY DEF StoreInv, BoundariesMatchEffects

-----------------------------------------------------------------------------
(* Queue procedures *)

(* claim_pending_jobs hands out the one token the attempt pays for. *)
LEMMA ClaimPendingJobPreserves ==
    ASSUME StoreInv, ClaimPendingJob
    PROVE  StoreInv'
<1> USE DEF ClaimPendingJob, turnVars, StoreInv, StoreTypeOK
<1>1. ColumnsOK'
  BY DEF ColumnsOK, JobStatus
<1>2. CountersOK'
  BY DEF CountersOK
<1>3. QueueAgreesWithTurn'
  BY DEF QueueAgreesWithTurn, CountersOK, Terminal, NoToken
<1>4. QueuedIsPristine' /\ CancelIsNotLost'
  BY DEF QueuedIsPristine, CancelIsNotLost
<1>5. ClaimsWithinBudget'
  BY DEF ClaimsWithinBudget, CountersOK
<1>6. QED
  BY <1>1, <1>2, <1>3, <1>4, <1>5, EffectsUntouched

(* complete_queue_job, called for a completed turn, agrees with the turn. *)
LEMMA CompleteQueueJobPreserves ==
    ASSUME StoreInv, status = "completed",
           NEW t \in Nat \ {0}, NEW out \in BOOLEAN, CompleteQueueJob(t, out)
    PROVE  StoreInv'
<1>1. CASE UNCHANGED storeVars
  BY <1>1, NothingWritten
<1>2. CASE ~UNCHANGED storeVars
  <2> USE <1>2 DEF CompleteQueueJob, turnVars, StoreInv, StoreTypeOK
  <2>1. ColumnsOK'
    BY DEF ColumnsOK, JobStatus, Terminal
  <2>2. CountersOK'
    BY DEF CountersOK, NoToken
  <2>3. QueueAgreesWithTurn'
    BY DEF QueueAgreesWithTurn, Terminal, NoToken
  <2>4. QueuedIsPristine' /\ CancelIsNotLost'
    BY DEF QueuedIsPristine, CancelIsNotLost
  <2>5. ClaimsWithinBudget'
    BY DEF ClaimsWithinBudget
  <2>6. QED
    BY <2>1, <2>2, <2>3, <2>4, <2>5, EffectsUntouched
<1>3. QED
  BY <1>1, <1>2

-----------------------------------------------------------------------------
(* Turn procedures *)

(* claim_agentic_chat_turn: the token the job holds pays for the generation. *)
LEMMA ClaimTurnPreserves ==
    ASSUME StoreInv, NEW t \in Nat \ {0}, NEW out, ClaimTurn(t, out)
    PROVE  StoreInv'
<1>1. CASE UNCHANGED storeVars
  BY <1>1, NothingWritten
<1>2. CASE ~UNCHANGED storeVars
  <2>1. /\ status = "queued" /\ OwnsJob(t) /\ ~cancelRequested
        /\ status' = "running" /\ gen' = gen + 1
        /\ UNCHANGED <<started, mutationReserved, irreversible,
                       cancelRequested, queueVars, effect, aged>>
    BY <1>2 DEF ClaimTurn, ClaimRaises
  <2> USE <2>1 DEF queueVars, OwnsJob, StoreInv, StoreTypeOK
  <2>2. ColumnsOK'
    BY DEF ColumnsOK, TurnStatus
  <2>3. CountersOK'
    BY DEF CountersOK
  <2>4. QueueAgreesWithTurn'
    BY DEF QueueAgreesWithTurn, Terminal
  <2>5. QueuedIsPristine' /\ CancelIsNotLost'
    BY DEF QueuedIsPristine, CancelIsNotLost
  <2>6. ClaimsWithinBudget'
    BY DEF ClaimsWithinBudget, CountersOK
  <2>7. QED
    BY <2>2, <2>3, <2>4, <2>5, <2>6, EffectsUntouched
<1>3. QED
  BY <1>1, <1>2

(* begin_agentic_chat_turn_execution marks a turn that is running. *)
LEMMA BeginExecutionPreserves ==
    ASSUME StoreInv, NEW t, NEW g, NEW out, BeginExecution(t, g, out)
    PROVE  StoreInv'
<1>1. CASE UNCHANGED storeVars
  BY <1>1, NothingWritten
<1>2. CASE ~UNCHANGED storeVars
  <2>1. status = "running" /\ RecordStart
    BY <1>2 DEF BeginExecution, CurrentRun
  <2> USE <2>1 DEF RecordStart, StoreInv, StoreTypeOK
  <2>2. ColumnsOK'
    BY DEF ColumnsOK
  <2>3. CountersOK'
    BY DEF CountersOK
  <2>4. QueueAgreesWithTurn'
    BY DEF QueueAgreesWithTurn
  <2>5. QueuedIsPristine' /\ CancelIsNotLost'
    BY DEF QueuedIsPristine, CancelIsNotLost
  <2>6. BoundariesMatchEffects' /\ ClaimsWithinBudget'
    BY DEF BoundariesMatchEffects, ClaimsWithinBudget
  <2>7. QED
    BY <2>2, <2>3, <2>4, <2>5, <2>6
<1>3. QED
  BY <1>1, <1>2

(* A finished turn's job takes over the turn's own outcome. *)
LEMMA ReconcileQueueRowPreserves ==
    ASSUME StoreInv, status \in Terminal, ReconcileQueueRow
    PROVE  StoreInv'
<1> USE DEF ReconcileQueueRow, turnVars, StoreInv, StoreTypeOK
<1>1. ColumnsOK'
  BY DEF ColumnsOK, JobStatus
<1>2. CountersOK'
  BY DEF CountersOK, NoToken
<1>3. QueueAgreesWithTurn'
  BY DEF QueueAgreesWithTurn, Terminal, NoToken
<1>4. QueuedIsPristine' /\ CancelIsNotLost'
  BY DEF QueuedIsPristine, CancelIsNotLost
<1>5. ClaimsWithinBudget'
  BY DEF ClaimsWithinBudget, Terminal
<1>6. QED
  BY <1>1, <1>2, <1>3, <1>4, <1>5, EffectsUntouched

(* A requeue returns the turn to the queue without a trace of execution. *)
LEMMA ScheduleRetryPreserves ==
    ASSUME StoreInv, NEW t \in Nat \ {0}, NEW class,
           OwnsJob(t), ~cancelRequested, MayRetry(class), ScheduleRetry
    PROVE  StoreInv'
<1>1. SafePreStart /\ attempts + 1 < MaxAttempts
  BY DEF MayRetry
<1> USE DEF ScheduleRetry, OwnsJob, StoreInv, StoreTypeOK
<1>2. ColumnsOK'
  BY DEF ColumnsOK, JobStatus, TurnStatus
<1>3. CountersOK'
  BY <1>1, MaxAttemptsAssumption DEF CountersOK, NoToken
<1>4. QueueAgreesWithTurn'
  BY DEF QueueAgreesWithTurn, NoToken, Terminal
<1>5. QueuedIsPristine' /\ CancelIsNotLost'
  BY <1>1 DEF QueuedIsPristine, CancelIsNotLost, SafePreStart, BoundaryCrossed
<1>6. ClaimsWithinBudget'
  BY DEF ClaimsWithinBudget, CountersOK
<1>7. QED
  BY <1>2, <1>3, <1>4, <1>5, <1>6, EffectsUntouched

(* recover_agentic_chat_turn writes in those two ways only. *)
LEMMA RecoverTurnPreserves ==
    ASSUME StoreInv, NEW t \in Nat \ {0}, NEW g, NEW class, NEW out,
           RecoverTurn(t, g, class, out)
    PROVE  StoreInv'
<1>1. CASE UNCHANGED storeVars
  BY <1>1, NothingWritten
<1>2. CASE ~UNCHANGED storeVars
  <2>1. \/ status \in Terminal /\ ReconcileQueueRow
        \/ OwnsJob(t) /\ ~cancelRequested /\ MayRetry(class) /\ ScheduleRetry
    BY <1>2 DEF RecoverTurn, CancelDecides
  <2>2. QED
    BY <2>1, ReconcileQueueRowPreserves, ScheduleRetryPreserves
<1>3. QED
  BY <1>1, <1>2

(* finalize_agentic_chat_turn ends a running turn; cancellation wins. *)
LEMMA FinalizeTurnPreserves ==
    ASSUME StoreInv, NEW t \in Nat \ {0}, NEW g, NEW s \in Terminal, NEW out,
           FinalizeTurn(t, g, s, out)
    PROVE  StoreInv'
<1>1. CASE UNCHANGED storeVars
  BY <1>1, NothingWritten
<1>2. CASE ~UNCHANGED storeVars
  <2>1. /\ status = "running" /\ ~CancelWins(s)
        /\ status' = s
        /\ UNCHANGED <<gen, started, mutationReserved, irreversible,
                       cancelRequested, queueVars, effect, aged>>
    BY <1>2 DEF FinalizeTurn, CurrentRun
  <2> USE <2>1 DEF queueVars, StoreInv, StoreTypeOK, Terminal
  <2>2. ColumnsOK'
    BY DEF ColumnsOK, TurnStatus
  <2>3. CountersOK'
    BY DEF CountersOK
  <2>4. QueueAgreesWithTurn'
    BY DEF QueueAgreesWithTurn
  <2>5. QueuedIsPristine' /\ CancelIsNotLost'
    BY DEF QueuedIsPristine, CancelIsNotLost, CancelWins
  <2>6. ClaimsWithinBudget'
    BY DEF ClaimsWithinBudget
  <2>7. QED
    BY <2>2, <2>3, <2>4, <2>5, <2>6, EffectsUntouched
<1>3. QED
  BY <1>1, <1>2

(* request_agentic_chat_turn_cancel takes the job of a queued turn along. *)
LEMMA RequestCancelPreserves ==
    ASSUME StoreInv, RequestCancel
    PROVE  StoreInv'
<1>1. CASE CancelQueuedTurn
  <2> USE <1>1 DEF CancelQueuedTurn, StoreInv, StoreTypeOK
  <2>1. ColumnsOK'
    BY DEF ColumnsOK, TurnStatus, JobStatus, Terminal
  <2>2. CountersOK'
    BY DEF CountersOK, NoToken
  <2>3. QueueAgreesWithTurn' /\ QueuedIsPristine' /\ CancelIsNotLost'
    BY DEF QueueAgreesWithTurn, NoToken, QueuedIsPristine, CancelIsNotLost
  <2>4. ClaimsWithinBudget'
    BY DEF ClaimsWithinBudget
  <2>5. QED
    BY <2>1, <2>2, <2>3, <2>4, EffectsUntouched
<1>2. CASE CancelRunningTurn
  <2> USE <1>2 DEF CancelRunningTurn, queueVars, StoreInv, StoreTypeOK
  <2>1. ColumnsOK'
    BY DEF ColumnsOK
  <2>2. CountersOK'
    BY DEF CountersOK
  <2>3. QueueAgreesWithTurn' /\ QueuedIsPristine' /\ CancelIsNotLost'
    BY DEF QueueAgreesWithTurn, QueuedIsPristine, CancelIsNotLost
  <2>4. ClaimsWithinBudget'
    BY DEF ClaimsWithinBudget
  <2>5. QED
    BY <2>1, <2>2, <2>3, <2>4, EffectsUntouched
<1>3. QED
  BY <1>1, <1>2 DEF RequestCancel

-----------------------------------------------------------------------------
(* Effect procedures *)

(***************************************************************************)
(* A step that moves one effect of a turn that is not queued and leaves    *)
(* the turn's status, its cancellation and the queue row alone keeps       *)
(* everything but, possibly, the boundaries.                               *)
(***************************************************************************)
LEMMA EffectStepPreserves ==
    ASSUME StoreInv, status # "queued", BoundariesMatchEffects',
           NEW x \in Effects, NEW s \in EffectState,
           effect' = [effect EXCEPT ![x] = s],
           mutationReserved' \in BOOLEAN, irreversible' \in BOOLEAN,
           UNCHANGED <<status, gen, started, cancelRequested, queueVars, aged>>
    PROVE  StoreInv'
<1> USE DEF queueVars, StoreInv, StoreTypeOK
<1>1. ColumnsOK'
  BY DEF ColumnsOK
<1>2. CountersOK'
  BY DEF CountersOK
<1>3. QueueAgreesWithTurn' /\ QueuedIsPristine' /\ CancelIsNotLost'
  BY DEF QueueAgreesWithTurn, QueuedIsPristine, CancelIsNotLost
<1>4. ClaimsWithinBudget'
  BY DEF ClaimsWithinBudget
<1>5. QED
  BY <1>1, <1>2, <1>3, <1>4

(* reserve_agentic_chat_effect sets mutation_reserved_at with the row. *)
LEMMA ReserveEffectPreserves ==
    ASSUME StoreInv, NEW x \in Effects, NEW t, NEW g, NEW out,
           ReserveEffect(x, t, g, out)
    PROVE  StoreInv'
<1>1. CASE UNCHANGED storeVars
  BY <1>1, NothingWritten
<1>2. CASE ~UNCHANGED storeVars
  <2>1. /\ status = "running" /\ started /\ effect[x] = "none"
        /\ effect' = [effect EXCEPT ![x] = "reserved"]
        /\ mutationReserved' = TRUE
        /\ UNCHANGED <<status, gen, started, irreversible, cancelRequested,
                       queueVars, aged>>
    BY <1>2 DEF ReserveEffect, EffectFence, CurrentRun
  <2>2. effect \in [Effects -> EffectState] /\ BoundariesMatchEffects
    BY DEF StoreInv, StoreTypeOK, ColumnsOK
  <2>3. BoundariesMatchEffects'
    BY <2>1, <2>2 DEF BoundariesMatchEffects
  <2>4. irreversible' \in BOOLEAN
    BY <2>1 DEF StoreInv, StoreTypeOK, ColumnsOK
  <2>5. QED
    BY <2>1, <2>3, <2>4, EffectStepPreserves DEF EffectState
<1>3. QED
  BY <1>1, <1>2

(* begin_agentic_chat_effect sets irreversible_boundary_at with the state. *)
LEMMA BeginEffectPreserves ==
    ASSUME StoreInv, NEW x \in Effects, NEW t, NEW g, NEW out,
           BeginEffect(x, t, g, out)
    PROVE  StoreInv'
<1>1. CASE UNCHANGED storeVars
  BY <1>1, NothingWritten
<1>2. CASE ~UNCHANGED storeVars
  <2>1. /\ status = "running" /\ started /\ effect[x] = "reserved"
        /\ effect' = [effect EXCEPT ![x] = "started"]
        /\ irreversible' = TRUE
        /\ UNCHANGED <<status, gen, started, mutationReserved, cancelRequested,
                       queueVars, aged>>
    BY <1>2 DEF BeginEffect, CanBegin, EffectFence, CurrentRun
  <2>2. effect \in [Effects -> EffectState] /\ BoundariesMatchEffects
    BY DEF StoreInv, StoreTypeOK, ColumnsOK
  <2>3. BoundariesMatchEffects'
    BY <2>1, <2>2 DEF BoundariesMatchEffects
  <2>4. mutationReserved' \in BOOLEAN
    BY <2>1 DEF StoreInv, StoreTypeOK, ColumnsOK
  <2>5. QED
    BY <2>1, <2>3, <2>4, EffectStepPreserves DEF EffectState
<1>3. QED
  BY <1>1, <1>2

(* What reconcile_agentic_chat_effect may change an effect to. *)
LEMMA SettlingMoves ==
    ASSUME NEW x \in Effects, NEW target \in LegalTarget(x)
    PROVE  \/ effect[x] = "reserved" /\ target = "cancelled"
           \/ /\ effect[x] \in {"started", "uncertain"}
              /\ target \in {"succeeded", "failed", "uncertain"}
BY DEF LegalTarget

(* reconcile_agentic_chat_effect stays on its side of the boundary. *)
LEMMA ReconcileEffectPreserves ==
    ASSUME StoreInv, NEW x \in Effects, NEW t, NEW g, NEW target, NEW out,
           ReconcileEffect(x, t, g, target, out)
    PROVE  StoreInv'
<1>1. CASE UNCHANGED storeVars
  BY <1>1, NothingWritten
<1>2. CASE ~UNCHANGED storeVars
  <2>1. /\ target \in LegalTarget(x)
        /\ effect' = [effect EXCEPT ![x] = target]
        /\ UNCHANGED <<turnVars, queueVars, aged>>
    BY <1>2 DEF ReconcileEffect, MaySettle
  <2>2. \/ effect[x] = "reserved" /\ target = "cancelled"
        \/ /\ effect[x] \in {"started", "uncertain"}
           /\ target \in {"succeeded", "failed", "uncertain"}
    BY <2>1, SettlingMoves
  <2>3. /\ effect \in [Effects -> EffectState] /\ BoundariesMatchEffects
        /\ status # "queued"
    BY <2>2 DEF StoreInv, StoreTypeOK, ColumnsOK, QueuedIsPristine
  <2>4. BoundariesMatchEffects'
    BY <2>1, <2>2, <2>3 DEF BoundariesMatchEffects, turnVars
  <2>5. mutationReserved' \in BOOLEAN /\ irreversible' \in BOOLEAN
    BY <2>1 DEF StoreInv, StoreTypeOK, ColumnsOK, turnVars
  <2>6. target \in EffectState
    BY <2>2 DEF EffectState, SettledState
  <2>7. QED
    BY <2>1, <2>3, <2>4, <2>5, <2>6, EffectStepPreserves DEF turnVars
<1>3. QED
  BY <1>1, <1>2

-----------------------------------------------------------------------------
(* The clock *)

(* The passing of time is seen by the fences only. *)
LEMMA ClockPreserves ==
    ASSUME StoreInv, ResidenceExpires \/ OwnerStalls
    PROVE  StoreInv'
<1> USE DEF ResidenceExpires, OwnerStalls, turnVars, queueVars, StoreInv,
            StoreTypeOK
<1>1. ColumnsOK'
  BY DEF ColumnsOK
<1>2. CountersOK'
  BY DEF CountersOK
<1>3. QueueAgreesWithTurn' /\ QueuedIsPristine' /\ CancelIsNotLost'
  BY DEF QueueAgreesWithTurn, QueuedIsPristine, CancelIsNotLost
<1>4. ClaimsWithinBudget'
  BY DEF ClaimsWithinBudget
<1>5. QED
  BY <1>1, <1>2, <1>3, <1>4, EffectsUntouched

-----------------------------------------------------------------------------
(* The invariant of the store *)

(* Admission commits a state of the invariant. *)
LEMMA InitEstablishes == StoreInit => StoreInv
<1> SUFFICES ASSUME StoreInit PROVE StoreInv
  OBVIOUS
<1> USE DEF StoreInit
<1>1. ColumnsOK
  BY DEF ColumnsOK, TurnStatus, JobStatus, EffectState
<1>2. CountersOK
  BY MaxAttemptsAssumption DEF CountersOK, NoToken
<1>3. QueueAgreesWithTurn /\ QueuedIsPristine /\ CancelIsNotLost
  BY DEF QueueAgreesWithTurn, Terminal, QueuedIsPristine, CancelIsNotLost
<1>4. BoundariesMatchEffects
  BY DEF BoundariesMatchEffects
<1>5. ClaimsWithinBudget
  BY DEF ClaimsWithinBudget
<1>6. QED
  BY <1>1, <1>2, <1>3, <1>4, <1>5 DEF StoreInv, StoreTypeOK

(* Every step of any caller preserves it. *)
LEMMA NextPreserves == StoreInv /\ [StoreNext]_storeVars => StoreInv'
<1> SUFFICES ASSUME StoreInv, [StoreNext]_storeVars PROVE StoreInv'
  OBVIOUS
<1>1. CASE UNCHANGED storeVars
  BY <1>1, NothingWritten
<1>2. CASE ClaimPendingJob
  BY <1>2, ClaimPendingJobPreserves
<1>3. CASE RequestCancel
  BY <1>3, RequestCancelPreserves
<1>4. CASE ResidenceExpires \/ OwnerStalls
  BY <1>4, ClockPreserves
<1>5. ASSUME NEW t \in Nat \ {0}, CallClaim(t) \/ CallComplete(t)
      PROVE  StoreInv'
  BY <1>5, ClaimTurnPreserves, CompleteQueueJobPreserves
     DEF CallClaim, CallComplete
<1>6. ASSUME NEW t \in Nat \ {0}, NEW g,
             CallBegin(t, g) \/ CallRecover(t, g) \/ CallFinalize(t, g)
      PROVE  StoreInv'
  BY <1>6, BeginExecutionPreserves, RecoverTurnPreserves, FinalizeTurnPreserves
     DEF CallBegin, CallRecover, CallFinalize
<1>7. ASSUME NEW t, NEW g, NEW x \in Effects,
             CallReserve(x, t, g) \/ CallBeginEffect(x, t, g) \/ CallReconcile(x, t, g)
      PROVE  StoreInv'
  BY <1>7, ReserveEffectPreserves, BeginEffectPreserves,
     ReconcileEffectPreserves DEF CallReserve, CallBeginEffect, CallReconcile
<1>8. issued \in Nat
  BY DEF StoreInv, StoreTypeOK, CountersOK
<1>9. 1..issued \subseteq Nat \ {0}
  BY <1>8
<1>10. QED
  BY <1>1, <1>2, <1>3, <1>4, <1>5, <1>6, <1>7, <1>9 DEF StoreNext

(***************************************************************************)
(* The inductive invariant: admission establishes it and every procedure,  *)
(* under any caller, in any order, preserves it.                           *)
(***************************************************************************)
THEOREM StoreInvariant == StoreSpec => []StoreInv
BY InitEstablishes, NextPreserves, PTL DEF StoreSpec

-----------------------------------------------------------------------------
(* What follows from it *)

(* Every column and counter stays within its type, attempts below its bound. *)
THEOREM StoreTypeCorrect == StoreSpec => []StoreTypeOK
<1>1. StoreInv => StoreTypeOK
  BY DEF StoreInv
<1>2. QED
  BY <1>1, StoreInvariant, PTL

(* The queue row never contradicts the turn. *)
THEOREM QueueAgreement == StoreSpec => []QueueAgreesWithTurn
<1>1. StoreInv => QueueAgreesWithTurn
  BY DEF StoreInv
<1>2. QED
  BY <1>1, StoreInvariant, PTL

(* Only what never reached the provider or an effect is ever requeued. *)
THEOREM RequeuedIsPristine == StoreSpec => []QueuedIsPristine
<1>1. StoreInv => QueuedIsPristine
  BY DEF StoreInv
<1>2. QED
  BY <1>1, StoreInvariant, PTL

(* The boundary columns summarise the effect rows exactly. *)
THEOREM BoundariesAgree == StoreSpec => []BoundariesMatchEffects
<1>1. StoreInv => BoundariesMatchEffects
  BY DEF StoreInv
<1>2. QED
  BY <1>1, StoreInvariant, PTL

(* Generations and tokens are bounded by the attempts paid for. *)
THEOREM ClaimBudget == StoreSpec => []ClaimsWithinBudget
<1>1. StoreInv => ClaimsWithinBudget
  BY DEF StoreInv
<1>2. QED
  BY <1>1, StoreInvariant, PTL

(* An accepted cancellation is never lost. *)
THEOREM CancellationWins == StoreSpec => []CancelIsNotLost
<1>1. StoreInv => CancelIsNotLost
  BY DEF StoreInv
<1>2. QED
  BY <1>1, StoreInvariant, PTL

-----------------------------------------------------------------------------
(* Finality *)

(* A call that moves one effect keeps what is final if the effect is not. *)
LEMMA EffectStepKeepsFinal ==
    ASSUME StoreInv, NEW x \in Effects, effect[x] \notin SettledState,
           NEW s, effect' = [effect EXCEPT ![x] = s],
           UNCHANGED <<status, jobStatus>>
    PROVE  KeepsWhatIsFinal
<1>1. effect \in [Effects -> EffectState]
  BY DEF StoreInv, StoreTypeOK, ColumnsOK
<1>2. QED
  BY <1>1 DEF KeepsWhatIsFinal

(* The calls about a turn change neither effects nor terminal rows. *)
LEMMA TurnCallsKeepFinal ==
    ASSUME StoreInv, ~UNCHANGED storeVars, NEW t \in Nat \ {0}, NEW g,
           \/ CallClaim(t) \/ CallComplete(t)
           \/ CallBegin(t, g) \/ CallRecover(t, g) \/ CallFinalize(t, g)
    PROVE  KeepsWhatIsFinal
<1> USE DEF KeepsWhatIsFinal, Terminal
<1>1. CASE CallClaim(t)
  BY <1>1 DEF CallClaim, ClaimTurn, queueVars
<1>2. CASE CallComplete(t)
  <2>1. /\ jobStatus \in {"processing", "completed"} /\ jobStatus' = "completed"
        /\ UNCHANGED <<status, effect>>
    BY <1>2 DEF CallComplete, CompleteQueueJob, turnVars
  <2>2. QED
    BY <2>1
<1>3. CASE CallBegin(t, g)
  BY <1>3 DEF CallBegin, BeginExecution, RecordStart
<1>4. CASE CallRecover(t, g)
  <2>1. \/ status \in Terminal /\ ReconcileQueueRow
        \/ CurrentRun(g) /\ OwnsJob(t) /\ ScheduleRetry
    BY <1>4 DEF CallRecover, RecoverTurn
  <2>2. CASE status \in Terminal /\ ReconcileQueueRow
    BY <2>2 DEF ReconcileQueueRow, turnVars, StoreInv, QueueAgreesWithTurn
  <2>3. CASE CurrentRun(g) /\ OwnsJob(t) /\ ScheduleRetry
    BY <2>3 DEF CurrentRun, OwnsJob, ScheduleRetry
  <2>4. QED
    BY <2>1, <2>2, <2>3
<1>5. CASE CallFinalize(t, g)
  BY <1>5 DEF CallFinalize, FinalizeTurn, CurrentRun, queueVars
<1>6. QED
  BY <1>1, <1>2, <1>3, <1>4, <1>5

(* The calls about an effect move it only before it is settled. *)
LEMMA EffectCallsKeepFinal ==
    ASSUME StoreInv, ~UNCHANGED storeVars, NEW x \in Effects, NEW t, NEW g,
           CallReserve(x, t, g) \/ CallBeginEffect(x, t, g) \/ CallReconcile(x, t, g)
    PROVE  KeepsWhatIsFinal
<1> USE DEF SettledState
<1>1. CASE CallReserve(x, t, g)
  <2>1. /\ effect[x] = "none" /\ effect' = [effect EXCEPT ![x] = "reserved"]
        /\ UNCHANGED <<status, jobStatus>>
    BY <1>1 DEF CallReserve, ReserveEffect, queueVars
  <2>2. QED
    BY <2>1, EffectStepKeepsFinal
<1>2. CASE CallBeginEffect(x, t, g)
  <2>1. /\ effect[x] = "reserved" /\ effect' = [effect EXCEPT ![x] = "started"]
        /\ UNCHANGED <<status, jobStatus>>
    BY <1>2 DEF CallBeginEffect, BeginEffect, CanBegin, queueVars
  <2>2. QED
    BY <2>1, EffectStepKeepsFinal
<1>3. CASE CallReconcile(x, t, g)
  <2>1. PICK target \in TargetState :
          /\ ~AlreadySettled(x, target)
          /\ effect' = [effect EXCEPT ![x] = target]
          /\ UNCHANGED <<status, jobStatus>>
    BY <1>3 DEF CallReconcile, ReconcileEffect, turnVars, queueVars
  <2>2. QED
    BY <2>1, EffectStepKeepsFinal DEF AlreadySettled
<1>4. QED
  BY <1>1, <1>2, <1>3

(* So does every step of the store. *)
LEMMA NextKeepsFinal ==
    StoreInv /\ [StoreNext]_storeVars => [KeepsWhatIsFinal]_storeVars
<1> SUFFICES ASSUME StoreInv, StoreNext, ~UNCHANGED storeVars
             PROVE  KeepsWhatIsFinal
  OBVIOUS
<1>1. CASE ClaimPendingJob
  BY <1>1 DEF ClaimPendingJob, turnVars, KeepsWhatIsFinal, Terminal
<1>2. CASE RequestCancel
  BY <1>2 DEF RequestCancel, CancelQueuedTurn, CancelRunningTurn, queueVars,
              KeepsWhatIsFinal, Terminal
<1>3. CASE ResidenceExpires \/ OwnerStalls
  BY <1>3 DEF ResidenceExpires, OwnerStalls, turnVars, queueVars,
              KeepsWhatIsFinal
<1>4. 1..issued \subseteq Nat \ {0}
  BY DEF StoreInv, StoreTypeOK, CountersOK
<1>5. QED
  BY <1>1, <1>2, <1>3, <1>4, TurnCallsKeepFinal, EffectCallsKeepFinal
     DEF StoreNext

(***************************************************************************)
(* A terminal turn, a terminal queue row and a settled effect are final,   *)
(* whatever late, stale or repeated call arrives.                          *)
(***************************************************************************)
THEOREM Finality == StoreSpec => TerminalIsFinal
BY StoreInvariant, NextKeepsFinal, PTL DEF StoreSpec, TerminalIsFinal
=============================================================================
