------------------------ MODULE ChatTurnProtocolProofs ------------------------
(***************************************************************************)
(* The workers keep to the contract of the store, for any set of effects,  *)
(* executions and processes: whatever an execution, a sweep or a call that *)
(* arrives late presents, the store issued it.  So every step of ChatTurn  *)
(* is a step of TurnStore (or none), and what TurnStoreProofs proves of    *)
(* the store under any caller holds of the whole turn.                     *)
(*                                                                         *)
(* The first part says what each step of ChatTurn does, one lemma per      *)
(* step: which requests it makes, what the store answers, and where the    *)
(* execution or the sweep goes on from there.  All proofs about the whole  *)
(* turn cite these lemmas and do not look behind them.                     *)
(***************************************************************************)
EXTENDS ChatTurn, TurnStoreProofs

-----------------------------------------------------------------------------
(* How an execution moves *)

(* Only the execution e moves. *)
Alone(e) ==
    /\ exec' \in [Executions -> ExecRecord]
    /\ \A o \in Executions \ {e} : exec'[o] = exec[o]

(* It stays the execution of the same claim. *)
Keeps(e) ==
    /\ exec'[e].tok = exec[e].tok
    /\ exec'[e].gen = exec[e].gen
    /\ exec'[e].zombie = exec[e].zombie

(* Where it goes on, and with what. *)
Becomes(e, location, arg, tool, abort) ==
    /\ Alone(e) /\ Keeps(e)
    /\ exec'[e].pc = location
    /\ exec'[e].arg = arg
    /\ exec'[e].tool = tool
    /\ exec'[e].abort = abort

(* What a step between two calls leaves alone. *)
Local == UNCHANGED <<storeVars, netVars>>

Untold == UNCHANGED <<providerCalls, adapterRuns>>

(* One record of exec is replaced. *)
LEMMA RecordChange ==
    ASSUME ExecTypeOK, NEW e \in Executions, NEW r \in ExecRecord,
           exec' = [exec EXCEPT ![e] = r]
    PROVE  Alone(e) /\ exec'[e] = r
BY DEF ExecTypeOK, Alone

(* Goto only moves on. *)
LEMMA GotoMoves ==
    ASSUME ExecTypeOK, NEW e \in Executions, NEW l \in Location, Goto(e, l)
    PROVE  Becomes(e, l, exec[e].arg, exec[e].tool, exec[e].abort)
BY DEF ExecTypeOK, Goto, Becomes, Alone, Keeps, ExecRecord

(* GotoWith moves on with an argument. *)
LEMMA GotoWithMoves ==
    ASSUME ExecTypeOK, NEW e \in Executions, NEW l \in Location,
           NEW a \in CallArg, GotoWith(e, l, a)
    PROVE  Becomes(e, l, a, exec[e].tool, exec[e].abort)
BY DEF ExecTypeOK, GotoWith, Becomes, Alone, Keeps, ExecRecord

(* The catch block turns to recovery. *)
LEMMA RecoverAsMoves ==
    ASSUME ExecTypeOK, NEW e \in Executions, NEW c \in FailureClass,
           RecoverAs(e, c)
    PROVE  Becomes(e, "recover", c, None, None)
<1> DEFINE r == [exec[e] EXCEPT !.pc = "recover", !.arg = c, !.tool = None,
                                !.abort = None]
<1>1. exec[e] \in ExecRecord
  BY DEF ExecTypeOK
<1>2. r \in ExecRecord
  BY <1>1 DEF ExecRecord, CallArg, Location, AbortReason
<1>3. exec' = [exec EXCEPT ![e] = r]
  BY <1>1 DEF ExecTypeOK, ExecRecord, RecoverAs
<1>4. Alone(e) /\ exec'[e] = r
  BY <1>2, <1>3, RecordChange
<1>5. QED
  BY <1>1, <1>4 DEF Becomes, Keeps, ExecRecord

(* An outcome is going to be committed. *)
LEMMA FinalizeMoves ==
    ASSUME ExecTypeOK, NEW e \in Executions, NEW s \in Terminal,
           Finalize(e, s)
    PROVE  Becomes(e, "finalize", s, None, None)
<1> DEFINE r == [exec[e] EXCEPT !.pc = "finalize", !.arg = s, !.retried = FALSE,
                                !.tool = None, !.abort = None]
<1>1. exec[e] \in ExecRecord
  BY DEF ExecTypeOK
<1>2. r \in ExecRecord
  BY <1>1 DEF ExecRecord, CallArg, Location, AbortReason
<1>3. exec' = [exec EXCEPT ![e] = r]
  BY <1>1 DEF ExecTypeOK, ExecRecord, Finalize
<1>4. Alone(e) /\ exec'[e] = r
  BY <1>2, <1>3, RecordChange
<1>5. QED
  BY <1>1, <1>4 DEF Becomes, Keeps, ExecRecord

(* The stream goes on. *)
LEMMA ResumeMoves ==
    ASSUME ExecTypeOK, NEW e \in Executions, ResumeStream(e)
    PROVE  Becomes(e, "stream", None, None, exec[e].abort)
<1> DEFINE r == [exec[e] EXCEPT !.pc = "stream", !.arg = None, !.tool = None]
<1>1. exec[e] \in ExecRecord
  BY DEF ExecTypeOK
<1>2. r \in ExecRecord
  BY <1>1 DEF ExecRecord, CallArg, Location
<1>3. exec' = [exec EXCEPT ![e] = r]
  BY <1>1 DEF ExecTypeOK, ExecRecord, ResumeStream
<1>4. Alone(e) /\ exec'[e] = r
  BY <1>2, <1>3, RecordChange
<1>5. QED
  BY <1>1, <1>4 DEF Becomes, Keeps, ExecRecord

(* A slot at rest has the type of an execution. *)
LEMMA RestingIsRecord == Resting \in ExecRecord
BY DEF Resting, ExecRecord, Location, CallArg, AbortReason, NoToken


-----------------------------------------------------------------------------

(* It settles. *)
Ends(e) == Alone(e) /\ exec'[e] = Resting

(* It settles, or hands its failure to recovery. *)
Withdraws(e) ==
    /\ Alone(e)
    /\ \/ exec'[e] = Resting
       \/ Keeps(e) /\ exec'[e].pc = "recover" /\ exec'[e].arg \in FailureClass

(* The execution settles. *)
LEMMA FinishMoves ==
    ASSUME ExecTypeOK, NEW e \in Executions, Finish(e)
    PROVE  Ends(e)
BY RestingIsRecord, RecordChange DEF Finish, Ends

(* classifyFailure returns a failure class. *)
LEMMA ClassOfFailure ==
    ASSUME NEW e \in Executions, NEW b \in BOOLEAN
    PROVE  FailureOf(e, b) \in FailureClass
BY DEF FailureOf, FailureClass

(* Recovery is one way to withdraw, *)
LEMMA RecoverAsWithdraws ==
    ASSUME ExecTypeOK, NEW e \in Executions, NEW c \in FailureClass,
           RecoverAs(e, c)
    PROVE  Withdraws(e)
BY RecoverAsMoves DEF Becomes, Withdraws

(* settling the other. *)
LEMMA FinishWithdraws ==
    ASSUME ExecTypeOK, NEW e \in Executions, Finish(e)
    PROVE  Withdraws(e)
BY FinishMoves DEF Ends, Withdraws

(* An effect call that fails ends in recovery. *)
LEMMA FailureWithdraws ==
    ASSUME ExecTypeOK, NEW e \in Executions, EffectCallFails(e)
    PROVE  Withdraws(e)
BY ClassOfFailure, RecoverAsWithdraws DEF EffectCallFails

(* A receipt resumes the stream or ends in recovery. *)
LEMMA ReceiptMoves ==
    ASSUME ExecTypeOK, NEW e \in Executions, NEW s, HandleReceipt(e, s)
    PROVE  \/ Withdraws(e)
           \/ /\ s \in {"succeeded", "failed", "reserved"}
              /\ Becomes(e, "stream", None, None, exec[e].abort)
BY ResumeMoves, RecoverAsWithdraws DEF HandleReceipt, FailureClass

(* It learns the generation its claim stands for. *)
Claims(e) ==
    /\ Alone(e)
    /\ exec'[e].tok = exec[e].tok
    /\ exec'[e].zombie = exec[e].zombie
    /\ exec'[e].gen = gen'

(* What follows the answer to a claim. *)
LEMMA AfterClaimMoves ==
    ASSUME ExecTypeOK, gen' \in Nat, NEW e \in Executions,
           exec[e].pc \in {"claim", "reject"}, NEW out, AfterClaim(e, out)
    PROVE  \/ out = "raised" /\ Ends(e)
           \/ /\ out # "raised" /\ Claims(e)
              /\ exec'[e].pc = "recover" /\ exec'[e].arg \in FailureClass
           \/ /\ exec[e].pc = "reject" /\ out \in {"claimed", "matching_current_claim"}
              /\ Claims(e)
              /\ exec'[e].pc = "finalize" /\ exec'[e].arg = "failed"
           \/ /\ exec[e].pc = "claim" /\ out \in {"claimed", "matching_current_claim"}
              /\ Claims(e)
              /\ exec'[e].pc = "prepare" /\ exec'[e].abort = exec[e].abort
<1>0. exec[e] \in ExecRecord /\ exec \in [Executions -> ExecRecord]
  BY DEF ExecTypeOK
<1>1. ASSUME NEW c \in FailureClass, RecoverClaim(e, c)
      PROVE  Claims(e) /\ exec'[e].pc = "recover" /\ exec'[e].arg = c
  <2> DEFINE r == [exec[e] EXCEPT !.pc = "recover", !.gen = gen', !.arg = c,
                                  !.abort = None]
  <2>1. r \in ExecRecord
    BY <1>0 DEF ExecRecord, CallArg, Location, AbortReason
  <2>2. exec' = [exec EXCEPT ![e] = r]
    BY <1>0, <1>1 DEF ExecRecord, RecoverClaim
  <2>3. Alone(e) /\ exec'[e] = r
    BY <2>1, <2>2, RecordChange
  <2>4. QED
    BY <1>0, <2>3 DEF Claims, ExecRecord
<1>2. ASSUME RejectClaim(e)
      PROVE  Claims(e) /\ exec'[e].pc = "finalize" /\ exec'[e].arg = "failed"
  <2> DEFINE r == [exec[e] EXCEPT !.pc = "finalize", !.gen = gen',
                          !.arg = "failed", !.retried = TRUE, !.abort = None]
  <2>1. r \in ExecRecord
    BY <1>0 DEF ExecRecord, CallArg, Location, AbortReason, Terminal
  <2>2. exec' = [exec EXCEPT ![e] = r]
    BY <1>0, <1>2 DEF ExecRecord, RejectClaim
  <2>3. Alone(e) /\ exec'[e] = r
    BY <2>1, <2>2, RecordChange
  <2>4. QED
    BY <1>0, <2>3 DEF Claims, ExecRecord
<1>3. ASSUME Registered(e)
      PROVE  /\ Claims(e) /\ exec'[e].pc = "prepare"
             /\ exec'[e].abort = exec[e].abort
  <2> DEFINE r == [exec[e] EXCEPT !.pc = "prepare", !.gen = gen',
                                  !.registered = TRUE]
  <2>1. r \in ExecRecord
    BY <1>0 DEF ExecRecord, Location
  <2>2. exec' = [exec EXCEPT ![e] = r]
    BY <1>0, <1>3 DEF ExecRecord, Registered
  <2>3. Alone(e) /\ exec'[e] = r
    BY <2>1, <2>2, RecordChange
  <2>4. QED
    BY <1>0, <2>3 DEF Claims, ExecRecord
<1>4. {"permanent", "unknown", "cancelled", "transient_infra"} \subseteq FailureClass
  BY DEF FailureClass
<1>5. QED
  BY <1>1, <1>2, <1>3, <1>4, FinishMoves DEF AfterClaim

-----------------------------------------------------------------------------
(* The steps of an execution *)

(* claim: the call is given up on or refused, or the generation is learned. *)
LEMMA ClaimCallDoes ==
    ASSUME ExecTypeOK, gen' \in Nat, NEW e \in Executions, ClaimCall(e)
    PROVE  /\ exec[e].pc \in {"claim", "reject"}
           /\ UNCHANGED <<providerCalls, adapterRuns>>
           /\ \/ GiveUp(CallOf(e, "claim")) /\ Ends(e)
              \/ UNCHANGED netVars /\ UNCHANGED storeVars /\ Ends(e)
              \/ /\ UNCHANGED netVars
                 /\ \E out \in ClaimOutcome \ {"raised"} :
                      /\ ClaimTurn(exec[e].tok, out)
                      /\ Claims(e)
                      /\ \/ /\ exec'[e].pc = "recover"
                            /\ exec'[e].arg \in FailureClass
                         \/ /\ exec[e].pc = "reject"
                            /\ out \in {"claimed", "matching_current_claim"}
                            /\ exec'[e].pc = "finalize" /\ exec'[e].arg = "failed"
                         \/ /\ exec[e].pc = "claim"
                            /\ out \in {"claimed", "matching_current_claim"}
                            /\ exec'[e].pc = "prepare"
                            /\ exec'[e].abort = exec[e].abort
<1>1. exec[e].pc \in {"claim", "reject"} /\ UNCHANGED <<providerCalls, adapterRuns>>
  BY DEF ClaimCall, NoInvocation
<1>2. CASE GiveUp(CallOf(e, "claim")) /\ Finish(e)
  BY <1>1, <1>2, FinishMoves
<1>3. ASSUME Answered, NEW out \in ClaimOutcome,
             ClaimTurn(exec[e].tok, out), AfterClaim(e, out)
      PROVE  /\ UNCHANGED netVars
             /\ \/ UNCHANGED storeVars /\ Ends(e)
                \/ /\ out # "raised" /\ Claims(e)
                   /\ \/ /\ exec'[e].pc = "recover"
                         /\ exec'[e].arg \in FailureClass
                      \/ /\ exec[e].pc = "reject"
                         /\ out \in {"claimed", "matching_current_claim"}
                         /\ exec'[e].pc = "finalize" /\ exec'[e].arg = "failed"
                      \/ /\ exec[e].pc = "claim"
                         /\ out \in {"claimed", "matching_current_claim"}
                         /\ exec'[e].pc = "prepare"
                         /\ exec'[e].abort = exec[e].abort
  <2>1. out = "raised" => UNCHANGED storeVars
    BY <1>3 DEF ClaimTurn
  <2>2. QED
    BY <1>1, <1>3, <2>1, AfterClaimMoves DEF Answered
<1>4. QED
  BY <1>1, <1>2, <1>3 DEF ClaimCall

(* Preparation fails: nothing was asked of anybody. *)
LEMMA PrepareFailsDoes ==
    ASSUME ExecTypeOK, NEW e \in Executions, PrepareFails(e)
    PROVE  exec[e].pc = "prepare" /\ Local /\ Untold /\ Withdraws(e)
<1>1. {"stale_context", "provider_throttle", "permanent"} \subseteq FailureClass
  BY DEF FailureClass
<1>2. QED
  BY <1>1, ClassOfFailure, RecoverAsWithdraws
     DEF PrepareFails, NoInvocation, Local, Untold

(* begin: only the answer "started" leads to the provider. *)
LEMMA BeginCallDoes ==
    ASSUME ExecTypeOK, NEW e \in Executions, BeginCall(e)
    PROVE  /\ exec[e].pc = "prepare" /\ Untold
           /\ \/ GiveUp(CallOf(e, "begin")) /\ Withdraws(e)
              \/ Local /\ Withdraws(e)
              \/ /\ UNCHANGED netVars /\ ~Aborted(e)
                 /\ BeginExecution(exec[e].tok, exec[e].gen, "started")
                 /\ Becomes(e, "provider", exec[e].arg, exec[e].tool,
                            exec[e].abort)
<1>1. exec[e].pc = "prepare" /\ Untold
  BY DEF BeginCall, NoInvocation, Untold
<1>2. CASE GiveUp(CallOf(e, "begin")) /\ RecoverAs(e, FailureOf(e, FALSE))
  BY <1>1, <1>2, ClassOfFailure, RecoverAsWithdraws
<1>3. ASSUME Answered, ~Aborted(e), NEW out \in BeginOutcome,
             BeginExecution(exec[e].tok, exec[e].gen, out), AfterBegin(e, out)
      PROVE  \/ Local /\ Withdraws(e)
             \/ /\ UNCHANGED netVars /\ ~Aborted(e)
                /\ BeginExecution(exec[e].tok, exec[e].gen, "started")
                /\ Becomes(e, "provider", exec[e].arg, exec[e].tool,
                           exec[e].abort)
  <2>1. CASE out = "started"
    <3>1. Goto(e, "provider")
      BY <1>3, <2>1 DEF AfterBegin
    <3>2. QED
      BY <1>3, <2>1, <3>1, GotoMoves DEF Location, Answered
  <2>2. CASE out # "started"
    <3>1. UNCHANGED storeVars
      BY <1>3, <2>2 DEF BeginExecution
    <3>2. {"cancelled", "stale_context", "unknown"} \subseteq FailureClass
      BY DEF FailureClass
    <3>3. QED
      BY <1>3, <2>2, <3>1, <3>2, ClassOfFailure, RecoverAsWithdraws
         DEF AfterBegin, Answered, Local
  <2>3. QED
    BY <2>1, <2>2
<1>4. QED
  BY <1>1, <1>2, <1>3 DEF BeginCall

(* The provider is invoked once on the way to the stream. *)
LEMMA InvokeProviderDoes ==
    ASSUME ExecTypeOK, NEW e \in Executions, InvokeProvider(e)
    PROVE  /\ exec[e].pc = "provider" /\ ~Aborted(e) /\ Local
           /\ providerCalls' = providerCalls + 1 /\ UNCHANGED adapterRuns
           /\ Becomes(e, "stream", exec[e].arg, exec[e].tool, exec[e].abort)
BY GotoMoves DEF InvokeProvider, Location, Local

(* The stream breaks off. *)
LEMMA StreamFailsDoes ==
    ASSUME ExecTypeOK, NEW e \in Executions, StreamFails(e)
    PROVE  exec[e].pc \in {"provider", "stream"} /\ Local /\ Untold /\ Withdraws(e)
<1>1. {"transient_infra", "provider_throttle", "permanent"} \subseteq FailureClass
  BY DEF FailureClass
<1>2. QED
  BY <1>1, ClassOfFailure, RecoverAsWithdraws
     DEF StreamFails, NoInvocation, Local, Untold

(* The model asks for a tool. *)
LEMMA RequestToolDoes ==
    ASSUME ExecTypeOK, NEW e \in Executions, RequestTool(e)
    PROVE  /\ exec[e].pc = "stream" /\ ~Aborted(e) /\ Local /\ Untold
           /\ \E x \in Effects :
                Becomes(e, "reserve", exec[e].arg, x, exec[e].abort)
<1>1. PICK x \in Effects :
        exec' = [exec EXCEPT ![e] = [@ EXCEPT !.pc = "reserve", !.tool = x]]
  BY DEF RequestTool
<1> DEFINE r == [exec[e] EXCEPT !.pc = "reserve", !.tool = x]
<1>2. exec[e] \in ExecRecord
  BY DEF ExecTypeOK
<1>3. r \in ExecRecord
  BY <1>2 DEF ExecRecord, Location
<1>4. exec' = [exec EXCEPT ![e] = r]
  BY <1>1, <1>2 DEF ExecTypeOK, ExecRecord
<1>5. Alone(e) /\ exec'[e] = r
  BY <1>3, <1>4, RecordChange
<1>6. Becomes(e, "reserve", exec[e].arg, x, exec[e].abort)
  BY <1>2, <1>5 DEF Becomes, Keeps, ExecRecord
<1>7. QED
  BY <1>6 DEF RequestTool, NoInvocation, Local, Untold

(* The stream ends: a completion is going to be committed. *)
LEMMA FinishStreamDoes ==
    ASSUME ExecTypeOK, NEW e \in Executions, FinishStream(e)
    PROVE  /\ exec[e].pc = "stream" /\ ~Aborted(e) /\ Local /\ Untold
           /\ Becomes(e, "finalize", "completed", None, None)
BY FinalizeMoves DEF FinishStream, NoInvocation, Terminal, Local, Untold

(* The signal is looked at between the reservation and the boundary. *)
LEMMA CheckReservationDoes ==
    ASSUME ExecTypeOK, NEW e \in Executions, CheckReservation(e)
    PROVE  /\ exec[e].pc = "reserved" /\ Local /\ Untold
           /\ \/ Becomes(e, "unreserve", "cancelled", exec[e].tool, exec[e].abort)
              \/ /\ ~Aborted(e)
                 /\ Becomes(e, "beginEffect", exec[e].arg, exec[e].tool,
                            exec[e].abort)
<1>1. "cancelled" \in CallArg /\ {"unreserve", "beginEffect"} \subseteq Location
  BY DEF CallArg, Terminal, Location
<1>2. QED
  BY <1>1, GotoMoves, GotoWithMoves
     DEF CheckReservation, NoInvocation, Local, Untold

(* An effect call is about an effect, and the rows are well typed. *)
EffectCallOK(e) ==
    /\ ExecTypeOK /\ StoreTypeOK
    /\ e \in Executions
    /\ exec[e].tool \in Effects

(* reserve: a new reservation, the one found, or the outcome found. *)
LEMMA ReserveCallDoes ==
    ASSUME NEW e, EffectCallOK(e), ReserveCall(e)
    PROVE  /\ exec[e].pc = "reserve" /\ Untold
           /\ \/ GiveUp(CallOf(e, "reserve")) /\ Withdraws(e)
              \/ Local /\ Withdraws(e)
              \/ /\ Local /\ effect[exec[e].tool] \in SettledState
                 /\ Becomes(e, "stream", None, None, exec[e].abort)
              \/ /\ UNCHANGED netVars
                 /\ \E out \in ReserveOutcome :
                      ReserveEffect(exec[e].tool, exec[e].tok, exec[e].gen, out)
                 /\ effect'[exec[e].tool] = "reserved"
                 /\ Becomes(e, "reserved", exec[e].arg, exec[e].tool,
                            exec[e].abort)
<1> DEFINE x == exec[e].tool
<1>1. exec[e].pc = "reserve" /\ Untold
  BY DEF ReserveCall, NoInvocation, Untold
<1>2. CASE GiveUp(CallOf(e, "reserve")) /\ EffectCallFails(e)
  BY <1>1, <1>2, FailureWithdraws DEF EffectCallOK
<1>3. ASSUME Answered, NEW out \in ReserveOutcome,
             ReserveEffect(x, exec[e].tok, exec[e].gen, out)
      PROVE  /\ out = "raised" => UNCHANGED storeVars
             /\ effect'[x] \notin {"none", "reserved"} =>
                  /\ UNCHANGED storeVars
                  /\ effect[x] \notin {"none", "reserved"}
  BY <1>3 DEF ReserveEffect, storeVars, EffectCallOK, StoreTypeOK, ColumnsOK
<1>4. CASE /\ Answered
           /\ \E out \in ReserveOutcome :
                /\ ReserveEffect(x, exec[e].tok, exec[e].gen, out)
                /\ out = "raised" /\ EffectCallFails(e)
  BY <1>1, <1>3, <1>4, FailureWithdraws DEF EffectCallOK, Answered, Local
<1>5. CASE /\ Answered
           /\ \E out \in ReserveOutcome :
                /\ ReserveEffect(x, exec[e].tok, exec[e].gen, out)
                /\ effect'[x] = "reserved" /\ Goto(e, "reserved")
  <2>1. Becomes(e, "reserved", exec[e].arg, x, exec[e].abort)
    BY <1>5, GotoMoves DEF EffectCallOK, Location
  <2>2. QED
    BY <1>1, <1>5, <2>1 DEF Answered
<1>6. CASE /\ Answered
           /\ \E out \in ReserveOutcome :
                /\ ReserveEffect(x, exec[e].tok, exec[e].gen, out)
                /\ effect'[x] \notin {"none", "reserved"}
                /\ HandleReceipt(e, effect[x])
  <2>1. Local /\ effect[x] \notin {"none", "reserved"}
    BY <1>3, <1>6 DEF Answered, Local
  <2>2. Withdraws(e) \/ (/\ effect[x] \in SettledState
                         /\ Becomes(e, "stream", None, None, exec[e].abort))
    BY <1>6, <2>1, ReceiptMoves DEF EffectCallOK, SettledState
  <2>3. QED
    BY <1>1, <2>1, <2>2
<1>7. QED
  BY <1>2, <1>4, <1>5, <1>6 DEF ReserveCall

(* The reservation is taken back; whatever is found ends the call. *)
LEMMA UnreserveCallDoes ==
    ASSUME NEW e, EffectCallOK(e), UnreserveCall(e)
    PROVE  /\ exec[e].pc = "unreserve" /\ Untold
           /\ \/ GiveUp(CallOf(e, "settle")) /\ Withdraws(e)
              \/ Local /\ Withdraws(e)
              \/ /\ Local /\ effect[exec[e].tool] \in SettledState
                 /\ Becomes(e, "stream", None, None, exec[e].abort)
              \/ /\ UNCHANGED netVars /\ Withdraws(e)
                 /\ ReconcileEffect(exec[e].tool, exec[e].tok, exec[e].gen,
                                    "cancelled", "reconciled")
<1> DEFINE x == exec[e].tool
<1>1. exec[e].pc = "unreserve" /\ Untold
  BY DEF UnreserveCall, NoInvocation, Untold
<1>2. CASE GiveUp(CallOf(e, "settle")) /\ EffectCallFails(e)
  BY <1>1, <1>2, FailureWithdraws DEF EffectCallOK
<1>3. ASSUME Answered, NEW out \in SettleOutcome,
             ReconcileEffect(x, exec[e].tok, exec[e].gen, "cancelled", out),
             \/ EffectCallFails(e)
             \/ /\ out # "raised" /\ effect'[x] # "cancelled"
                /\ HandleReceipt(e, effect[x])
      PROVE  \/ Local /\ Withdraws(e)
             \/ /\ Local /\ effect[x] \in SettledState
                /\ Becomes(e, "stream", None, None, exec[e].abort)
             \/ /\ UNCHANGED netVars /\ Withdraws(e)
                /\ ReconcileEffect(x, exec[e].tok, exec[e].gen, "cancelled",
                                   "reconciled")
  <2>1. CASE out = "reconciled"
    <3>1. effect'[x] = "cancelled"
      BY <1>3, <2>1 DEF ReconcileEffect, EffectCallOK, StoreTypeOK, ColumnsOK
    <3>2. Withdraws(e)
      BY <1>3, <3>1, FailureWithdraws DEF EffectCallOK
    <3>3. QED
      BY <1>3, <2>1, <3>2 DEF Answered
  <2>2. CASE out # "reconciled"
    <3>1. /\ UNCHANGED storeVars
          /\ out # "raised" => effect[x] \in SettledState
      BY <1>3, <2>2 DEF ReconcileEffect, AlreadySettled
    <3>2. Withdraws(e) \/ (/\ out # "raised"
                           /\ Becomes(e, "stream", None, None, exec[e].abort))
      BY <1>3, FailureWithdraws, ReceiptMoves DEF EffectCallOK
    <3>3. QED
      BY <1>3, <3>1, <3>2 DEF Answered, Local
  <2>3. QED
    BY <2>1, <2>2
<1>4. QED
  BY <1>1, <1>2, <1>3 DEF UnreserveCall

(* begin: only the answer "started" leads to the adapter. *)
LEMMA BeginEffectCallDoes ==
    ASSUME NEW e, EffectCallOK(e), BeginEffectCall(e)
    PROVE  /\ exec[e].pc = "beginEffect" /\ Untold
           /\ \/ GiveUp(CallOf(e, "beginEffect")) /\ Withdraws(e)
              \/ Local /\ Withdraws(e)
              \/ /\ Local /\ effect[exec[e].tool] \in SettledState
                 /\ Becomes(e, "stream", None, None, exec[e].abort)
              \/ /\ UNCHANGED netVars
                 /\ BeginEffect(exec[e].tool, exec[e].tok, exec[e].gen, "started")
                 /\ Becomes(e, "adapter", exec[e].arg, exec[e].tool,
                            exec[e].abort)
<1> DEFINE x == exec[e].tool
<1>1. exec[e].pc = "beginEffect" /\ Untold
  BY DEF BeginEffectCall, NoInvocation, Untold
<1>2. CASE GiveUp(CallOf(e, "beginEffect")) /\ EffectCallFails(e)
  BY <1>1, <1>2, FailureWithdraws DEF EffectCallOK
<1>3. CASE /\ Answered /\ Goto(e, "adapter")
           /\ BeginEffect(x, exec[e].tok, exec[e].gen, "started")
  <2>1. Becomes(e, "adapter", exec[e].arg, x, exec[e].abort)
    BY <1>3, GotoMoves DEF EffectCallOK, Location
  <2>2. QED
    BY <1>1, <1>3, <2>1 DEF Answered
<1>4. CASE /\ Answered /\ EffectCallFails(e)
           /\ BeginEffect(x, exec[e].tok, exec[e].gen, "raised")
  <2>1. UNCHANGED storeVars
    BY <1>4 DEF BeginEffect
  <2>2. QED
    BY <1>1, <1>4, <2>1, FailureWithdraws DEF EffectCallOK, Answered, Local
<1>5. CASE /\ Answered /\ HandleReceipt(e, effect[x])
           /\ BeginEffect(x, exec[e].tok, exec[e].gen, "existing")
  <2>1. UNCHANGED storeVars /\ effect[x] # "reserved"
    BY <1>5 DEF BeginEffect, CanBegin
  <2>2. Withdraws(e) \/ (/\ effect[x] \in SettledState
                         /\ Becomes(e, "stream", None, None, exec[e].abort))
    BY <1>5, <2>1, ReceiptMoves DEF EffectCallOK, SettledState
  <2>3. QED
    BY <1>1, <1>5, <2>1, <2>2 DEF Answered, Local
<1>6. QED
  BY <1>2, <1>3, <1>4, <1>5 DEF BeginEffectCall

(* The adapter is invoked once on the way to settling. *)
LEMMA InvokeAdapterDoes ==
    ASSUME ExecTypeOK, NEW e \in Executions, InvokeAdapter(e)
    PROVE  /\ exec[e].pc = "adapter" /\ Local /\ UNCHANGED providerCalls
           /\ adapterRuns' = [adapterRuns EXCEPT ![exec[e].tool] = @ + 1]
           /\ \E target \in {"succeeded", "failed", "uncertain"} :
                Becomes(e, "settle", target, exec[e].tool, exec[e].abort)
<1>1. /\ {"succeeded", "failed", "uncertain"} \subseteq CallArg
      /\ "settle" \in Location
  BY DEF CallArg, TargetState, SettledState, Location
<1>2. QED
  BY <1>1, GotoWithMoves DEF InvokeAdapter, Local

(* settle: the outcome is recorded, or another one is found. *)
LEMMA SettleCallDoes ==
    ASSUME NEW e, EffectCallOK(e), SettleCall(e)
    PROVE  /\ exec[e].pc = "settle" /\ Untold
           /\ \/ GiveUp(CallOf(e, "settle")) /\ Withdraws(e)
              \/ Local /\ Withdraws(e)
              \/ /\ Local /\ effect[exec[e].tool] \in SettledState
                 /\ Becomes(e, "stream", None, None, exec[e].abort)
              \/ /\ UNCHANGED netVars
                 /\ ReconcileEffect(exec[e].tool, exec[e].tok, exec[e].gen,
                                    exec[e].arg, "reconciled")
                 /\ \/ Withdraws(e)
                    \/ /\ exec[e].arg \in {"succeeded", "failed", "reserved"}
                       /\ Becomes(e, "stream", None, None, exec[e].abort)
<1> DEFINE x == exec[e].tool
<1>1. exec[e].pc = "settle" /\ Untold
  BY DEF SettleCall, NoInvocation, Untold
<1>2. CASE GiveUp(CallOf(e, "settle")) /\ EffectCallFails(e)
  BY <1>1, <1>2, FailureWithdraws DEF EffectCallOK
<1>3. CASE /\ Answered /\ EffectCallFails(e)
           /\ ReconcileEffect(x, exec[e].tok, exec[e].gen, exec[e].arg, "raised")
  <2>1. UNCHANGED storeVars
    BY <1>3 DEF ReconcileEffect
  <2>2. QED
    BY <1>1, <1>3, <2>1, FailureWithdraws DEF EffectCallOK, Answered, Local
<1>4. CASE /\ Answered /\ HandleReceipt(e, effect'[x])
           /\ ReconcileEffect(x, exec[e].tok, exec[e].gen, exec[e].arg, "existing")
  <2>1. /\ UNCHANGED storeVars /\ effect'[x] = effect[x]
        /\ effect[x] \in SettledState \cup {"uncertain"}
    BY <1>4 DEF ReconcileEffect, AlreadySettled, storeVars
  <2>2. Withdraws(e) \/ (/\ effect[x] \in SettledState
                         /\ Becomes(e, "stream", None, None, exec[e].abort))
    BY <1>4, <2>1, ReceiptMoves DEF EffectCallOK, SettledState
  <2>3. QED
    BY <1>1, <1>4, <2>1, <2>2 DEF Answered, Local
<1>5. CASE /\ Answered /\ HandleReceipt(e, effect'[x])
           /\ ReconcileEffect(x, exec[e].tok, exec[e].gen, exec[e].arg, "reconciled")
  <2>1. effect'[x] = exec[e].arg
    BY <1>5 DEF ReconcileEffect, EffectCallOK, StoreTypeOK, ColumnsOK
  <2>2. Withdraws(e) \/ (/\ exec[e].arg \in {"succeeded", "failed", "reserved"}
                         /\ Becomes(e, "stream", None, None, exec[e].abort))
    BY <1>5, <2>1, ReceiptMoves DEF EffectCallOK
  <2>3. QED
    BY <1>1, <1>5, <2>2 DEF Answered
<1>6. QED
  BY <1>2, <1>3, <1>4, <1>5 DEF SettleCall, SettleOutcome

(* recover: an end is decided, or there is nothing left to do. *)
LEMMA RecoverCallDoes ==
    ASSUME ExecTypeOK, NEW e \in Executions, RecoverCall(e)
    PROVE  /\ exec[e].pc = "recover" /\ Untold
           /\ \/ GiveUp(CallOf(e, "recover")) /\ Ends(e)
              \/ /\ UNCHANGED netVars
                 /\ \E out \in RecoverOutcome :
                      /\ RecoverTurn(exec[e].tok, exec[e].gen, exec[e].arg, out)
                      /\ \/ /\ out = "finalize_cancelled"
                            /\ Becomes(e, "finalize", "cancelled", None, None)
                         \/ /\ out = "finalize_failed"
                            /\ Becomes(e, "finalize", "failed", None, None)
                         \/ Ends(e)
<1>1. exec[e].pc = "recover" /\ Untold
  BY DEF RecoverCall, NoInvocation, Untold
<1>2. Finish(e) => Ends(e)
  BY FinishMoves
<1>3. /\ Finalize(e, "cancelled") => Becomes(e, "finalize", "cancelled", None, None)
      /\ Finalize(e, "failed") => Becomes(e, "finalize", "failed", None, None)
  BY FinalizeMoves DEF Terminal
<1>4. QED
  BY <1>1, <1>2, <1>3 DEF RecoverCall, Answered

(* finalize: the outcome is committed, found or refused. *)
LEMMA FinalizeCallDoes ==
    ASSUME ExecTypeOK, NEW e \in Executions, FinalizeCall(e)
    PROVE  /\ exec[e].pc = "finalize" /\ Untold
           /\ \/ /\ Local \/ GiveUp(CallOf(e, "finalize"))
                 /\ \/ Withdraws(e)
                    \/ Becomes(e, "finalize", exec[e].arg, exec[e].tool,
                               exec[e].abort)
              \/ /\ UNCHANGED netVars
                 /\ exec[e].arg = "completed"
                 /\ FinalizeTurn(exec[e].tok, exec[e].gen, "completed", "finalized")
                 /\ Becomes(e, "complete", exec[e].arg, exec[e].tool,
                            exec[e].abort)
              \/ /\ UNCHANGED netVars
                 /\ \E out \in FinalizeOutcome, c \in FailureClass :
                      /\ FinalizeTurn(exec[e].tok, exec[e].gen, exec[e].arg, out)
                      /\ Becomes(e, "reconcile", c, exec[e].tool, exec[e].abort)
<1>1. exec[e].pc = "finalize" /\ Untold
  BY DEF FinalizeCall, NoInvocation, Untold
<1>2. exec[e] \in ExecRecord /\ exec \in [Executions -> ExecRecord]
  BY DEF ExecTypeOK
<1>3. ASSUME FinalizeFails(e)
      PROVE  \/ Withdraws(e)
             \/ Becomes(e, "finalize", exec[e].arg, exec[e].tool, exec[e].abort)
  <2>1. CASE exec' = [exec EXCEPT ![e].retried = TRUE]
    <3> DEFINE r == [exec[e] EXCEPT !.retried = TRUE]
    <3>1. r \in ExecRecord /\ exec' = [exec EXCEPT ![e] = r]
      BY <1>2, <2>1 DEF ExecRecord
    <3>2. Alone(e) /\ exec'[e] = r
      BY <3>1, RecordChange
    <3>3. QED
      BY <1>1, <1>2, <3>2 DEF Becomes, Keeps, ExecRecord
  <2>2. QED
    BY <1>3, <2>1, FinishWithdraws DEF FinalizeFails
<1>4. ASSUME Answered, NEW out \in FinalizeOutcome,
             FinalizeTurn(exec[e].tok, exec[e].gen, exec[e].arg, out),
             out \in {"raised", "stale_generation", "cancel_requested"},
             AfterFinalize(e, out)
      PROVE  /\ Local
             /\ \/ Withdraws(e)
                \/ Becomes(e, "finalize", exec[e].arg, exec[e].tool, exec[e].abort)
  <2>1. Local
    BY <1>4 DEF FinalizeTurn, Answered, Local
  <2>2. "cancelled" \in FailureClass
    BY DEF FailureClass
  <2>3. QED
    BY <1>3, <1>4, <2>1, <2>2, FinishWithdraws, RecoverAsWithdraws DEF AfterFinalize
<1>5. ASSUME Goto(e, "complete")
      PROVE  Becomes(e, "complete", exec[e].arg, exec[e].tool, exec[e].abort)
  BY <1>5, GotoMoves DEF Location
<1>6. TerminalClass(exec[e].arg) \in FailureClass
  BY DEF TerminalClass, FailureClass
<1>7. ASSUME GotoWith(e, "reconcile", TerminalClass(exec[e].arg))
      PROVE  Becomes(e, "reconcile", TerminalClass(exec[e].arg), exec[e].tool,
                     exec[e].abort)
  <2>1. TerminalClass(exec[e].arg) \in CallArg /\ "reconcile" \in Location
    BY <1>6 DEF CallArg, Location
  <2>2. QED
    BY <1>7, <2>1, GotoWithMoves
<1>8. CASE GiveUp(CallOf(e, "finalize")) /\ FinalizeFails(e)
  BY <1>1, <1>3, <1>8
<1>9. ASSUME Answered, NEW out \in FinalizeOutcome,
             FinalizeTurn(exec[e].tok, exec[e].gen, exec[e].arg, out),
             out \in {"finalized", "already_terminal"},
             AfterFinalize(e, out)
      PROVE  \/ /\ exec[e].arg = "completed"
                /\ FinalizeTurn(exec[e].tok, exec[e].gen, "completed", "finalized")
                /\ Becomes(e, "complete", exec[e].arg, exec[e].tool, exec[e].abort)
             \/ \E c \in FailureClass :
                  Becomes(e, "reconcile", c, exec[e].tool, exec[e].abort)
  BY <1>5, <1>6, <1>7, <1>9 DEF AfterFinalize
<1>10. QED
  BY <1>1, <1>4, <1>8, <1>9 DEF FinalizeCall, FinalizeOutcome, Answered

(* The queue row is reconciled by token or by recovery; either way it ends. *)
LEMMA QueueCallDoes ==
    ASSUME ExecTypeOK, NEW e \in Executions, QueueCall(e)
    PROVE  /\ Untold /\ Ends(e)
           /\ \/ /\ exec[e].pc = "complete"
                 /\ \/ GiveUp(CallOf(e, "complete"))
                    \/ /\ UNCHANGED netVars
                       /\ \E out \in BOOLEAN : CompleteQueueJob(exec[e].tok, out)
              \/ /\ exec[e].pc = "reconcile"
                 /\ \/ GiveUp(CallOf(e, "recover"))
                    \/ /\ UNCHANGED netVars
                       /\ \E out \in RecoverOutcome :
                            RecoverTurn(exec[e].tok, exec[e].gen, exec[e].arg, out)
<1>1. Untold /\ Ends(e)
  BY FinishMoves DEF QueueCall, NoInvocation, Untold
<1>2. QED
  BY <1>1 DEF QueueCall, Answered

-----------------------------------------------------------------------------
(* The queue, the signals and the processes *)

(* A poll puts the new token into a slot at rest, or loses it. *)
LEMMA TakeJobDoes ==
    ASSUME ExecTypeOK, issued' \in Nat, NEW e \in Executions, TakeJob(e)
    PROVE  /\ exec[e].pc = "idle" /\ ClaimPendingJob
           /\ UNCHANGED <<late, providerCalls, adapterRuns, sweep, processVars>>
           /\ \/ UNCHANGED exec /\ faults < MaxFaults /\ faults' = faults + 1
              \/ /\ UNCHANGED faults /\ Alone(e)
                 /\ exec'[e].pc \in {"claim", "reject"}
                 /\ exec'[e].tok = issued' /\ exec'[e].gen = exec[e].gen
                 /\ exec'[e].zombie = exec[e].zombie
<1>1. CASE Poll(e)
  <2>1. PICK entry \in {"claim", "reject"} :
          exec' = [exec EXCEPT ![e] = [@ EXCEPT !.pc = entry,
                                                !.tok = issued']]
    BY <1>1 DEF Poll
  <2> DEFINE r == [exec[e] EXCEPT !.pc = entry, !.tok = issued']
  <2>2. exec[e] \in ExecRecord
    BY DEF ExecTypeOK
  <2>3. r \in ExecRecord
    BY <2>2 DEF ExecRecord, Location
  <2>4. exec' = [exec EXCEPT ![e] = r]
    BY <2>1, <2>2 DEF ExecTypeOK, ExecRecord
  <2>5. Alone(e) /\ exec'[e] = r
    BY <2>3, <2>4, RecordChange
  <2>6. /\ exec'[e].pc = entry /\ exec'[e].tok = issued'
        /\ exec'[e].gen = exec[e].gen /\ exec'[e].zombie = exec[e].zombie
    BY <2>2, <2>5 DEF ExecRecord
  <2>7. QED
    BY <1>1, <2>5, <2>6
       DEF TakeJob, Poll, SlotFree, Active, Answered, netVars, NoInvocation
<1>2. CASE PollLost(e)
  BY <1>2 DEF TakeJob, PollLost, SlotFree, Active, execVars
<1>3. QED
  BY <1>1, <1>2 DEF TakeJob

(* Its signal or its attendance changes, and nothing else. *)
Signalled(e) ==
    /\ Alone(e)
    /\ exec'[e].pc = exec[e].pc
    /\ exec'[e].tok = exec[e].tok
    /\ exec'[e].gen = exec[e].gen
    /\ exec'[e].arg = exec[e].arg
    /\ exec'[e].tool = exec[e].tool
    /\ exec[e].zombie => exec'[e].zombie
    /\ Aborted(e) => exec'[e].abort = exec[e].abort
    /\ exec'[e].zombie /\ ~exec[e].zombie /\ Interruptible(e) =>
         exec'[e].abort # None

(* None is not one of the reasons to abort. *)
LEMMA ReasonsAreSome == {"cancelled", "timeout", "overload"} \subseteq AbortReason \ {None}
BY DEF AbortReason, None

(* The signal is aborted. *)
LEMMA AbortMoves ==
    ASSUME ExecTypeOK, NEW e \in Executions, ~Aborted(e),
           NEW b \in {"cancelled", "timeout", "overload"},
           exec' = [exec EXCEPT ![e].abort = b]
    PROVE  Signalled(e)
<1> DEFINE r == [exec[e] EXCEPT !.abort = b]
<1>1. exec[e] \in ExecRecord
  BY DEF ExecTypeOK
<1>2. r \in ExecRecord /\ exec' = [exec EXCEPT ![e] = r]
  BY <1>1, ReasonsAreSome DEF ExecTypeOK, ExecRecord
<1>3. Alone(e) /\ exec'[e] = r
  BY <1>2, RecordChange
<1>4. QED
  BY <1>1, <1>3 DEF Signalled, ExecRecord

(* The worker timeout, the observer, an overload and the end of a drain. *)
LEMMA SignalSteps ==
    ASSUME ExecTypeOK, NEW e \in Executions,
           WorkerTimeoutFires(e) \/ CancellationPoll(e) \/ OwnSignalAborts(e)
    PROVE  /\ UNCHANGED <<storeVars, netVars, sweep, processVars>> /\ Untold
           /\ Signalled(e) /\ exec[e].pc # "idle"
<1>1. CASE WorkerTimeoutFires(e)
  <2> DEFINE b == IF Interruptible(e) /\ exec[e].abort = None
                  THEN "timeout" ELSE exec[e].abort
             r == [exec[e] EXCEPT !.zombie = TRUE, !.abort = b]
  <2>1. exec[e] \in ExecRecord
    BY DEF ExecTypeOK
  <2>2. exec' = [exec EXCEPT ![e] = r]
    BY <1>1, <2>1 DEF WorkerTimeoutFires, TimeOut, ExecTypeOK, ExecRecord
  <2>3. b \in AbortReason
    BY <2>1, ReasonsAreSome DEF ExecRecord
  <2>4. r \in ExecRecord
    BY <2>1, <2>3 DEF ExecRecord
  <2>5. Alone(e) /\ exec'[e] = r
    BY <2>2, <2>4, RecordChange
  <2>6. Signalled(e)
    BY <2>1, <2>5, ReasonsAreSome DEF Signalled, Aborted, ExecRecord
  <2>7. QED
    BY <1>1, <2>6 DEF WorkerTimeoutFires, TimeOut, Attended, Active,
                      NoInvocation, Untold
<1>2. CASE CancellationPoll(e)
  BY <1>2, AbortMoves DEF CancellationPoll, ObserveCancel, Interruptible,
                          NoInvocation, Untold
<1>3. CASE OwnSignalAborts(e)
  BY <1>3, AbortMoves DEF OwnSignalAborts, Overload, Interruptible,
                          NoInvocation, Untold
<1>4. QED
  BY <1>1, <1>2, <1>3

(* The drain timeout aborts one of the executions of the process. *)
LEMMA AbortSurvivorsDoes ==
    ASSUME ExecTypeOK, NEW p \in Processes, AbortSurvivors(p)
    PROVE  /\ UNCHANGED <<storeVars, netVars, sweep, processVars>> /\ Untold
           /\ \E e \in Executions : Signalled(e) /\ exec[e].pc # "idle"
BY AbortMoves DEF AbortSurvivors, Attended, Active, Untold

(* What a process forgets comes to rest; it starts nothing. *)
Recedes ==
    /\ exec' \in [Executions -> ExecRecord]
    /\ sweep' \in [Processes -> SweepRecord]
    /\ \A e \in Executions : exec'[e] \in {exec[e], Resting}
    /\ \A p \in Processes : sweep'[p] \in {sweep[p], SweepResting}

(* A process that dies or exits takes its executions and its sweep along. *)
LEMMA ForgettingRecedes ==
    ASSUME ExecTypeOK, SweepTypeOK, NEW p \in Processes, ForgetLocalState(p)
    PROVE  Recedes
<1>1. SweepResting \in SweepRecord
  BY MaxConvergenceAssumption DEF SweepResting, SweepRecord, SweepLocation, NoToken
<1>2. QED
  BY <1>1, RestingIsRecord DEF ExecTypeOK, SweepTypeOK, ForgetLocalState, Recedes

-----------------------------------------------------------------------------
(* The steps of a sweep *)

(* Only the sweep of p moves, and on behalf of the same claim. *)
SweepGoes(p, location) ==
    /\ sweep' \in [Processes -> SweepRecord]
    /\ \A q \in Processes \ {p} : sweep'[q] = sweep[q]
    /\ sweep'[p].pc = location
    /\ sweep'[p].tok = sweep[p].tok

SweepEnds(p) ==
    /\ sweep' \in [Processes -> SweepRecord]
    /\ \A q \in Processes \ {p} : sweep'[q] = sweep[q]
    /\ sweep'[p] = SweepResting

SweepStays(p) == sweep'[p].gen = sweep[p].gen /\ sweep'[p].class = sweep[p].class

(* Another round, or the last one was the last. *)
SweepTurns(p) ==
    \/ SweepEnds(p)
    \/ /\ SweepGoes(p, "recover")
       /\ sweep'[p].gen = sweep[p].gen /\ sweep'[p].class \in FailureClass

(* One record of sweep is replaced. *)
LEMMA SweepChange ==
    ASSUME SweepTypeOK, NEW p \in Processes, NEW r \in SweepRecord,
           sweep' = [sweep EXCEPT ![p] = r]
    PROVE  /\ sweep' \in [Processes -> SweepRecord]
           /\ \A q \in Processes \ {p} : sweep'[q] = sweep[q]
           /\ sweep'[p] = r
BY DEF SweepTypeOK

(* The sweep gives up, or is done. *)
LEMMA SettledMoves ==
    ASSUME SweepTypeOK, NEW p \in Processes, Settled(p)
    PROVE  SweepEnds(p)
<1>1. SweepResting \in SweepRecord
  BY MaxConvergenceAssumption DEF SweepResting, SweepRecord, SweepLocation, NoToken
<1>2. QED
  BY <1>1, SweepChange DEF Settled, SweepEnds

(* An end is decided. *)
LEMMA DecidedMoves ==
    ASSUME SweepTypeOK, NEW p \in Processes, NEW w \in {"failed", "cancelled"},
           Decided(p, w)
    PROVE  SweepGoes(p, "snapshot") /\ SweepStays(p) /\ sweep'[p].want = w
<1> DEFINE r == [sweep[p] EXCEPT !.pc = "snapshot", !.want = w]
<1>1. sweep[p] \in SweepRecord
  BY DEF SweepTypeOK
<1>2. r \in SweepRecord
  BY <1>1 DEF SweepRecord, SweepLocation
<1>3. sweep' = [sweep EXCEPT ![p] = r]
  BY <1>1 DEF Decided, SweepTypeOK, SweepRecord
<1>4. QED
  BY <1>1, <1>2, <1>3, SweepChange DEF SweepGoes, SweepStays, SweepRecord

(* The next round starts over under another class. *)
LEMMA NextRoundMoves ==
    ASSUME SweepTypeOK, NEW p \in Processes, NEW c \in FailureClass, NextRound(p, c)
    PROVE  SweepTurns(p)
<1>1. CASE Settled(p)
  BY <1>1, SettledMoves DEF SweepTurns
<1>2. CASE /\ sweep[p].round + 1 < MaxConvergence
           /\ sweep' = [sweep EXCEPT ![p] = [@ EXCEPT !.pc = "recover",
                                                      !.class = c,
                                                      !.want = None,
                                                      !.round = sweep[p].round + 1]]
  <2> DEFINE r == [sweep[p] EXCEPT !.pc = "recover", !.class = c,
                                   !.want = None, !.round = @ + 1]
  <2>1. sweep[p] \in SweepRecord
    BY DEF SweepTypeOK
  <2>2. r \in SweepRecord
    <3>1. sweep[p].round + 1 \in 0..(MaxConvergence - 1)
      BY <1>2, <2>1, MaxConvergenceAssumption DEF SweepRecord
    <3>2. QED
      BY <2>1, <3>1 DEF SweepRecord, SweepLocation
  <2>3. sweep' = [sweep EXCEPT ![p] = r]
    BY <1>2, <2>1 DEF SweepTypeOK, SweepRecord
  <2>4. /\ sweep' \in [Processes -> SweepRecord]
        /\ \A q \in Processes \ {p} : sweep'[q] = sweep[q]
        /\ sweep'[p] = r
    BY <2>2, <2>3, SweepChange
  <2>5. /\ r.pc = "recover" /\ r.tok = sweep[p].tok /\ r.gen = sweep[p].gen
        /\ r.class = c
    BY <2>1 DEF SweepRecord
  <2>6. QED
    BY <2>4, <2>5 DEF SweepTurns, SweepGoes
<1>3. QED
  BY <1>1, <1>2 DEF NextRound

(* The candidate query borrows the token of a stalled job. *)
LEMMA BeginSweepDoes ==
    ASSUME SweepTypeOK, token \in Nat, NEW p \in Processes, BeginSweep(p)
    PROVE  /\ sweep[p].pc = "idle" /\ jobStatus = "processing" /\ stalled
           /\ UNCHANGED <<storeVars, netVars, execVars, processVars>>
           /\ sweep' \in [Processes -> SweepRecord]
           /\ \A q \in Processes \ {p} : sweep'[q] = sweep[q]
           /\ sweep'[p].pc = "claim" /\ sweep'[p].tok = token
<1> DEFINE r == [sweep[p] EXCEPT !.pc = "claim", !.tok = token]
<1>1. sweep[p] \in SweepRecord
  BY DEF SweepTypeOK
<1>2. r \in SweepRecord
  BY <1>1 DEF SweepRecord, SweepLocation
<1>3. sweep' = [sweep EXCEPT ![p] = r]
  BY <1>1 DEF BeginSweep, SweepStart, SweepTypeOK, SweepRecord
<1>4. /\ sweep' \in [Processes -> SweepRecord]
      /\ \A q \in Processes \ {p} : sweep'[q] = sweep[q]
      /\ sweep'[p] = r
  BY <1>2, <1>3, SweepChange
<1>5. r.pc = "claim" /\ r.tok = token
  BY <1>1 DEF SweepRecord
<1>6. QED
  BY <1>4, <1>5 DEF BeginSweep, SweepStart

(* claim: the sweep learns a generation that was claimed, or gives up. *)
LEMMA SweepClaimDoes ==
    ASSUME SweepTypeOK, gen' \in Nat, NEW p \in Processes, SweepClaim(p)
    PROVE  /\ sweep[p].pc = "claim"
           /\ \/ GiveUp(SweepCall(p, "claim", None)) /\ SweepEnds(p)
              \/ /\ UNCHANGED netVars
                 /\ \E out \in ClaimOutcome :
                      /\ ClaimTurn(sweep[p].tok, out)
                      /\ \/ SweepEnds(p)
                         \/ /\ gen' >= 1 /\ SweepGoes(p, "recover")
                            /\ sweep'[p].gen = gen'
                            /\ sweep'[p].class \in FailureClass
<1>1. ASSUME NEW out \in ClaimOutcome, out # "raised",
             sweep' = [sweep EXCEPT ![p] = [@ EXCEPT !.pc = "recover",
                                                     !.gen = gen',
                                                     !.class = ClaimedClass(out)]]
      PROVE  /\ SweepGoes(p, "recover") /\ sweep'[p].gen = gen'
             /\ sweep'[p].class \in FailureClass
  <2>1. ClaimedClass(out) \in FailureClass
    BY <1>1 DEF ClaimedClass, ClaimOutcome, TerminalClass, FailureClass
  <2> DEFINE r == [sweep[p] EXCEPT !.pc = "recover", !.gen = gen',
                                   !.class = ClaimedClass(out)]
  <2>2. sweep[p] \in SweepRecord
    BY DEF SweepTypeOK
  <2>3. r \in SweepRecord
    BY <2>1, <2>2 DEF SweepRecord, SweepLocation
  <2>4. sweep' = [sweep EXCEPT ![p] = r]
    BY <1>1, <2>2 DEF SweepTypeOK, SweepRecord
  <2>5. /\ sweep' \in [Processes -> SweepRecord]
        /\ \A q \in Processes \ {p} : sweep'[q] = sweep[q]
        /\ sweep'[p] = r
    BY <2>3, <2>4, SweepChange
  <2>6. /\ r.pc = "recover" /\ r.tok = sweep[p].tok /\ r.gen = gen'
        /\ r.class = ClaimedClass(out)
    BY <2>2 DEF SweepRecord
  <2>7. QED
    BY <2>1, <2>5, <2>6 DEF SweepGoes
<1>2. QED
  BY <1>1, SettledMoves DEF SweepClaim

(* recover: an end is decided, or there is nothing left to do. *)
LEMMA SweepRecoverDoes ==
    ASSUME SweepTypeOK, NEW p \in Processes, SweepRecover(p)
    PROVE  /\ sweep[p].pc = "recover"
           /\ \/ /\ GiveUp(SweepCall(p, "recover", sweep[p].class))
                 /\ SweepEnds(p)
              \/ /\ UNCHANGED netVars
                 /\ \E out \in RecoverOutcome :
                      /\ RecoverTurn(sweep[p].tok, sweep[p].gen, sweep[p].class, out)
                      /\ \/ SweepEnds(p)
                         \/ /\ SweepGoes(p, "snapshot") /\ SweepStays(p)
                            /\ \/ /\ out = "finalize_failed"
                                  /\ sweep'[p].want = "failed"
                               \/ /\ out = "finalize_cancelled"
                                  /\ sweep'[p].want = "cancelled"
BY SettledMoves, DecidedMoves DEF SweepRecover

(* The snapshot is loaded, another round begins, or the sweep is done. *)
LEMMA SweepSnapshotDoes ==
    ASSUME SweepTypeOK, NetTypeOK, NEW p \in Processes,
           sweep[p].class \in FailureClass, SweepSnapshot(p)
    PROVE  /\ sweep[p].pc = "snapshot" /\ UNCHANGED storeVars /\ UNCHANGED late
           /\ faults' \in 0..MaxFaults
           /\ \/ SweepTurns(p)
              \/ /\ SweepGoes(p, "finalize") /\ SweepStays(p)
                 /\ sweep'[p].want = sweep[p].want
<1>1. TerminalClass(status) \in FailureClass
  BY DEF TerminalClass, FailureClass
<1>2. ASSUME sweep' = [sweep EXCEPT ![p].pc = "finalize"]
      PROVE  /\ SweepGoes(p, "finalize") /\ SweepStays(p)
             /\ sweep'[p].want = sweep[p].want
  <2> DEFINE r == [sweep[p] EXCEPT !.pc = "finalize"]
  <2>1. sweep[p] \in SweepRecord
    BY DEF SweepTypeOK
  <2>2. r \in SweepRecord
    BY <2>1 DEF SweepRecord, SweepLocation
  <2>3. sweep' = [sweep EXCEPT ![p] = r]
    BY <1>2, <2>1 DEF SweepTypeOK, SweepRecord
  <2>4. QED
    BY <2>1, <2>2, <2>3, SweepChange DEF SweepGoes, SweepStays, SweepRecord
<1>3. /\ sweep[p].pc = "snapshot" /\ UNCHANGED storeVars /\ UNCHANGED late
      /\ faults' \in 0..MaxFaults
  BY MaxFaultsAssumption DEF SweepSnapshot, NetTypeOK, netVars
<1>4. QED
  BY <1>1, <1>2, <1>3, SettledMoves, NextRoundMoves
     DEF SweepSnapshot, SameRound, SweepTurns

(* finalize: whatever the answer, another round or none. *)
LEMMA SweepFinalizeDoes ==
    ASSUME SweepTypeOK, NEW p \in Processes,
           sweep[p].class \in FailureClass, SweepFinalize(p)
    PROVE  /\ sweep[p].pc = "finalize" /\ SweepTurns(p)
           /\ \/ GiveUp(SweepCall(p, "finalize", sweep[p].want))
              \/ /\ UNCHANGED netVars
                 /\ \E out \in FinalizeOutcome :
                      FinalizeTurn(sweep[p].tok, sweep[p].gen, sweep[p].want, out)
<1>1. TerminalClass(status') \in FailureClass /\ "cancelled" \in FailureClass
  BY DEF TerminalClass, FailureClass
<1>2. QED
  BY <1>1, SettledMoves, NextRoundMoves DEF SweepFinalize, SameRound, SweepTurns

-----------------------------------------------------------------------------
(* The protocol invariant *)

(* A job with a running or finished turn was claimed, and so was a start. *)
GenerationClaimed ==
    /\ status # "queued" /\ jobStatus = "processing" => gen >= 1
    /\ started => gen >= 1

EffectAt == {"reserve", "reserved", "unreserve", "beginEffect", "adapter", "settle"}

Outcomes == {"succeeded", "failed", "uncertain"}

(***************************************************************************)
(* An execution presents a token and a generation the store issued, with   *)
(* an argument the procedure it calls next takes; it completes the job of  *)
(* a completed turn only.                                                  *)
(***************************************************************************)
ExecOK(e) ==
    Active(e) =>
        /\ exec[e].tok \in 1..issued
        /\ exec[e].pc \notin {"claim", "reject"} => exec[e].gen \in 1..gen
        /\ exec[e].pc \in {"recover", "reconcile"} => exec[e].arg \in FailureClass
        /\ exec[e].pc = "finalize" => exec[e].arg \in Terminal
        /\ exec[e].pc = "settle" => exec[e].arg \in Outcomes
        /\ exec[e].pc = "unreserve" => exec[e].arg = "cancelled"
        /\ exec[e].pc \in EffectAt => exec[e].tool \in Effects
        /\ exec[e].pc = "complete" => status = "completed"

(* So does a sweep, with the token it read in the row. *)
SweepOK(p) ==
    sweep[p].pc # "idle" =>
        /\ sweep[p].tok \in 1..issued
        /\ sweep[p].pc # "claim" =>
             sweep[p].gen \in 1..gen /\ sweep[p].class \in FailureClass
        /\ sweep[p].pc \in {"snapshot", "finalize"} =>
             sweep[p].want \in {"failed", "cancelled"}

EffectCall == {"reserve", "beginEffect", "settle"}

(* And a call that is still under way. *)
CallOK(c) ==
    /\ c.tok \in 1..issued
    /\ c.name \notin {"claim", "complete"} => c.gen \in 1..gen
    /\ c.name = "recover" => c.arg \in FailureClass
    /\ c.name = "finalize" => c.arg \in Terminal
    /\ c.name = "settle" => c.arg \in TargetState
    /\ c.name \in EffectCall => c.tool \in Effects
    /\ c.name = "complete" => status = "completed"

ExecutionsHold == \A e \in Executions : ExecOK(e)

SweepsHold == \A p \in Processes : SweepOK(p)

CallsHold == \A c \in late : CallOK(c)

ProtocolInv ==
    /\ TypeOK
    /\ StoreInv
    /\ GenerationClaimed
    /\ ExecutionsHold
    /\ SweepsHold
    /\ CallsHold

-----------------------------------------------------------------------------
(* What is issued stays issued *)

(* A token or generation in use stays in use, a completion stays. *)
Progress ==
    /\ issued' \in Nat /\ gen' \in Nat
    /\ issued <= issued' /\ gen <= gen'
    /\ status = "completed" => status' = "completed"
    /\ GenerationClaimed'
    /\ StoreInv'

(* No procedure takes back a token, a generation or a completion. *)
LEMMA StoreProgresses ==
    ASSUME StoreInv, GenerationClaimed, [StoreNext]_storeVars
    PROVE  Progress
<1>1. StoreInv'
  BY NextPreserves
<1>2. issued \in Nat /\ gen \in Nat /\ issued' \in Nat /\ gen' \in Nat
  BY <1>1 DEF StoreInv, StoreTypeOK, CountersOK
<1>3. status = "completed" => status' = "completed"
  BY NextKeepsFinal DEF KeepsWhatIsFinal, Terminal, storeVars
<1>4. CASE UNCHANGED storeVars
  BY <1>1, <1>2, <1>3, <1>4 DEF storeVars, Progress, GenerationClaimed
<1> DEFINE Goal == issued <= issued' /\ gen <= gen' /\ GenerationClaimed'
<1>5. CASE ClaimPendingJob
  <2>1. Goal
    BY <1>2, <1>5 DEF ClaimPendingJob, turnVars, GenerationClaimed, StoreInv,
                      QueueAgreesWithTurn
  <2>2. QED
    BY <1>1, <1>2, <1>3, <2>1 DEF Progress
<1>6. CASE RequestCancel \/ ResidenceExpires \/ OwnerStalls
  <2>1. Goal
    BY <1>2, <1>6 DEF RequestCancel, CancelQueuedTurn, CancelRunningTurn,
          ResidenceExpires, OwnerStalls, turnVars, queueVars, GenerationClaimed
  <2>2. QED
    BY <1>1, <1>2, <1>3, <2>1 DEF Progress
<1>7. ASSUME NEW t, CallClaim(t) \/ CallComplete(t)
      PROVE  Goal
  BY <1>2, <1>7 DEF CallClaim, CallComplete, ClaimTurn, CompleteQueueJob,
        storeVars, turnVars, queueVars, GenerationClaimed
<1>8. ASSUME NEW t, NEW g, CallBegin(t, g)
      PROVE  Goal
  <2>1. status = "running" => jobStatus = "processing"
    BY DEF StoreInv, QueueAgreesWithTurn
  <2>2. QED
    BY <1>2, <1>8, <2>1 DEF CallBegin, BeginExecution, CurrentRun, RecordStart,
          storeVars, GenerationClaimed
<1>9. ASSUME NEW t, NEW g, CallRecover(t, g)
      PROVE  Goal
  <2>1. UNCHANGED storeVars \/ ReconcileQueueRow \/ ScheduleRetry
    BY <1>9 DEF CallRecover, RecoverTurn
  <2>2. CASE ReconcileQueueRow
    BY <1>1, <1>2, <2>2 DEF ReconcileQueueRow, turnVars, GenerationClaimed,
       StoreInv, QueueAgreesWithTurn, NoToken
  <2>3. CASE ScheduleRetry
    BY <1>2, <2>3 DEF ScheduleRetry, GenerationClaimed
  <2>4. QED
    BY <1>2, <2>1, <2>2, <2>3 DEF storeVars, GenerationClaimed
<1>10. ASSUME NEW t, NEW g, CallFinalize(t, g)
       PROVE  Goal
  BY <1>2, <1>10 DEF CallFinalize, FinalizeTurn, CurrentRun, storeVars, queueVars,
        GenerationClaimed, StoreInv, QueueAgreesWithTurn
<1>11. ASSUME NEW x, NEW t, NEW g,
              CallReserve(x, t, g) \/ CallBeginEffect(x, t, g) \/ CallReconcile(x, t, g)
       PROVE  Goal
  BY <1>2, <1>11 DEF CallReserve, ReserveEffect, CallBeginEffect, BeginEffect,
        CallReconcile, ReconcileEffect, storeVars, turnVars, queueVars,
        GenerationClaimed
<1>12. CASE StoreNext
  <2>1. Goal
    BY <1>5, <1>6, <1>7, <1>8, <1>9, <1>10, <1>11, <1>12 DEF StoreNext, Progress
  <2>2. QED
    BY <1>1, <1>2, <1>3, <2>1 DEF Progress
<1>13. QED
  BY <1>4, <1>12

(* What an execution, a sweep or a call holds stays in use meanwhile. *)
LEMMA OthersStayOK ==
    ASSUME ProtocolInv, Progress
    PROVE  /\ \A e \in Executions : exec'[e] = exec[e] => ExecOK(e)'
           /\ \A p \in Processes : sweep'[p] = sweep[p] => SweepOK(p)'
           /\ \A c \in late : CallOK(c)'
<1>1. issued \in Nat /\ gen \in Nat
  BY DEF ProtocolInv, StoreInv, StoreTypeOK, CountersOK
<1>2. 1..issued \subseteq 1..issued' /\ 1..gen \subseteq 1..gen'
  BY <1>1 DEF Progress
<1>3. \A e \in Executions : exec'[e] = exec[e] => ExecOK(e)'
  BY <1>2 DEF ProtocolInv, Progress, ExecutionsHold, ExecOK, Active
<1>4. \A p \in Processes : sweep'[p] = sweep[p] => SweepOK(p)'
  BY <1>2 DEF ProtocolInv, Progress, SweepsHold, SweepOK
<1>5. \A c \in late : CallOK(c)'
  BY <1>2 DEF ProtocolInv, Progress, CallsHold, CallOK
<1>6. QED
  BY <1>3, <1>4, <1>5

-----------------------------------------------------------------------------
(* What a step has to show *)

(***************************************************************************)
(* A step keeps to the protocol if it is a step of the store or none, and  *)
(* if what it moves is well typed and presents what was issued.            *)
(***************************************************************************)
KeepsProtocol ==
    /\ [StoreNext]_storeVars
    /\ ExecTypeOK' /\ NetTypeOK' /\ SweepTypeOK'
    /\ draining' \subseteq Processes /\ crashes' \in 0..MaxCrashes
    /\ \A e \in Executions : exec'[e] = exec[e] \/ ExecOK(e)'
    /\ \A p \in Processes : sweep'[p] = sweep[p] \/ SweepOK(p)'
    /\ \A c \in late' : c \in late \/ CallOK(c)'

(* Then the invariant survives it. *)
LEMMA ProtocolKept ==
    ASSUME ProtocolInv, KeepsProtocol
    PROVE  ProtocolInv'
<1>1. Progress
  BY StoreProgresses DEF ProtocolInv, KeepsProtocol
<1>2. ExecutionsHold' /\ SweepsHold' /\ CallsHold'
  BY <1>1, OthersStayOK DEF KeepsProtocol, ExecutionsHold, SweepsHold, CallsHold
<1>3. TypeOK'
  BY <1>1 DEF KeepsProtocol, Progress, StoreInv, TypeOK
<1>4. QED
  BY <1>1, <1>2, <1>3 DEF Progress, ProtocolInv

(* A call with an issued token and generation is a step of the store. *)
LEMMA StoreServes ==
    ASSUME NEW t \in 1..issued
    PROVE  /\ \A out \in ClaimOutcome : ClaimTurn(t, out) => StoreNext
           /\ \A out \in BOOLEAN :
                status = "completed" /\ CompleteQueueJob(t, out) => StoreNext
           /\ \A g \in 1..gen :
                /\ \A out \in BeginOutcome : BeginExecution(t, g, out) => StoreNext
                /\ \A class \in FailureClass, out \in RecoverOutcome :
                     RecoverTurn(t, g, class, out) => StoreNext
                /\ \A s \in Terminal, out \in FinalizeOutcome :
                     FinalizeTurn(t, g, s, out) => StoreNext
                /\ \A x \in Effects :
                     /\ \A out \in ReserveOutcome :
                          ReserveEffect(x, t, g, out) => StoreNext
                     /\ \A out \in BeginEffOutcome :
                          BeginEffect(x, t, g, out) => StoreNext
                     /\ \A target \in TargetState, out \in SettleOutcome :
                          ReconcileEffect(x, t, g, target, out) => StoreNext
<1>1. \A out \in ClaimOutcome : ClaimTurn(t, out) => StoreNext
  BY DEF CallClaim, StoreNext
<1>2. \A out \in BOOLEAN :
        status = "completed" /\ CompleteQueueJob(t, out) => StoreNext
  BY DEF CallComplete, StoreNext
<1>3. ASSUME NEW g \in 1..gen
      PROVE  /\ \A out \in BeginOutcome : BeginExecution(t, g, out) => StoreNext
             /\ \A class \in FailureClass, out \in RecoverOutcome :
                  RecoverTurn(t, g, class, out) => StoreNext
             /\ \A s \in Terminal, out \in FinalizeOutcome :
                  FinalizeTurn(t, g, s, out) => StoreNext
  BY DEF CallBegin, CallRecover, CallFinalize, StoreNext
<1>4. ASSUME NEW g \in 1..gen, NEW x \in Effects
      PROVE  /\ \A out \in ReserveOutcome :
                  ReserveEffect(x, t, g, out) => StoreNext
             /\ \A out \in BeginEffOutcome :
                  BeginEffect(x, t, g, out) => StoreNext
             /\ \A target \in TargetState, out \in SettleOutcome :
                  ReconcileEffect(x, t, g, target, out) => StoreNext
  BY DEF CallReserve, CallBeginEffect, CallReconcile, StoreNext
<1>5. QED
  BY <1>1, <1>2, <1>3, <1>4

(* A call given up on stays a call the store may serve. *)
LEMMA GivingUpKeeps ==
    ASSUME ProtocolInv, NEW c \in CallRecord, CallOK(c), GiveUp(c)
    PROVE  /\ UNCHANGED storeVars /\ NetTypeOK'
           /\ \A d \in late' : d \in late \/ CallOK(d)'
<1>1. UNCHANGED storeVars /\ late' = late \cup {c}
  BY DEF GiveUp
<1>2. NetTypeOK'
  BY <1>1, MaxFaultsAssumption DEF ProtocolInv, TypeOK, NetTypeOK, GiveUp
<1>3. \A d : CallOK(d) => CallOK(d)'
  BY <1>1 DEF CallOK, storeVars
<1>4. QED
  BY <1>1, <1>2, <1>3

(* Nothing but the local state of an execution or a sweep changes hands. *)
LEMMA QuietNet ==
    ASSUME ProtocolInv, UNCHANGED netVars
    PROVE  NetTypeOK' /\ \A d \in late' : d \in late \/ CallOK(d)'
BY DEF ProtocolInv, TypeOK, NetTypeOK, netVars

-----------------------------------------------------------------------------
(* Executions keep to the protocol *)

(* What a step of the execution e has to show. *)
ExecutionKeeps(e) ==
    /\ [StoreNext]_storeVars
    /\ Alone(e)
    /\ providerCalls' \in Nat /\ adapterRuns' \in [Effects -> Nat]
    /\ ExecOK(e)'
    /\ NetTypeOK'
    /\ \A c \in late' : c \in late \/ CallOK(c)'

(* Then the whole step keeps to the protocol. *)
LEMMA ExecutionKept ==
    ASSUME ProtocolInv, NEW e \in Executions, ExecutionKeeps(e),
           UNCHANGED <<sweep, processVars>>
    PROVE  KeepsProtocol
BY DEF ExecutionKeeps, KeepsProtocol, Alone, ExecTypeOK, ProtocolInv, TypeOK,
       SweepTypeOK, processVars

(* The counters stay what they are. *)
LEMMA UntoldTyped ==
    ASSUME ProtocolInv, Untold
    PROVE  providerCalls' \in Nat /\ adapterRuns' \in [Effects -> Nat]
BY DEF ProtocolInv, TypeOK, ExecTypeOK, Untold

(* The next request of an execution is one the store may serve. *)
LEMMA RequestsAreOK ==
    ASSUME ProtocolInv, NEW e \in Executions, Active(e), NEW name \in CallName,
           \/ name = "claim"
           \/ name = "begin" /\ exec[e].pc = "prepare"
           \/ name = "recover" /\ exec[e].pc \in {"recover", "reconcile"}
           \/ name = "finalize" /\ exec[e].pc = "finalize"
           \/ name = "complete" /\ exec[e].pc = "complete"
           \/ name = "reserve" /\ exec[e].pc = "reserve"
           \/ name = "beginEffect" /\ exec[e].pc = "beginEffect"
           \/ name = "settle" /\ exec[e].pc \in {"unreserve", "settle"}
    PROVE  CallOf(e, name) \in CallRecord /\ CallOK(CallOf(e, name))
<1>1. exec[e] \in ExecRecord
  BY DEF ProtocolInv, TypeOK, ExecTypeOK
<1>2. CallOf(e, name) \in CallRecord
  BY <1>1 DEF CallOf, Call, CallRecord, ExecRecord
<1>3. /\ CallOf(e, name).name = name
      /\ CallOf(e, name).tok = exec[e].tok
      /\ CallOf(e, name).gen = exec[e].gen
      /\ CallOf(e, name).arg = exec[e].arg
      /\ CallOf(e, name).tool = exec[e].tool
  BY DEF CallOf, Call
<1>4. ExecOK(e)
  BY DEF ProtocolInv, ExecutionsHold
<1>5. QED
  BY <1>2, <1>3, <1>4 DEF CallOK, ExecOK, EffectAt, EffectCall, Outcomes,
     TargetState, SettledState

(* An execution that withdraws presents nothing new. *)
LEMMA WithdrawingIsOK ==
    ASSUME ProtocolInv, Progress, NEW e \in Executions, Withdraws(e),
           Active(e), exec[e].pc \notin {"claim", "reject"}
    PROVE  ExecOK(e)'
<1>1. CASE exec'[e] = Resting
  BY <1>1 DEF Resting, ExecOK, Active
<1>2. CASE exec'[e] # Resting
  <2>1. issued \in Nat /\ gen \in Nat
    BY DEF ProtocolInv, StoreInv, StoreTypeOK, CountersOK
  <2>2. 1..issued \subseteq 1..issued' /\ 1..gen \subseteq 1..gen'
    BY <2>1 DEF Progress
  <2>3. QED
    BY <1>2, <2>2 DEF Withdraws, Keeps, ExecOK, Active, ProtocolInv,
                      ExecutionsHold, EffectAt
<1>3. QED
  BY <1>1, <1>2

(* Local steps are none of the store. *)
LEMMA LocalProgress ==
    ASSUME ProtocolInv, UNCHANGED storeVars
    PROVE  [StoreNext]_storeVars /\ Progress
BY StoreProgresses DEF ProtocolInv

(* Nor does one that settles. *)
LEMMA EndingIsOK ==
    ASSUME NEW e, Ends(e)
    PROVE  ExecOK(e)'
BY DEF Ends, Resting, ExecOK, Active

(* One that moves on brings the argument its next request needs. *)
LEMMA MovingIsOK ==
    ASSUME ProtocolInv, Progress, NEW e \in Executions, Active(e),
           exec[e].pc \notin {"claim", "reject"},
           NEW l, NEW a, NEW x, NEW b, Becomes(e, l, a, x, b),
           l \in {"recover", "reconcile"} => a \in FailureClass,
           l = "finalize" => a \in Terminal,
           l = "settle" => a \in Outcomes,
           l = "unreserve" => a = "cancelled",
           l \in EffectAt => x \in Effects,
           l = "complete" => status' = "completed"
    PROVE  ExecOK(e)'
<1>1. issued \in Nat /\ gen \in Nat
  BY DEF ProtocolInv, StoreInv, StoreTypeOK, CountersOK
<1>2. 1..issued \subseteq 1..issued' /\ 1..gen \subseteq 1..gen'
  BY <1>1 DEF Progress
<1>3. exec[e].tok \in 1..issued /\ exec[e].gen \in 1..gen
  BY DEF ProtocolInv, ExecutionsHold, ExecOK
<1>4. QED
  BY <1>2, <1>3 DEF Becomes, Keeps, ExecOK, Active

(***************************************************************************)
(* Three ways to keep to the protocol: a call given up on, a local step,   *)
(* and a call the store serves; each leaves the execution a valid one.     *)
(***************************************************************************)
LEMMA GiveUpStepKeeps ==
    ASSUME ProtocolInv, NEW e \in Executions, NEW name \in CallName,
           CallOf(e, name) \in CallRecord, CallOK(CallOf(e, name)),
           GiveUp(CallOf(e, name)), Untold, Alone(e), Progress => ExecOK(e)'
    PROVE  ExecutionKeeps(e)
BY GivingUpKeeps, UntoldTyped, LocalProgress DEF ExecutionKeeps

(* A step of an execution that calls nothing. *)
LEMMA LocalStepKeeps ==
    ASSUME ProtocolInv, NEW e \in Executions, Local, Untold, Alone(e),
           Progress => ExecOK(e)'
    PROVE  ExecutionKeeps(e)
BY QuietNet, UntoldTyped, LocalProgress DEF ExecutionKeeps, Local

(* A step of an execution whose call is served and answered. *)
LEMMA ServedStepKeeps ==
    ASSUME ProtocolInv, NEW e \in Executions, StoreNext, UNCHANGED netVars,
           Untold, Alone(e), Progress => ExecOK(e)'
    PROVE  ExecutionKeeps(e)
BY QuietNet, UntoldTyped, StoreProgresses DEF ExecutionKeeps, ProtocolInv

(* claim_agentic_chat_turn: the generation learned is one that was claimed. *)
LEMMA ClaimCallKeeps ==
    ASSUME ProtocolInv, NEW e \in Executions, ClaimCall(e)
    PROVE  ExecutionKeeps(e)
<1>1. ExecTypeOK /\ Active(e) /\ exec[e].tok \in 1..issued /\ gen \in Nat
  BY DEF ProtocolInv, TypeOK, ClaimCall, Active, ExecutionsHold, ExecOK,
         StoreInv, StoreTypeOK, CountersOK
<1>2. gen' \in Nat
  <2>1. \/ UNCHANGED storeVars
        \/ \E out \in ClaimOutcome : ClaimTurn(exec[e].tok, out)
    BY DEF ClaimCall, GiveUp
  <2>2. QED
    BY <1>1, <2>1 DEF ClaimTurn, storeVars
<1>3. Untold
  BY <1>1, <1>2, ClaimCallDoes DEF Untold
<1>4. CASE GiveUp(CallOf(e, "claim")) /\ Ends(e)
  <2>1. "claim" \in CallName
    BY DEF CallName
  <2>2. QED
    BY <1>1, <1>3, <1>4, <2>1, RequestsAreOK, GiveUpStepKeeps, EndingIsOK DEF Ends
<1>5. CASE UNCHANGED netVars /\ UNCHANGED storeVars /\ Ends(e)
  BY <1>3, <1>5, LocalStepKeeps, EndingIsOK DEF Ends, Local
<1>6. ASSUME UNCHANGED netVars, NEW out \in ClaimOutcome \ {"raised"},
             ClaimTurn(exec[e].tok, out), Claims(e),
             \/ exec'[e].pc = "recover" /\ exec'[e].arg \in FailureClass
             \/ exec'[e].pc = "finalize" /\ exec'[e].arg = "failed"
             \/ exec'[e].pc = "prepare"
      PROVE  ExecutionKeeps(e)
  <2>1. StoreNext
    BY <1>1, <1>6, StoreServes
  <2>2. gen' >= 1
    <3>1. OwnsJob(exec[e].tok)
      BY <1>6 DEF ClaimTurn, ClaimRaises, ClaimOutcome
    <3>2. status # "queued" \/ gen' = gen + 1
      BY <1>6 DEF ClaimTurn, ClaimOutcome, ProtocolInv, StoreInv, QueuedIsPristine,
            Terminal
    <3>3. gen' \in {gen, gen + 1}
      BY <1>6 DEF ClaimTurn, storeVars
    <3>4. status # "queued" => gen >= 1
      BY <3>1 DEF OwnsJob, ProtocolInv, GenerationClaimed
    <3>5. QED
      BY <1>1, <3>2, <3>3, <3>4
  <2>3. ASSUME Progress PROVE ExecOK(e)'
    <3>1. issued \in Nat
      BY DEF ProtocolInv, StoreInv, StoreTypeOK, CountersOK
    <3>2. exec'[e].tok \in 1..issued' /\ exec'[e].gen \in 1..gen'
      BY <1>1, <1>2, <1>6, <2>2, <2>3, <3>1 DEF Progress, Claims
    <3>3. QED
      BY <1>6, <3>2 DEF ExecOK, EffectAt, Terminal
  <2>4. QED
    BY <1>3, <1>6, <2>1, <2>3, ServedStepKeeps DEF Claims
<1>7. QED
  BY <1>1, <1>2, <1>4, <1>5, <1>6, ClaimCallDoes

(* A step that talks to nobody keeps to the protocol. *)
LEMMA LocalStepsKeep ==
    ASSUME ProtocolInv, NEW e \in Executions,
           \/ PrepareFails(e) \/ InvokeProvider(e) \/ StreamFails(e)
           \/ RequestTool(e) \/ FinishStream(e) \/ CheckReservation(e)
           \/ InvokeAdapter(e)
    PROVE  ExecutionKeeps(e)
<1>1. ExecTypeOK /\ ExecOK(e)
  BY DEF ProtocolInv, TypeOK, ExecutionsHold
<1>2. CASE PrepareFails(e) \/ StreamFails(e)
  <2>1. /\ exec[e].pc \in {"prepare", "provider", "stream"}
        /\ Local /\ Untold /\ Withdraws(e)
    BY <1>1, <1>2, PrepareFailsDoes, StreamFailsDoes
  <2>2. QED
    BY <2>1, LocalStepKeeps, WithdrawingIsOK DEF Active, Withdraws
<1>3. CASE InvokeProvider(e)
  <2>1. /\ exec[e].pc = "provider" /\ Local /\ UNCHANGED adapterRuns
        /\ providerCalls' = providerCalls + 1
        /\ Becomes(e, "stream", exec[e].arg, exec[e].tool, exec[e].abort)
    BY <1>1, <1>3, InvokeProviderDoes
  <2>2. providerCalls' \in Nat /\ adapterRuns' \in [Effects -> Nat]
    BY <1>1, <2>1 DEF ExecTypeOK
  <2>3. Progress => ExecOK(e)'
    BY <2>1, MovingIsOK DEF Active, EffectAt
  <2>4. QED
    BY <2>1, <2>2, <2>3, QuietNet, LocalProgress
       DEF Local, Becomes, ExecutionKeeps
<1>4. CASE RequestTool(e)
  <2>1. PICK x \in Effects :
          /\ exec[e].pc = "stream" /\ Local /\ Untold
          /\ Becomes(e, "reserve", exec[e].arg, x, exec[e].abort)
    BY <1>1, <1>4, RequestToolDoes
  <2>2. Progress => ExecOK(e)'
    BY <2>1, MovingIsOK DEF Active
  <2>3. QED
    BY <2>1, <2>2, LocalStepKeeps DEF Becomes
<1>5. CASE FinishStream(e)
  <2>1. /\ exec[e].pc = "stream" /\ Local /\ Untold
        /\ Becomes(e, "finalize", "completed", None, None)
    BY <1>1, <1>5, FinishStreamDoes
  <2>2. Progress => ExecOK(e)'
    BY <2>1, MovingIsOK DEF Active, EffectAt, Terminal
  <2>3. QED
    BY <2>1, <2>2, LocalStepKeeps DEF Becomes
<1>6. CASE CheckReservation(e)
  <2>1. /\ exec[e].pc = "reserved" /\ Local /\ Untold
        /\ \/ Becomes(e, "unreserve", "cancelled", exec[e].tool, exec[e].abort)
           \/ Becomes(e, "beginEffect", exec[e].arg, exec[e].tool, exec[e].abort)
    BY <1>1, <1>6, CheckReservationDoes
  <2>2. exec[e].tool \in Effects
    BY <1>1, <2>1 DEF ExecOK, Active, EffectAt
  <2>3. Progress => ExecOK(e)'
    BY <2>1, <2>2, MovingIsOK DEF Active
  <2>4. QED
    BY <2>1, <2>3, LocalStepKeeps DEF Becomes
<1>7. CASE InvokeAdapter(e)
  <2>1. PICK target \in Outcomes :
          /\ exec[e].pc = "adapter" /\ Local /\ UNCHANGED providerCalls
          /\ adapterRuns' = [adapterRuns EXCEPT ![exec[e].tool] = @ + 1]
          /\ Becomes(e, "settle", target, exec[e].tool, exec[e].abort)
    BY <1>1, <1>7, InvokeAdapterDoes DEF Outcomes
  <2>2. exec[e].tool \in Effects
    BY <1>1, <2>1 DEF ExecOK, Active, EffectAt
  <2>3. providerCalls' \in Nat /\ adapterRuns' \in [Effects -> Nat]
    BY <1>1, <2>1, <2>2 DEF ExecTypeOK
  <2>4. Progress => ExecOK(e)'
    BY <2>1, <2>2, MovingIsOK DEF Active
  <2>5. QED
    BY <2>1, <2>3, <2>4, QuietNet, LocalProgress
       DEF Local, Becomes, ExecutionKeeps
<1>8. QED
  BY <1>2, <1>3, <1>4, <1>5, <1>6, <1>7

(* begin_agentic_chat_turn_execution, with the generation of the claim. *)
LEMMA BeginCallKeeps ==
    ASSUME ProtocolInv, NEW e \in Executions, BeginCall(e)
    PROVE  ExecutionKeeps(e)
<1>1. ExecTypeOK /\ exec[e].pc = "prepare" /\ Active(e)
  BY DEF ProtocolInv, TypeOK, BeginCall, Active
<1>2. exec[e].tok \in 1..issued /\ exec[e].gen \in 1..gen
  BY <1>1 DEF ProtocolInv, ExecutionsHold, ExecOK
<1>3. Untold
  BY <1>1, BeginCallDoes
<1>4. CASE GiveUp(CallOf(e, "begin")) /\ Withdraws(e)
  <2>1. "begin" \in CallName
    BY DEF CallName
  <2>2. QED
    BY <1>1, <1>3, <1>4, <2>1, RequestsAreOK, GiveUpStepKeeps, WithdrawingIsOK
       DEF Withdraws
<1>5. CASE Local /\ Withdraws(e)
  BY <1>1, <1>3, <1>5, LocalStepKeeps, WithdrawingIsOK DEF Withdraws
<1>6. CASE /\ UNCHANGED netVars
           /\ BeginExecution(exec[e].tok, exec[e].gen, "started")
           /\ Becomes(e, "provider", exec[e].arg, exec[e].tool, exec[e].abort)
  <2>1. StoreNext
    BY <1>2, <1>6, StoreServes DEF BeginOutcome
  <2>2. Progress => ExecOK(e)'
    BY <1>1, <1>6, MovingIsOK DEF EffectAt
  <2>3. QED
    BY <1>3, <1>6, <2>1, <2>2, ServedStepKeeps DEF Becomes
<1>7. QED
  BY <1>1, <1>4, <1>5, <1>6, BeginCallDoes

(* An effect call that is answered: the stream goes on, or it withdraws. *)
LEMMA ReceiptKeeps ==
    ASSUME ProtocolInv, NEW e \in Executions, Active(e),
           exec[e].pc \notin {"claim", "reject"}, Untold, Local \/
           (StoreNext /\ UNCHANGED netVars),
           \/ Withdraws(e)
           \/ Becomes(e, "stream", None, None, exec[e].abort)
    PROVE  ExecutionKeeps(e)
<1>1. Alone(e)
  BY DEF Withdraws, Becomes
<1>2. Progress => ExecOK(e)'
  BY MovingIsOK, WithdrawingIsOK DEF EffectAt
<1>3. QED
  BY <1>1, <1>2, LocalStepKeeps, ServedStepKeeps

(* The effect procedures, with the tool that was asked for. *)
LEMMA EffectCallsKeep ==
    ASSUME ProtocolInv, NEW e \in Executions,
           ReserveCall(e) \/ UnreserveCall(e) \/ BeginEffectCall(e) \/ SettleCall(e)
    PROVE  ExecutionKeeps(e)
<1> DEFINE x == exec[e].tool  t == exec[e].tok  g == exec[e].gen
<1>1. /\ exec[e].pc \in {"reserve", "unreserve", "beginEffect", "settle"}
      /\ Active(e)
  BY DEF ReserveCall, UnreserveCall, BeginEffectCall, SettleCall, Active
<1>2. /\ EffectCallOK(e) /\ t \in 1..issued /\ g \in 1..gen
      /\ exec[e].pc = "settle" => exec[e].arg \in Outcomes
  BY <1>1 DEF ProtocolInv, TypeOK, StoreInv, EffectCallOK, ExecutionsHold, ExecOK,
              EffectAt
<1>3. {"reserve", "beginEffect", "settle"} \subseteq CallName
  BY DEF CallName
<1>4. ASSUME NEW name \in CallName, GiveUp(CallOf(e, name)), Withdraws(e), Untold,
             \/ name = "reserve" /\ exec[e].pc = "reserve"
             \/ name = "beginEffect" /\ exec[e].pc = "beginEffect"
             \/ name = "settle" /\ exec[e].pc \in {"unreserve", "settle"}
      PROVE  ExecutionKeeps(e)
  BY <1>1, <1>4, RequestsAreOK, GiveUpStepKeeps, WithdrawingIsOK DEF Withdraws
<1>5. CASE ReserveCall(e)
  <2>1. CASE /\ UNCHANGED netVars /\ Untold
             /\ \E out \in ReserveOutcome : ReserveEffect(x, t, g, out)
             /\ Becomes(e, "reserved", exec[e].arg, x, exec[e].abort)
    <3>1. StoreNext
      BY <1>2, <2>1, StoreServes DEF EffectCallOK
    <3>2. Progress => ExecOK(e)'
      BY <1>1, <1>2, <2>1, MovingIsOK DEF EffectCallOK
    <3>3. QED
      BY <2>1, <3>1, <3>2, ServedStepKeeps DEF Becomes
  <2>2. QED
    BY <1>1, <1>2, <1>3, <1>4, <1>5, <2>1, ReserveCallDoes, ReceiptKeeps
<1>6. CASE UnreserveCall(e)
  <2>1. ReconcileEffect(x, t, g, "cancelled", "reconciled") => StoreNext
    BY <1>2, StoreServes DEF EffectCallOK, TargetState, SettledState, SettleOutcome
  <2>2. QED
    BY <1>1, <1>2, <1>3, <1>4, <1>6, <2>1, UnreserveCallDoes, ReceiptKeeps
<1>7. CASE BeginEffectCall(e)
  <2>1. CASE /\ UNCHANGED netVars /\ Untold /\ BeginEffect(x, t, g, "started")
             /\ Becomes(e, "adapter", exec[e].arg, x, exec[e].abort)
    <3>1. StoreNext
      BY <1>2, <2>1, StoreServes DEF EffectCallOK, BeginEffOutcome
    <3>2. Progress => ExecOK(e)'
      BY <1>1, <1>2, <2>1, MovingIsOK DEF EffectCallOK
    <3>3. QED
      BY <2>1, <3>1, <3>2, ServedStepKeeps DEF Becomes
  <2>2. QED
    BY <1>1, <1>2, <1>3, <1>4, <1>7, <2>1, BeginEffectCallDoes, ReceiptKeeps
<1>8. CASE SettleCall(e)
  <2>1. /\ exec[e].pc = "settle"
        /\ ReconcileEffect(x, t, g, exec[e].arg, "reconciled") => StoreNext
    BY <1>2, <1>8, StoreServes
       DEF SettleCall, EffectCallOK, Outcomes, TargetState, SettledState, SettleOutcome
  <2>2. QED
    BY <1>1, <1>2, <1>3, <1>4, <1>8, <2>1, SettleCallDoes, ReceiptKeeps
<1>9. QED
  BY <1>5, <1>6, <1>7, <1>8

(* recover_agentic_chat_turn decides on an outcome or on none. *)
LEMMA RecoverCallKeeps ==
    ASSUME ProtocolInv, NEW e \in Executions, RecoverCall(e)
    PROVE  ExecutionKeeps(e)
<1>1. ExecTypeOK /\ exec[e].pc = "recover" /\ Active(e)
  BY DEF ProtocolInv, TypeOK, RecoverCall, Active
<1>2. /\ exec[e].tok \in 1..issued /\ exec[e].gen \in 1..gen
      /\ exec[e].arg \in FailureClass
  BY <1>1 DEF ProtocolInv, ExecutionsHold, ExecOK
<1>3. Untold
  BY <1>1, RecoverCallDoes
<1>4. CASE GiveUp(CallOf(e, "recover")) /\ Ends(e)
  <2>1. "recover" \in CallName
    BY DEF CallName
  <2>2. QED
    BY <1>1, <1>3, <1>4, <2>1, RequestsAreOK, GiveUpStepKeeps, EndingIsOK DEF Ends
<1>5. ASSUME UNCHANGED netVars, NEW out \in RecoverOutcome,
             RecoverTurn(exec[e].tok, exec[e].gen, exec[e].arg, out),
             \/ Becomes(e, "finalize", "cancelled", None, None)
             \/ Becomes(e, "finalize", "failed", None, None)
             \/ Ends(e)
      PROVE  ExecutionKeeps(e)
  <2>1. StoreNext
    BY <1>2, <1>5, StoreServes
  <2>2. Progress => ExecOK(e)'
    BY <1>1, <1>5, MovingIsOK, EndingIsOK DEF EffectAt, Terminal
  <2>3. QED
    BY <1>3, <1>5, <2>1, <2>2, ServedStepKeeps DEF Becomes, Ends
<1>6. QED
  BY <1>1, <1>4, <1>5, RecoverCallDoes

(* finalize_agentic_chat_turn: a committed completion stays committed. *)
LEMMA FinalizeCallKeeps ==
    ASSUME ProtocolInv, NEW e \in Executions, FinalizeCall(e)
    PROVE  ExecutionKeeps(e)
<1>1. ExecTypeOK /\ exec[e].pc = "finalize" /\ Active(e)
  BY DEF ProtocolInv, TypeOK, FinalizeCall, Active
<1>2. /\ exec[e].tok \in 1..issued /\ exec[e].gen \in 1..gen
      /\ exec[e].arg \in Terminal
  BY <1>1 DEF ProtocolInv, ExecutionsHold, ExecOK
<1>3. Untold
  BY <1>1, FinalizeCallDoes
<1>4. CASE /\ Local \/ GiveUp(CallOf(e, "finalize"))
           /\ \/ Withdraws(e)
              \/ Becomes(e, "finalize", exec[e].arg, exec[e].tool, exec[e].abort)
  <2>1. Alone(e) /\ (Progress => ExecOK(e)')
    BY <1>1, <1>2, <1>4, MovingIsOK, WithdrawingIsOK DEF EffectAt, Withdraws, Becomes
  <2>2. "finalize" \in CallName
    BY DEF CallName
  <2>3. QED
    BY <1>1, <1>3, <1>4, <2>1, <2>2, RequestsAreOK, GiveUpStepKeeps, LocalStepKeeps
<1>5. CASE /\ UNCHANGED netVars
           /\ FinalizeTurn(exec[e].tok, exec[e].gen, "completed", "finalized")
           /\ Becomes(e, "complete", exec[e].arg, exec[e].tool, exec[e].abort)
  <2>1. StoreNext
    BY <1>2, <1>5, StoreServes DEF Terminal, FinalizeOutcome
  <2>2. status' = "completed"
    BY <1>5 DEF FinalizeTurn
  <2>3. Progress => ExecOK(e)'
    BY <1>1, <1>5, <2>2, MovingIsOK DEF EffectAt
  <2>4. QED
    BY <1>3, <1>5, <2>1, <2>3, ServedStepKeeps DEF Becomes
<1>6. ASSUME UNCHANGED netVars, NEW out \in FinalizeOutcome, NEW c \in FailureClass,
             FinalizeTurn(exec[e].tok, exec[e].gen, exec[e].arg, out),
             Becomes(e, "reconcile", c, exec[e].tool, exec[e].abort)
      PROVE  ExecutionKeeps(e)
  <2>1. StoreNext
    BY <1>2, <1>6, StoreServes
  <2>2. Progress => ExecOK(e)'
    BY <1>1, <1>6, MovingIsOK DEF EffectAt
  <2>3. QED
    BY <1>3, <1>6, <2>1, <2>2, ServedStepKeeps DEF Becomes
<1>7. QED
  BY <1>1, <1>4, <1>5, <1>6, FinalizeCallDoes

(* complete_queue_job is called for a completed turn only. *)
LEMMA QueueCallKeeps ==
    ASSUME ProtocolInv, NEW e \in Executions, QueueCall(e)
    PROVE  ExecutionKeeps(e)
<1>1. ExecTypeOK /\ Active(e)
  BY DEF ProtocolInv, TypeOK, QueueCall, Active
<1>2. ExecOK(e) /\ exec[e].tok \in 1..issued
  BY <1>1 DEF ProtocolInv, ExecutionsHold, ExecOK
<1>3. Untold /\ Alone(e) /\ (Progress => ExecOK(e)')
  BY <1>1, QueueCallDoes, EndingIsOK DEF Ends
<1>4. CASE \/ exec[e].pc = "complete" /\ GiveUp(CallOf(e, "complete"))
           \/ exec[e].pc = "reconcile" /\ GiveUp(CallOf(e, "recover"))
  <2>1. {"complete", "recover"} \subseteq CallName
    BY DEF CallName
  <2>2. QED
    BY <1>1, <1>3, <1>4, <2>1, RequestsAreOK, GiveUpStepKeeps
<1>5. CASE /\ exec[e].pc = "complete" /\ UNCHANGED netVars
           /\ \E out \in BOOLEAN : CompleteQueueJob(exec[e].tok, out)
  <2>1. StoreNext
    BY <1>1, <1>2, <1>5, StoreServes DEF ExecOK
  <2>2. QED
    BY <1>3, <1>5, <2>1, ServedStepKeeps
<1>6. CASE /\ exec[e].pc = "reconcile" /\ UNCHANGED netVars
           /\ \E out \in RecoverOutcome :
                RecoverTurn(exec[e].tok, exec[e].gen, exec[e].arg, out)
  <2>1. exec[e].gen \in 1..gen /\ exec[e].arg \in FailureClass
    BY <1>1, <1>2, <1>6 DEF ExecOK
  <2>2. StoreNext
    BY <1>2, <1>6, <2>1, StoreServes
  <2>3. QED
    BY <1>3, <1>6, <2>2, ServedStepKeeps
<1>7. QED
  BY <1>1, <1>4, <1>5, <1>6, QueueCallDoes

(* So does every step of an execution. *)
LEMMA ExecutorKeeps ==
    ASSUME ProtocolInv, NEW e \in Executions, Execute(e)
    PROVE  KeepsProtocol
<1>1. ExecutionKeeps(e)
  BY ClaimCallKeeps, LocalStepsKeep, BeginCallKeeps, EffectCallsKeep,
     RecoverCallKeeps, FinalizeCallKeeps, QueueCallKeeps
     DEF Execute, ExecutorStep
<1>2. QED
  BY <1>1, ExecutionKept DEF Execute

-----------------------------------------------------------------------------
(* Sweeps keep to the protocol *)

(* What a step of the sweep of p has to show. *)
SweepKeeps(p) ==
    /\ [StoreNext]_storeVars
    /\ sweep' \in [Processes -> SweepRecord]
    /\ \A q \in Processes \ {p} : sweep'[q] = sweep[q]
    /\ SweepOK(p)'
    /\ NetTypeOK'
    /\ \A c \in late' : c \in late \/ CallOK(c)'

(* Then the whole step keeps to the protocol. *)
LEMMA SweepKept ==
    ASSUME ProtocolInv, NEW p \in Processes, SweepKeeps(p),
           UNCHANGED <<execVars, processVars>>
    PROVE  KeepsProtocol
BY DEF SweepKeeps, KeepsProtocol, ExecTypeOK, execVars, ProtocolInv, TypeOK,
       SweepTypeOK, processVars

(* A sweep that ends or goes on holds what it held. *)
LEMMA SweepMovingIsOK ==
    ASSUME ProtocolInv, Progress, NEW p \in Processes, sweep[p].pc # "idle",
           \/ SweepEnds(p)
           \/ sweep[p].pc # "claim" /\ SweepTurns(p)
           \/ /\ sweep[p].pc # "claim" /\ SweepStays(p)
              /\ SweepGoes(p, "snapshot") \/ SweepGoes(p, "finalize")
              /\ sweep'[p].want \in {"failed", "cancelled"}
    PROVE  SweepOK(p)'
<1>1. CASE SweepEnds(p)
  BY <1>1 DEF SweepEnds, SweepResting, SweepOK
<1>2. CASE ~SweepEnds(p)
  <2>1. issued \in Nat /\ gen \in Nat
    BY DEF ProtocolInv, StoreInv, StoreTypeOK, CountersOK
  <2>2. 1..issued \subseteq 1..issued' /\ 1..gen \subseteq 1..gen'
    BY <2>1 DEF Progress
  <2>3. /\ sweep[p].tok \in 1..issued
        /\ sweep[p].pc # "claim" =>
             sweep[p].gen \in 1..gen /\ sweep[p].class \in FailureClass
    BY DEF ProtocolInv, SweepsHold, SweepOK
  <2>4. QED
    BY <1>2, <2>2, <2>3 DEF SweepTurns, SweepGoes, SweepStays, SweepOK
<1>3. QED
  BY <1>1, <1>2

(* The next request of a sweep is one the store may serve. *)
LEMMA SweepRequestsAreOK ==
    ASSUME ProtocolInv, NEW p \in Processes, sweep[p].pc # "idle",
           NEW name \in CallName, NEW arg \in CallArg,
           \/ name = "claim"
           \/ /\ name = "recover" /\ sweep[p].pc = "recover"
              /\ arg = sweep[p].class
           \/ /\ name = "finalize" /\ sweep[p].pc = "finalize"
              /\ arg = sweep[p].want
    PROVE  /\ SweepCall(p, name, arg) \in CallRecord
           /\ CallOK(SweepCall(p, name, arg))
<1>1. sweep[p] \in SweepRecord
  BY DEF ProtocolInv, TypeOK, SweepTypeOK
<1>2. SweepCall(p, name, arg) \in CallRecord
  BY <1>1 DEF SweepCall, Call, CallRecord, SweepRecord
<1>3. /\ SweepCall(p, name, arg).name = name
      /\ SweepCall(p, name, arg).tok = sweep[p].tok
      /\ SweepCall(p, name, arg).gen = sweep[p].gen
      /\ SweepCall(p, name, arg).arg = arg
  BY DEF SweepCall, Call
<1>4. SweepOK(p)
  BY DEF ProtocolInv, SweepsHold
<1>5. QED
  BY <1>2, <1>3, <1>4 DEF CallOK, SweepOK, EffectCall, Terminal

(* Every step of a sweep under way keeps to the protocol. *)
LEMMA SweepStepKeeps ==
    ASSUME ProtocolInv, NEW p \in Processes, Sweep(p)
    PROVE  KeepsProtocol
<1> DEFINE t == sweep[p].tok  g == sweep[p].gen
<1>1. /\ SweepTypeOK /\ NetTypeOK /\ gen \in Nat /\ issued \in Nat
      /\ SweepOK(p) /\ UNCHANGED <<execVars, processVars>>
  BY DEF ProtocolInv, TypeOK, SweepsHold, StoreInv, StoreTypeOK, CountersOK, Sweep
<1>2. {"claim", "recover", "finalize"} \subseteq CallName
  BY DEF CallName
<1>3. ASSUME NEW name \in CallName, NEW arg \in CallArg, sweep[p].pc # "idle",
             GiveUp(SweepCall(p, name, arg)),
             \/ name = "claim" /\ SweepEnds(p)
             \/ /\ name = "recover" /\ sweep[p].pc = "recover"
                /\ arg = sweep[p].class /\ SweepEnds(p)
             \/ /\ name = "finalize" /\ sweep[p].pc = "finalize"
                /\ arg = sweep[p].want /\ SweepTurns(p)
      PROVE  SweepKeeps(p)
  <2>1. /\ UNCHANGED storeVars /\ NetTypeOK'
        /\ \A d \in late' : d \in late \/ CallOK(d)'
    BY <1>3, SweepRequestsAreOK, GivingUpKeeps
  <2>2. SweepOK(p)'
    BY <1>3, <2>1, LocalProgress, SweepMovingIsOK
  <2>3. QED
    BY <1>3, <2>1, <2>2 DEF SweepKeeps, SweepEnds, SweepGoes, SweepTurns
<1>4. CASE SweepClaim(p)
  <2>1. gen' \in Nat
    <3>1. UNCHANGED storeVars \/ \E out \in ClaimOutcome : ClaimTurn(t, out)
      BY <1>4 DEF SweepClaim, GiveUp
    <3>2. QED
      BY <1>1, <3>1 DEF ClaimTurn, storeVars
  <2>2. sweep[p].pc = "claim" /\ t \in 1..issued
    BY <1>1, <1>4 DEF SweepClaim, SweepOK
  <2>3. ASSUME GiveUp(SweepCall(p, "claim", None)), SweepEnds(p)
        PROVE  SweepKeeps(p)
    <3>1. None \in CallArg
      BY DEF CallArg
    <3>2. QED
      BY <1>2, <1>3, <2>2, <2>3, <3>1
  <2>4. ASSUME UNCHANGED netVars, NEW out \in ClaimOutcome, ClaimTurn(t, out),
               \/ SweepEnds(p)
               \/ /\ gen' >= 1 /\ SweepGoes(p, "recover")
                  /\ sweep'[p].gen = gen' /\ sweep'[p].class \in FailureClass
        PROVE  SweepKeeps(p)
    <3>1. StoreNext
      BY <2>2, <2>4, StoreServes
    <3>2. Progress
      BY <3>1, StoreProgresses DEF ProtocolInv
    <3>3. t \in 1..issued'
      BY <1>1, <2>2, <3>2 DEF Progress
    <3>4. SweepOK(p)'
      BY <2>1, <2>4, <3>3 DEF SweepEnds, SweepResting, SweepGoes, SweepOK
    <3>5. QED
      BY <2>4, <3>1, <3>4, QuietNet DEF SweepKeeps, SweepEnds, SweepGoes
  <2>5. SweepKeeps(p)
    BY <1>1, <1>4, <2>1, <2>3, <2>4, SweepClaimDoes
  <2>6. QED
    BY <1>1, <2>5, SweepKept
<1>5. CASE SweepRecover(p)
  <2>1. /\ sweep[p].pc = "recover" /\ t \in 1..issued /\ g \in 1..gen
        /\ sweep[p].class \in FailureClass
    BY <1>1, <1>5 DEF SweepRecover, SweepOK
  <2>2. ASSUME GiveUp(SweepCall(p, "recover", sweep[p].class)), SweepEnds(p)
        PROVE  SweepKeeps(p)
    BY <1>2, <1>3, <2>1, <2>2 DEF CallArg
  <2>3. ASSUME UNCHANGED netVars, NEW out \in RecoverOutcome,
               RecoverTurn(t, g, sweep[p].class, out),
               \/ SweepEnds(p)
               \/ /\ SweepGoes(p, "snapshot") /\ SweepStays(p)
                  /\ sweep'[p].want \in {"failed", "cancelled"}
        PROVE  SweepKeeps(p)
    <3>1. StoreNext
      BY <2>1, <2>3, StoreServes
    <3>2. Progress
      BY <3>1, StoreProgresses DEF ProtocolInv
    <3>3. SweepOK(p)'
      BY <2>1, <2>3, <3>2, SweepMovingIsOK
    <3>4. QED
      BY <2>3, <3>1, <3>3, QuietNet DEF SweepKeeps, SweepEnds, SweepGoes
  <2>4. SweepKeeps(p)
    BY <1>1, <1>5, <2>2, <2>3, SweepRecoverDoes
  <2>5. QED
    BY <1>1, <2>4, SweepKept
<1>6. CASE SweepSnapshot(p)
  <2>1. /\ sweep[p].pc = "snapshot" /\ sweep[p].class \in FailureClass
        /\ sweep[p].want \in {"failed", "cancelled"}
    BY <1>1, <1>6 DEF SweepSnapshot, SweepOK
  <2>2. /\ UNCHANGED storeVars /\ UNCHANGED late /\ faults' \in 0..MaxFaults
        /\ \/ SweepTurns(p)
           \/ /\ SweepGoes(p, "finalize") /\ SweepStays(p)
              /\ sweep'[p].want = sweep[p].want
    BY <1>1, <1>6, <2>1, SweepSnapshotDoes
  <2>3. SweepOK(p)'
    BY <2>1, <2>2, LocalProgress, SweepMovingIsOK
  <2>4. NetTypeOK' /\ \A d \in late' : d \in late
    BY <1>1, <2>2 DEF NetTypeOK
  <2>5. QED
    BY <1>1, <2>2, <2>3, <2>4, SweepKept
       DEF SweepKeeps, SweepTurns, SweepEnds, SweepGoes
<1>7. CASE SweepFinalize(p)
  <2>1. /\ sweep[p].pc = "finalize" /\ t \in 1..issued /\ g \in 1..gen
        /\ sweep[p].class \in FailureClass
        /\ sweep[p].want \in {"failed", "cancelled"}
    BY <1>1, <1>7 DEF SweepFinalize, SweepOK
  <2>2. SweepTurns(p)
    BY <1>1, <1>7, <2>1, SweepFinalizeDoes
  <2>3. ASSUME GiveUp(SweepCall(p, "finalize", sweep[p].want))
        PROVE  SweepKeeps(p)
    BY <1>2, <1>3, <2>1, <2>2, <2>3 DEF CallArg, Terminal
  <2>4. ASSUME UNCHANGED netVars, NEW out \in FinalizeOutcome,
               FinalizeTurn(t, g, sweep[p].want, out)
        PROVE  SweepKeeps(p)
    <3>1. StoreNext
      BY <2>1, <2>4, StoreServes DEF Terminal
    <3>2. Progress
      BY <3>1, StoreProgresses DEF ProtocolInv
    <3>3. SweepOK(p)'
      BY <2>1, <2>2, <3>2, SweepMovingIsOK
    <3>4. QED
      BY <2>2, <2>4, <3>1, <3>3, QuietNet
         DEF SweepKeeps, SweepTurns, SweepEnds, SweepGoes
  <2>5. SweepKeeps(p)
    BY <1>1, <1>7, <2>1, <2>3, <2>4, SweepFinalizeDoes
  <2>6. QED
    BY <1>1, <2>5, SweepKept
<1>8. QED
  BY <1>4, <1>5, <1>6, <1>7 DEF Sweep, SweepStep

-----------------------------------------------------------------------------
(* Everybody else keeps to the protocol *)

(* A call that arrives late presents what it was given up on with. *)
LEMMA LateCallKeeps ==
    ASSUME ProtocolInv, LateCallArrives
    PROVE  KeepsProtocol
<1>1. PICK c \in late : /\ late' = late \ {c} /\ UNCHANGED faults
                        /\ Serve(c)
  BY DEF LateCallArrives, LateArrival
<1>2. CallOK(c)
  BY DEF ProtocolInv, CallsHold
<1>3. StoreNext
  BY <1>1, <1>2, StoreServes DEF Serve, CallOK, EffectCall
<1>4. NetTypeOK' /\ \A d \in late' : d \in late
  BY <1>1 DEF ProtocolInv, TypeOK, NetTypeOK
<1>5. QED
  BY <1>3, <1>4 DEF KeepsProtocol, LateCallArrives, ProtocolInv, TypeOK,
     ExecTypeOK, execVars, SweepTypeOK, processVars

(* A new token goes to a new execution, or to nobody. *)
LEMMA TakeJobKeeps ==
    ASSUME ProtocolInv, NEW e \in Executions, TakeJob(e)
    PROVE  KeepsProtocol
<1>1. ExecTypeOK /\ NetTypeOK /\ issued \in Nat
  BY DEF ProtocolInv, TypeOK, StoreInv, StoreTypeOK, CountersOK
<1>2. ClaimPendingJob /\ issued' = issued + 1
  BY DEF TakeJob, Poll, PollLost, ClaimPendingJob
<1>3. /\ UNCHANGED <<late, providerCalls, adapterRuns, sweep, processVars>>
      /\ \/ UNCHANGED exec /\ faults < MaxFaults /\ faults' = faults + 1
         \/ /\ UNCHANGED faults /\ Alone(e)
            /\ exec'[e].pc \in {"claim", "reject"} /\ exec'[e].tok = issued'
  BY <1>1, <1>2, TakeJobDoes
<1>4. StoreNext
  BY <1>2 DEF StoreNext
<1>5. NetTypeOK'
  BY <1>1, <1>3, MaxFaultsAssumption DEF NetTypeOK
<1>6. ExecTypeOK' /\ \A o \in Executions : exec'[o] = exec[o] \/ ExecOK(o)'
  <2>1. CASE UNCHANGED exec
    BY <1>1, <1>3, <2>1 DEF ExecTypeOK
  <2>2. CASE /\ Alone(e) /\ exec'[e].pc \in {"claim", "reject"}
             /\ exec'[e].tok = issued'
    <3>1. ExecOK(e)'
      BY <1>1, <1>2, <2>2 DEF ExecOK, EffectAt
    <3>2. QED
      BY <1>1, <1>3, <2>2, <3>1 DEF Alone, ExecTypeOK
  <2>3. QED
    BY <1>3, <2>1, <2>2
<1>7. QED
  BY <1>3, <1>4, <1>5, <1>6 DEF KeepsProtocol, ProtocolInv, TypeOK, SweepTypeOK,
     processVars

(* A signal changes nothing an execution presents. *)
LEMMA SignalKeeps ==
    ASSUME ProtocolInv, NEW e \in Executions, Signalled(e), Untold,
           UNCHANGED <<storeVars, netVars, sweep, processVars>>
    PROVE  KeepsProtocol
<1>1. Progress => ExecOK(e)'
  <2> SUFFICES ASSUME Progress PROVE ExecOK(e)'
    OBVIOUS
  <2>1. issued \in Nat /\ gen \in Nat
    BY DEF ProtocolInv, StoreInv, StoreTypeOK, CountersOK
  <2>2. 1..issued \subseteq 1..issued' /\ 1..gen \subseteq 1..gen'
    BY <2>1 DEF Progress
  <2>3. QED
    BY <2>2 DEF Progress, Signalled, ExecOK, Active, ProtocolInv, ExecutionsHold
<1>2. ExecutionKeeps(e)
  BY <1>1, LocalStepKeeps DEF Signalled, Local
<1>3. QED
  BY <1>2, ExecutionKept

(* A process that drains, dies or exits presents nothing. *)
LEMMA ProcessStepsKeep ==
    ASSUME ProtocolInv, NEW p \in Processes,
           Drain(p) \/ AbortSurvivors(p) \/ Crash(p) \/ Exit(p)
    PROVE  KeepsProtocol
<1>1. /\ ExecTypeOK /\ NetTypeOK /\ SweepTypeOK
      /\ draining \subseteq Processes /\ crashes \in 0..MaxCrashes
  BY DEF ProtocolInv, TypeOK
<1>2. CASE Drain(p)
  BY <1>1, <1>2, QuietNet, MaxCrashesAssumption
     DEF Drain, KeepsProtocol, ExecTypeOK, execVars, SweepTypeOK
<1>3. CASE AbortSurvivors(p)
  BY <1>1, <1>3, AbortSurvivorsDoes, SignalKeeps
<1>4. CASE Crash(p) \/ Exit(p)
  <2>1. /\ Recedes /\ UNCHANGED <<storeVars, netVars, providerCalls, adapterRuns>>
        /\ draining' \subseteq Processes /\ crashes' \in 0..MaxCrashes
    BY <1>1, <1>4, ForgettingRecedes, MaxCrashesAssumption DEF Crash, Exit
  <2>2. /\ \A e \in Executions : exec'[e] = exec[e] \/ ExecOK(e)'
        /\ \A q \in Processes : sweep'[q] = sweep[q] \/ SweepOK(q)'
    BY <2>1 DEF Recedes, Resting, ExecOK, Active, SweepResting, SweepOK
  <2>3. ExecTypeOK' /\ SweepTypeOK'
    BY <1>1, <2>1 DEF Recedes, ExecTypeOK, SweepTypeOK
  <2>4. QED
    BY <2>1, <2>2, <2>3, QuietNet DEF KeepsProtocol
<1>5. QED
  BY <1>2, <1>3, <1>4

(***************************************************************************)
(* The operator settles what is uncertain whoever owns the job, so any     *)
(* token and generation will do; one of each exists, for the effect was    *)
(* reserved by an execution that had started.                              *)
(***************************************************************************)
LEMMA OperatorIsACaller ==
    ASSUME ProtocolInv, NEW x \in Effects, OperatorResolves(x)
    PROVE  StoreNext
<1>1. PICK target \in {"succeeded", "failed"} :
        ReconcileEffect(x, token, gen, target, "reconciled")
  BY DEF OperatorResolves
<1>2. effect[x] = "uncertain"
  BY DEF OperatorResolves
<1>3. ReconcileEffect(x, 1, 1, target, "reconciled")
  BY <1>1, <1>2 DEF ReconcileEffect, AlreadySettled, MaySettle, RequiresOwner
<1>4. started
  BY <1>2 DEF ProtocolInv, StoreInv, BoundariesMatchEffects
<1>5. 1 \in 1..gen /\ 1 \in 1..issued
  BY <1>4 DEF ProtocolInv, GenerationClaimed, StoreInv, StoreTypeOK, CountersOK,
              ClaimsWithinBudget
<1>6. target \in TargetState /\ "reconciled" \in SettleOutcome
  BY DEF TargetState, SettledState, SettleOutcome
<1>7. QED
  BY <1>3, <1>5, <1>6, StoreServes

(* Users, operators and the clock act on the store alone. *)
LEMMA StoreStepKeeps ==
    ASSUME ProtocolInv, StoreNext,
           UNCHANGED <<netVars, execVars, sweep, processVars>>
    PROVE  KeepsProtocol
BY QuietNet DEF KeepsProtocol, ProtocolInv, TypeOK, ExecTypeOK, execVars,
   SweepTypeOK, processVars

(* The user, the operator and time present no token. *)
LEMMA OutsidersKeep ==
    ASSUME ProtocolInv,
           \/ UserCancels \/ \E x \in Effects : OperatorResolves(x)
           \/ JobAges \/ HeartbeatLapses
    PROVE  KeepsProtocol
<1>1. CASE UserCancels
  BY <1>1, StoreStepKeeps DEF UserCancels, StoreNext
<1>2. ASSUME NEW x \in Effects, OperatorResolves(x)
      PROVE  KeepsProtocol
  BY <1>2, OperatorIsACaller, StoreStepKeeps DEF OperatorResolves
<1>3. CASE JobAges
  BY <1>3, StoreStepKeeps DEF JobAges, StoreNext
<1>4. CASE HeartbeatLapses
  BY <1>4, StoreStepKeeps DEF HeartbeatLapses, StoreNext
<1>5. QED
  BY <1>1, <1>2, <1>3, <1>4

(* A sweep begins with the token of the job. *)
LEMMA BeginSweepKeeps ==
    ASSUME ProtocolInv, NEW p \in Processes, BeginSweep(p)
    PROVE  KeepsProtocol
<1>1. /\ SweepTypeOK /\ token \in 0..issued /\ issued \in Nat
      /\ jobStatus = "processing" => token # NoToken
  BY DEF ProtocolInv, TypeOK, StoreInv, StoreTypeOK, CountersOK, QueueAgreesWithTurn
<1>2. /\ jobStatus = "processing"
      /\ UNCHANGED <<storeVars, netVars, execVars, processVars>>
      /\ sweep' \in [Processes -> SweepRecord]
      /\ \A q \in Processes \ {p} : sweep'[q] = sweep[q]
      /\ sweep'[p].pc = "claim" /\ sweep'[p].tok = token
  BY <1>1, BeginSweepDoes
<1>3. SweepOK(p)'
  BY <1>1, <1>2 DEF SweepOK, NoToken, storeVars
<1>4. QED
  BY <1>2, <1>3, QuietNet, SweepKept DEF SweepKeeps

-----------------------------------------------------------------------------
(* The invariant of the protocol *)

(* Every step keeps it. *)
LEMMA NextKeeps ==
    ASSUME ProtocolInv, Next
    PROVE  KeepsProtocol
<1>1. ASSUME NEW e \in Executions,
             WorkerTimeoutFires(e) \/ CancellationPoll(e) \/ OwnSignalAborts(e)
      PROVE  KeepsProtocol
  BY <1>1, SignalSteps, SignalKeeps DEF ProtocolInv, TypeOK
<1>2. QED
  BY <1>1, TakeJobKeeps, ExecutorKeeps, BeginSweepKeeps, SweepStepKeeps,
     ProcessStepsKeep, LateCallKeeps, OutsidersKeep DEF Next

(* Nor does a step that changes nothing. *)
LEMMA StutteringKeeps ==
    ASSUME ProtocolInv, UNCHANGED vars
    PROVE  KeepsProtocol
BY QuietNet DEF vars, KeepsProtocol, ProtocolInv, TypeOK, ExecTypeOK, execVars,
   SweepTypeOK, processVars

(* Admission presents nothing yet. *)
LEMMA InitIsProtocol == Init => ProtocolInv
<1> SUFFICES ASSUME Init PROVE ProtocolInv
  OBVIOUS
<1>1. StoreInv
  BY InitEstablishes DEF Init
<1>2. NetTypeOK
  BY MaxFaultsAssumption DEF Init, NetInit, NetTypeOK
<1>3. ExecTypeOK /\ ExecutionsHold
  BY RestingIsRecord DEF Init, ExecInit, ExecTypeOK, ExecutionsHold, ExecOK,
     Active, Resting
<1>4. SweepTypeOK /\ SweepsHold
  <2>1. SweepResting \in SweepRecord
    BY MaxConvergenceAssumption DEF SweepResting, SweepRecord, SweepLocation,
       NoToken
  <2>2. QED
    BY <2>1 DEF Init, SweepInit, SweepTypeOK, SweepsHold, SweepOK, SweepResting
<1>5. GenerationClaimed /\ CallsHold
  BY DEF Init, StoreInit, NetInit, GenerationClaimed, CallsHold
<1>6. TypeOK
  BY <1>1, <1>2, <1>3, <1>4, MaxCrashesAssumption DEF Init, StoreInv, TypeOK
<1>7. QED
  BY <1>1, <1>3, <1>4, <1>5, <1>6 DEF ProtocolInv

(* Every step of the system is a step of the store, or none, and keeps it. *)
LEMMA NextIsProtocol ==
    ProtocolInv /\ [Next]_vars => ProtocolInv' /\ [StoreNext]_storeVars
<1>1. ProtocolInv /\ [Next]_vars => KeepsProtocol
  BY NextKeeps, StutteringKeeps
<1>2. QED
  BY <1>1, ProtocolKept DEF KeepsProtocol

(***************************************************************************)
(* The inductive invariant: whatever is presented was issued.              *)
(***************************************************************************)
THEOREM ProtocolInvariant == Spec => []ProtocolInv
BY InitIsProtocol, NextIsProtocol, PTL DEF Spec

(* Every variable of the turn and its workers keeps its type. *)
THEOREM ChatTurnTypeCorrect == Spec => []TypeOK
<1>1. ProtocolInv => TypeOK
  BY DEF ProtocolInv
<1>2. QED
  BY <1>1, ProtocolInvariant, PTL

(***************************************************************************)
(* The workers are callers the store expects: the whole system implements  *)
(* the store under any caller, so its guarantees hold of the whole system. *)
(***************************************************************************)
THEOREM WorkersKeepToTheStore == Spec => StoreProtocol
<1>1. Init => StoreInit
  BY DEF Init
<1>2. QED
  BY <1>1, ProtocolInvariant, NextIsProtocol, PTL DEF Spec, StoreProtocol, StoreSpec

(* Queue row, pristine requeues, boundaries, budget and cancellation. *)
THEOREM StoreGuaranteesHold == Spec => []StoreInv
BY WorkersKeepToTheStore, StoreInvariant, PTL DEF StoreProtocol

(* What is terminal or settled stays so, across retries, sweeps and crashes. *)
THEOREM FinalityHolds == Spec => TerminalIsFinal
BY WorkersKeepToTheStore, Finality, PTL DEF StoreProtocol
===============================================================================
