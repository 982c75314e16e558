------------------------- MODULE ChatTurnFenceProofs -------------------------
(***************************************************************************)
(* What the fences are for, for any set of effects, executions and         *)
(* processes and any number of crashes and lost calls: one execution       *)
(* answers at a time, the provider and each adapter are invoked once, the  *)
(* ledger says what happened and a requeued turn left no trace.            *)
(*                                                                         *)
(* FenceInv strengthens them to an inductive invariant.  Its parts need    *)
(* each other: that a settlement arriving late finds an adapter that ran   *)
(* (LateEffects) is what keeps the ledger true, that nobody answers once   *)
(* an effect call was given up on is what keeps such a call from crossing  *)
(* a live one, and both rest on the one execution past the fence (Fenced). *)
(***************************************************************************)
EXTENDS ChatTurnProtocolProofs

-----------------------------------------------------------------------------
(* The invariant of the fences *)

(* A token is held by one execution. *)
OneHolder ==
    \A e, o \in Executions :
        Active(e) /\ Active(o) /\ exec[e].tok = exec[o].tok => e = o

(***************************************************************************)
(* Only one execution is past the start fence; it has the generation of    *)
(* the turn and, as long as the job is processing, its token.              *)
(***************************************************************************)
Fenced ==
    \A e \in Executions : PastStart(e) =>
        /\ started
        /\ exec[e].gen = gen
        /\ jobStatus = "processing" => token = exec[e].tok
        /\ \A o \in Executions : PastStart(o) => o = e

(* It has not asked the provider yet, or has asked it once. *)
ProviderFenced ==
    /\ providerCalls \in {0, 1}
    /\ providerCalls = 1 => started
    /\ \A e \in Executions :
        /\ exec[e].pc = "provider" => providerCalls = 0
        /\ PastStart(e) /\ exec[e].pc # "provider" => providerCalls = 1

OpenFor(x) == effect[x] \in Blocking

BeforeEffect == {"reserved", "unreserve", "beginEffect"}

(***************************************************************************)
(* As long as an execution answers, no effect is open but the one it is    *)
(* working on, and that one stands where the execution stands.             *)
(***************************************************************************)
KnowsItsEffect(e) ==
    /\ \A x \in Effects : OpenFor(x) =>
         /\ x = exec[e].tool
         /\ exec[e].pc \in BeforeEffect \cup {"adapter", "settle"}
    /\ exec[e].pc \in BeforeEffect => effect[exec[e].tool] = "reserved"
    /\ exec[e].pc = "adapter" =>
         effect[exec[e].tool] = "started" /\ adapterRuns[exec[e].tool] = 0
    /\ exec[e].pc = "settle" =>
         effect[exec[e].tool] = "started" /\ adapterRuns[exec[e].tool] = 1

EffectsFenced == \A e \in Executions : PastStart(e) => KnowsItsEffect(e)

(***************************************************************************)
(* An effect call was given up on by an execution that has withdrawn since *)
(* then, after it had done what it wanted to tell.                         *)
(***************************************************************************)
NobodyAnswers == \A e \in Executions : ~PastStart(e)

TellsTheTruth(c) ==
    /\ c.name = "beginEffect" => effect[c.tool] # "none"
    /\ c.name = "settle" /\ c.arg # "cancelled" => adapterRuns[c.tool] = 1

LateEffects ==
    \A c \in late : c.name \in EffectCall =>
        started /\ NobodyAnswers /\ TellsTheTruth(c)

FenceInv ==
    /\ OneHolder
    /\ Fenced
    /\ ProviderFenced
    /\ EffectsFenced
    /\ LateEffects
    /\ LedgerTellsTruth
    /\ AdapterInvokedOnce

-----------------------------------------------------------------------------
(* Steps that touch neither the start fence nor an effect *)

(* The store moves, but nothing an answering execution relies on. *)
Calm ==
    /\ effect' = effect /\ started' = started
    /\ started => gen' = gen
    /\ started /\ jobStatus' = "processing" =>
         jobStatus = "processing" /\ token' = token

(* No procedure but the start fence and the effect calls disturbs it. *)
LEMMA CalmCalls ==
    ASSUME StoreInv,
           \/ UNCHANGED storeVars \/ ClaimPendingJob \/ RequestCancel
           \/ ResidenceExpires \/ OwnerStalls
           \/ \E t, out : ClaimTurn(t, out) \/ CompleteQueueJob(t, out)
           \/ \E t, g, c, out : RecoverTurn(t, g, c, out) \/ FinalizeTurn(t, g, c, out)
           \/ \E t, g, out : out # "started" /\ BeginExecution(t, g, out)
    PROVE  Calm
<1>1. CASE UNCHANGED storeVars \/ ResidenceExpires \/ OwnerStalls
  BY <1>1 DEF storeVars, ResidenceExpires, OwnerStalls, turnVars, queueVars, Calm
<1>2. CASE ClaimPendingJob
  BY <1>2 DEF ClaimPendingJob, turnVars, Calm, StoreInv, QueueAgreesWithTurn,
              QueuedIsPristine
<1>3. CASE RequestCancel
  BY <1>3 DEF RequestCancel, CancelQueuedTurn, CancelRunningTurn, queueVars, Calm
<1>4. ASSUME NEW t, NEW out, ClaimTurn(t, out)
      PROVE  Calm
  BY <1>4 DEF ClaimTurn, storeVars, queueVars, Calm, StoreInv, QueuedIsPristine
<1>5. ASSUME NEW t, NEW out, CompleteQueueJob(t, out)
      PROVE  Calm
  BY <1>5 DEF CompleteQueueJob, storeVars, turnVars, Calm
<1>6. ASSUME NEW t, NEW g, NEW c, NEW out, RecoverTurn(t, g, c, out)
      PROVE  Calm
  <2>1. UNCHANGED storeVars \/ (status \in Terminal /\ ReconcileQueueRow) \/ ScheduleRetry
    BY <1>6 DEF RecoverTurn
  <2>2. QED
    BY <2>1 DEF storeVars, turnVars, ReconcileQueueRow, ScheduleRetry, Terminal, Calm
<1>7. ASSUME NEW t, NEW g, NEW s, NEW out, FinalizeTurn(t, g, s, out)
      PROVE  Calm
  BY <1>7 DEF FinalizeTurn, storeVars, queueVars, Calm
<1>8. ASSUME NEW t, NEW g, NEW out, out # "started", BeginExecution(t, g, out)
      PROVE  Calm
  BY <1>8 DEF BeginExecution, storeVars, Calm
<1>9. QED
  BY <1>1, <1>2, <1>3, <1>4, <1>5, <1>6, <1>7, <1>8

(* An execution stands where it stood. *)
Stays(e) ==
    /\ exec'[e].pc = exec[e].pc
    /\ exec'[e].tok = exec[e].tok
    /\ exec'[e].gen = exec[e].gen
    /\ exec'[e].arg = exec[e].arg
    /\ exec'[e].tool = exec[e].tool

(* No execution advances past the fence, some may withdraw. *)
Retreat == \A o \in Executions : Stays(o) \/ ~PastStart(o)'

(* Nobody holds a token he did not hold. *)
NoNewHolder ==
    \A o \in Executions : Active(o)' => Active(o) /\ exec'[o].tok = exec[o].tok

NoNewEffectCall == \A c \in late' : c \in late \/ c.name \notin EffectCall

(* So two executions still never hold the same claim. *)
LEMMA HoldersKept ==
    ASSUME OneHolder, NoNewHolder
    PROVE  OneHolder'
BY DEF OneHolder, NoNewHolder, Active

(* Calm steps keep the fences. *)
LEMMA CalmKeeps ==
    ASSUME FenceInv, Calm, Retreat, NoNewEffectCall, Untold, OneHolder'
    PROVE  FenceInv'
<1> USE DEF Calm, Retreat, Untold, FenceInv
<1>1. \A o \in Executions : PastStart(o)' => PastStart(o) /\ Stays(o)
  BY DEF PastStart, Stays
<1>2. Fenced'
  BY <1>1 DEF Fenced, Stays
<1>3. ProviderFenced'
  <2>1. \A o \in Executions : exec'[o].pc = "provider" => PastStart(o)'
    BY DEF PastStart
  <2>2. QED
    BY <1>1, <2>1 DEF ProviderFenced, Stays
<1>4. EffectsFenced'
  BY <1>1 DEF EffectsFenced, KnowsItsEffect, Stays, OpenFor
<1>5. LateEffects'
  BY <1>1 DEF LateEffects, NobodyAnswers, TellsTheTruth, NoNewEffectCall
<1>6. LedgerTellsTruth' /\ AdapterInvokedOnce'
  BY DEF LedgerTellsTruth, AdapterInvokedOnce
<1>7. QED
  BY <1>2, <1>3, <1>4, <1>5, <1>6

(* A step of an execution on its own claim takes no token. *)
LEMMA HoldsNothingNew ==
    ASSUME NEW e \in Executions, Active(e),
           \/ Alone(e) /\ exec'[e].tok = exec[e].tok
           \/ Ends(e) \/ Withdraws(e)
    PROVE  NoNewHolder
BY DEF Alone, Ends, Withdraws, Keeps, Resting, NoNewHolder, Active

(***************************************************************************)
(* An execution that is not past the fence after its step, while the store *)
(* stayed calm.                                                            *)
(***************************************************************************)
LEMMA LeavingKeeps ==
    ASSUME FenceInv, Calm, Untold, NEW e \in Executions, Active(e),
           \/ Ends(e) \/ Withdraws(e)
           \/ Alone(e) /\ exec'[e].tok = exec[e].tok /\ ~PastStart(e)',
           NoNewEffectCall
    PROVE  FenceInv'
<1>1. OneHolder'
  BY HoldsNothingNew, HoldersKept DEF FenceInv
<1>2. Retreat
  BY DEF Retreat, Ends, Withdraws, Alone, Stays, PastStart, Resting
<1>3. QED
  BY <1>1, <1>2, CalmKeeps

-----------------------------------------------------------------------------
(* The start fence *)

(* Before the start nobody answers and nothing is asked or done. *)
LEMMA NothingBeforeStart ==
    ASSUME ProtocolInv, FenceInv, ~started
    PROVE  /\ NobodyAnswers /\ providerCalls = 0
           /\ \A x \in Effects : effect[x] = "none"
           /\ \A c \in late : c.name \notin EffectCall
BY DEF FenceInv, Fenced, NobodyAnswers, ProviderFenced, LateEffects, ProtocolInv,
       StoreInv, BoundariesMatchEffects

(* The fence is granted to one execution, or to a call nobody waits for. *)
LEMMA BeginKeeps ==
    ASSUME ProtocolInv, FenceInv, NEW t, NEW g, BeginExecution(t, g, "started"),
           Untold, NoNewEffectCall, OneHolder',
           \/ UNCHANGED exec
           \/ \E e \in Executions :
                /\ Alone(e) /\ Keeps(e) /\ exec'[e].pc = "provider"
                /\ exec[e].tok = t /\ exec[e].gen = g
    PROVE  FenceInv'
<1>1. /\ ~started /\ started' /\ gen = g /\ token = t
      /\ UNCHANGED <<gen, token, jobStatus, effect>>
  BY DEF BeginExecution, RecordStart, CurrentRun, OwnsJob
<1>2. /\ NobodyAnswers /\ providerCalls' = 0
      /\ \A x \in Effects : effect'[x] = "none"
      /\ \A c \in late' : c.name \notin EffectCall
  BY <1>1, NothingBeforeStart DEF Untold, NoNewEffectCall
<1>3. \A o \in Executions : PastStart(o)' =>
        /\ exec'[o].pc = "provider" /\ exec'[o].gen = g /\ exec'[o].tok = t
        /\ \A p \in Executions : PastStart(p)' => p = o
  BY <1>2 DEF NobodyAnswers, PastStart, Alone, Keeps
<1>4. Fenced'
  BY <1>1, <1>3 DEF Fenced
<1>5. ProviderFenced'
  BY <1>2, <1>3 DEF ProviderFenced
<1>6. EffectsFenced'
  BY <1>2, <1>3 DEF EffectsFenced, KnowsItsEffect, OpenFor, Blocking, BeforeEffect
<1>7. LateEffects'
  BY <1>2 DEF LateEffects
<1>8. LedgerTellsTruth' /\ AdapterInvokedOnce'
  BY <1>1 DEF FenceInv, LedgerTellsTruth, AdapterInvokedOnce, Untold
<1>9. QED
  BY <1>4, <1>5, <1>6, <1>7, <1>8 DEF FenceInv

-----------------------------------------------------------------------------
(* Steps of the execution that answers *)

(* What the steps of an answering execution leave alone. *)
SameRun == UNCHANGED <<started, gen, token, jobStatus>>

(* The one that answers has no effect call of an earlier one beside it. *)
LEMMA AnswersAlone ==
    ASSUME FenceInv, NEW e \in Executions, PastStart(e)
    PROVE  /\ started
           /\ \A o \in Executions : PastStart(o) => o = e
           /\ \A c \in late : c.name \notin EffectCall
BY DEF FenceInv, Fenced, LateEffects, NobodyAnswers

(* It goes on answering, and its effect stands where it stands. *)
LEMMA AnsweringKeeps ==
    ASSUME FenceInv, NEW e \in Executions, PastStart(e), PastStart(e)',
           Alone(e), Keeps(e), SameRun, UNCHANGED late,
           exec'[e].pc # "provider" /\ providerCalls' = 1,
           KnowsItsEffect(e)', LedgerTellsTruth', AdapterInvokedOnce'
    PROVE  FenceInv'
<1>1. \A o \in Executions : PastStart(o)' => o = e
  BY AnswersAlone DEF Alone, PastStart
<1>2. OneHolder'
  <2>1. Active(e)
    BY DEF PastStart, Active
  <2>2. QED
    BY <2>1, HoldsNothingNew, HoldersKept DEF FenceInv, Keeps
<1>3. Fenced'
  BY <1>1 DEF Fenced, FenceInv, SameRun, Keeps
<1>4. ProviderFenced'
  <2>1. started'
    BY AnswersAlone DEF SameRun
  <2>2. \A o \in Executions : exec'[o].pc = "provider" => PastStart(o)'
    BY DEF PastStart
  <2>3. QED
    BY <1>1, <2>1, <2>2 DEF ProviderFenced
<1>5. EffectsFenced'
  BY <1>1 DEF EffectsFenced
<1>6. LateEffects'
  BY AnswersAlone DEF LateEffects
<1>7. QED
  BY <1>2, <1>3, <1>4, <1>5, <1>6 DEF FenceInv

(* It withdraws, perhaps leaving a call behind that tells the truth. *)
LEMMA WithdrawingKeeps ==
    ASSUME FenceInv, NEW e \in Executions, PastStart(e), Withdraws(e), SameRun,
           UNCHANGED providerCalls,
           \A c \in late' : c \in late \/ TellsTheTruth(c)',
           LedgerTellsTruth', AdapterInvokedOnce'
    PROVE  FenceInv'
<1>1. NobodyAnswers' /\ started'
  BY AnswersAlone DEF Withdraws, Alone, PastStart, Resting, NobodyAnswers, SameRun
<1>2. OneHolder'
  <2>1. Active(e)
    BY DEF PastStart, Active
  <2>2. QED
    BY <2>1, HoldsNothingNew, HoldersKept DEF FenceInv
<1>3. \A o \in Executions : ~PastStart(o)' /\ exec'[o].pc # "provider"
  BY <1>1 DEF NobodyAnswers, PastStart
<1>4. Fenced' /\ ProviderFenced' /\ EffectsFenced'
  BY <1>1, <1>3 DEF Fenced, ProviderFenced, EffectsFenced, FenceInv
<1>5. LateEffects'
  BY <1>1, AnswersAlone DEF LateEffects
<1>6. QED
  BY <1>2, <1>4, <1>5 DEF FenceInv

(* When nobody answers, effects that move keep the ledger only. *)
LEMMA EffectsMoveKeeps ==
    ASSUME FenceInv, NobodyAnswers, SameRun, UNCHANGED execVars,
           \A x \in Effects : effect[x] # "none" => effect'[x] # "none",
           \A c \in late' : c \in late /\ (c.name \in EffectCall => c.tool \in Effects),
           LedgerTellsTruth'
    PROVE  FenceInv'
<1>1. NobodyAnswers'
  BY DEF NobodyAnswers, PastStart, execVars
<1>2. OneHolder'
  BY DEF FenceInv, OneHolder, Active, execVars
<1>3. Fenced' /\ ProviderFenced' /\ EffectsFenced'
  <2>1. \A o \in Executions : ~PastStart(o)' /\ exec'[o].pc # "provider"
    BY <1>1 DEF NobodyAnswers, PastStart
  <2>2. QED
    BY <2>1 DEF Fenced, ProviderFenced, EffectsFenced, FenceInv, SameRun, execVars
<1>4. LateEffects'
  BY <1>1 DEF LateEffects, FenceInv, SameRun, TellsTheTruth, EffectCall, execVars
<1>5. AdapterInvokedOnce'
  BY DEF AdapterInvokedOnce, FenceInv, execVars
<1>6. QED
  BY <1>2, <1>3, <1>4, <1>5 DEF FenceInv

-----------------------------------------------------------------------------
(* Every step of an execution keeps the fences *)

(* A call that is no effect call leaves no effect call behind. *)
LEMMA OtherCallsLeft ==
    ASSUME NEW e, \/ UNCHANGED netVars
                  \/ \E name \in CallName \ EffectCall : GiveUp(CallOf(e, name))
    PROVE  NoNewEffectCall
BY DEF NoNewEffectCall, GiveUp, CallOf, Call, netVars

(* The names of the calls that are no effect calls. *)
LEMMA OtherCalls ==
    {"claim", "begin", "recover", "finalize", "complete"} \subseteq CallName \ EffectCall
BY DEF CallName, EffectCall

(* A step between two calls, in the stream or out of it. *)
LEMMA StreamStepsKeepFences ==
    ASSUME ProtocolInv, FenceInv, NEW e \in Executions,
           \/ PrepareFails(e) \/ StreamFails(e) \/ FinishStream(e)
           \/ InvokeProvider(e) \/ RequestTool(e) \/ CheckReservation(e)
           \/ InvokeAdapter(e)
    PROVE  FenceInv'
<1>1. ExecTypeOK /\ StoreInv /\ ExecOK(e)
  BY DEF ProtocolInv, TypeOK, ExecutionsHold
<1>2. Local => Calm /\ NoNewEffectCall /\ SameRun /\ UNCHANGED <<late, effect>>
  BY <1>1, CalmCalls DEF Local, NoNewEffectCall, SameRun, storeVars, netVars
<1>3. CASE PrepareFails(e) \/ StreamFails(e)
  <2>1. Local /\ Untold /\ Withdraws(e) /\ Active(e)
    BY <1>1, <1>3, PrepareFailsDoes, StreamFailsDoes DEF Active
  <2>2. QED
    BY <1>2, <2>1, LeavingKeeps
<1>4. CASE FinishStream(e)
  <2>1. /\ Local /\ Untold /\ Active(e)
        /\ Becomes(e, "finalize", "completed", None, None)
    BY <1>1, <1>4, FinishStreamDoes DEF Active
  <2>2. QED
    BY <1>2, <2>1, LeavingKeeps DEF Becomes, Keeps, PastStart
<1>5. CASE InvokeProvider(e)
  <2>1. /\ exec[e].pc = "provider" /\ Local /\ UNCHANGED adapterRuns
        /\ providerCalls' = providerCalls + 1
        /\ Becomes(e, "stream", exec[e].arg, exec[e].tool, exec[e].abort)
    BY <1>1, <1>5, InvokeProviderDoes
  <2>2. PastStart(e) /\ PastStart(e)' /\ providerCalls' = 1
    BY <2>1 DEF PastStart, Becomes, FenceInv, ProviderFenced
  <2>3. KnowsItsEffect(e)'
    BY <1>2, <2>1, <2>2 DEF FenceInv, EffectsFenced, KnowsItsEffect, OpenFor,
       BeforeEffect, Becomes
  <2>4. LedgerTellsTruth' /\ AdapterInvokedOnce'
    BY <1>2, <2>1 DEF FenceInv, LedgerTellsTruth, AdapterInvokedOnce
  <2>5. QED
    BY <1>2, <2>1, <2>2, <2>3, <2>4, AnsweringKeeps DEF Becomes
<1>6. CASE RequestTool(e)
  <2>1. /\ exec[e].pc = "stream" /\ Local /\ Untold
        /\ Alone(e) /\ Keeps(e) /\ exec'[e].pc = "reserve"
    BY <1>1, <1>6, RequestToolDoes DEF Becomes
  <2>2. PastStart(e) /\ PastStart(e)' /\ providerCalls' = 1
    BY <2>1 DEF PastStart, FenceInv, ProviderFenced, Untold
  <2>3. KnowsItsEffect(e)'
    BY <1>2, <2>1, <2>2 DEF FenceInv, EffectsFenced, KnowsItsEffect, OpenFor,
       BeforeEffect
  <2>4. LedgerTellsTruth' /\ AdapterInvokedOnce'
    BY <1>2, <2>1 DEF FenceInv, LedgerTellsTruth, AdapterInvokedOnce, Untold
  <2>5. QED
    BY <1>2, <2>1, <2>2, <2>3, <2>4, AnsweringKeeps
<1>7. CASE CheckReservation(e)
  <2>1. /\ exec[e].pc = "reserved" /\ Local /\ Untold
        /\ Alone(e) /\ Keeps(e) /\ exec'[e].pc \in {"unreserve", "beginEffect"}
        /\ exec'[e].tool = exec[e].tool
    BY <1>1, <1>7, CheckReservationDoes DEF Becomes
  <2>2. PastStart(e) /\ PastStart(e)' /\ providerCalls' = 1
    BY <2>1 DEF PastStart, FenceInv, ProviderFenced, Untold
  <2>3. KnowsItsEffect(e)'
    BY <1>2, <2>1, <2>2 DEF FenceInv, EffectsFenced, KnowsItsEffect, OpenFor,
       BeforeEffect
  <2>4. LedgerTellsTruth' /\ AdapterInvokedOnce'
    BY <1>2, <2>1 DEF FenceInv, LedgerTellsTruth, AdapterInvokedOnce, Untold
  <2>5. QED
    BY <1>2, <2>1, <2>2, <2>3, <2>4, AnsweringKeeps
<1>8. CASE InvokeAdapter(e)
  <2>1. /\ exec[e].pc = "adapter" /\ Local /\ UNCHANGED providerCalls
        /\ adapterRuns' = [adapterRuns EXCEPT ![exec[e].tool] = @ + 1]
        /\ Alone(e) /\ Keeps(e) /\ exec'[e].pc = "settle"
        /\ exec'[e].tool = exec[e].tool
    BY <1>1, <1>8, InvokeAdapterDoes DEF Becomes
  <2>2. /\ PastStart(e) /\ PastStart(e)' /\ providerCalls' = 1
        /\ exec[e].tool \in Effects
    BY <1>1, <2>1 DEF PastStart, FenceInv, ProviderFenced, ExecOK, Active, EffectAt
  <2>3. effect[exec[e].tool] = "started" /\ adapterRuns[exec[e].tool] = 0
    BY <2>1, <2>2 DEF FenceInv, EffectsFenced, KnowsItsEffect
  <2>4. /\ adapterRuns'[exec[e].tool] = 1
        /\ \A x \in Effects \ {exec[e].tool} : adapterRuns'[x] = adapterRuns[x]
    BY <1>1, <2>1, <2>2, <2>3 DEF ExecTypeOK
  <2>5. KnowsItsEffect(e)'
    BY <1>2, <2>1, <2>2, <2>3, <2>4 DEF FenceInv, EffectsFenced, KnowsItsEffect,
       OpenFor, BeforeEffect
  <2>6. LedgerTellsTruth' /\ AdapterInvokedOnce'
    BY <1>2, <2>1, <2>3, <2>4 DEF FenceInv, LedgerTellsTruth, AdapterInvokedOnce
  <2>7. QED
    BY <1>2, <2>1, <2>2, <2>5, <2>6, AnsweringKeeps
<1>9. QED
  BY <1>3, <1>4, <1>5, <1>6, <1>7, <1>8

(* The calls about the turn itself, and about its queue row. *)
LEMMA TurnCallsKeepFences ==
    ASSUME ProtocolInv, FenceInv, NEW e \in Executions,
           \/ ClaimCall(e) \/ BeginCall(e) \/ RecoverCall(e)
           \/ FinalizeCall(e) \/ QueueCall(e)
    PROVE  FenceInv'
<1> DEFINE t == exec[e].tok  g == exec[e].gen
<1>1. ExecTypeOK /\ StoreInv /\ gen \in Nat
  BY DEF ProtocolInv, TypeOK, StoreInv, StoreTypeOK, CountersOK
<1>2. ASSUME NEW c, GiveUp(c)
      PROVE  Calm
  BY <1>1, <1>2, CalmCalls DEF GiveUp
<1>3. CASE ClaimCall(e)
  <2>1. gen' \in Nat
    <3>1. UNCHANGED storeVars \/ \E out \in ClaimOutcome : ClaimTurn(t, out)
      BY <1>3 DEF ClaimCall, GiveUp
    <3>2. QED
      BY <1>1, <3>1 DEF ClaimTurn, storeVars
  <2>2. /\ exec[e].pc \in {"claim", "reject"} /\ Untold
        /\ UNCHANGED netVars \/ GiveUp(CallOf(e, "claim"))
        /\ \/ Ends(e)
           \/ /\ Alone(e) /\ exec'[e].tok = exec[e].tok
              /\ exec'[e].pc \in {"recover", "finalize", "prepare"}
        /\ \/ GiveUp(CallOf(e, "claim")) \/ UNCHANGED storeVars
           \/ \E out : ClaimTurn(t, out)
    BY <1>1, <1>3, <2>1, ClaimCallDoes DEF Claims, Untold
  <2>3. Calm
    BY <1>1, <1>2, <2>2, CalmCalls
  <2>4. Active(e) /\ NoNewEffectCall
    BY <2>2, OtherCalls, OtherCallsLeft DEF Active
  <2>5. ~PastStart(e)' \/ Ends(e)
    BY <2>2 DEF PastStart
  <2>6. QED
    BY <2>2, <2>3, <2>4, <2>5, LeavingKeeps
<1>4. CASE BeginCall(e)
  <2>1. exec[e].pc = "prepare" /\ Untold /\ Active(e)
    BY <1>1, <1>4, BeginCallDoes DEF Active
  <2>2. CASE Withdraws(e) /\ (Local \/ GiveUp(CallOf(e, "begin")))
    <3>1. Calm
      BY <1>1, <1>2, <2>2, CalmCalls DEF Local
    <3>2. NoNewEffectCall
      BY <2>2, OtherCalls, OtherCallsLeft DEF Local
    <3>3. QED
      BY <2>1, <2>2, <3>1, <3>2, LeavingKeeps
  <2>3. CASE /\ UNCHANGED netVars /\ BeginExecution(t, g, "started")
             /\ Becomes(e, "provider", exec[e].arg, exec[e].tool, exec[e].abort)
    <3>1. NoNewEffectCall
      BY <2>3, OtherCallsLeft
    <3>2. OneHolder'
      BY <2>1, <2>3, HoldsNothingNew, HoldersKept DEF FenceInv, Becomes, Keeps
    <3>3. QED
      BY <2>1, <2>3, <3>1, <3>2, BeginKeeps DEF Becomes
  <2>4. QED
    BY <1>1, <1>4, <2>2, <2>3, BeginCallDoes
<1>5. CASE RecoverCall(e)
  <2>1. /\ exec[e].pc = "recover" /\ Untold
        /\ UNCHANGED netVars \/ GiveUp(CallOf(e, "recover"))
        /\ \/ Ends(e)
           \/ Alone(e) /\ exec'[e].tok = exec[e].tok /\ exec'[e].pc = "finalize"
        /\ \/ GiveUp(CallOf(e, "recover"))
           \/ \E out : RecoverTurn(t, g, exec[e].arg, out)
    BY <1>1, <1>5, RecoverCallDoes DEF Becomes, Keeps
  <2>2. Calm
    BY <1>1, <1>2, <2>1, CalmCalls
  <2>3. Active(e) /\ NoNewEffectCall
    BY <2>1, OtherCalls, OtherCallsLeft DEF Active
  <2>4. ~PastStart(e)' \/ Ends(e)
    BY <2>1 DEF PastStart
  <2>5. QED
    BY <2>1, <2>2, <2>3, <2>4, LeavingKeeps
<1>6. CASE FinalizeCall(e)
  <2>1. /\ exec[e].pc = "finalize" /\ Untold
        /\ UNCHANGED netVars \/ GiveUp(CallOf(e, "finalize"))
        /\ \/ Withdraws(e)
           \/ /\ Alone(e) /\ exec'[e].tok = exec[e].tok
              /\ exec'[e].pc \in {"finalize", "complete", "reconcile"}
        /\ \/ GiveUp(CallOf(e, "finalize")) \/ UNCHANGED storeVars
           \/ \E s, out : FinalizeTurn(t, g, s, out)
    BY <1>1, <1>6, FinalizeCallDoes DEF Becomes, Keeps, Local
  <2>2. Calm
    BY <1>1, <1>2, <2>1, CalmCalls
  <2>3. Active(e) /\ NoNewEffectCall
    BY <2>1, OtherCalls, OtherCallsLeft DEF Active
  <2>4. ~PastStart(e)' \/ Withdraws(e)
    BY <2>1 DEF PastStart
  <2>5. QED
    BY <2>1, <2>2, <2>3, <2>4, LeavingKeeps
<1>7. CASE QueueCall(e)
  <2>1. /\ exec[e].pc \in {"complete", "reconcile"} /\ Untold /\ Ends(e)
        /\ \/ UNCHANGED netVars \/ GiveUp(CallOf(e, "recover"))
           \/ GiveUp(CallOf(e, "complete"))
        /\ \/ \E c : GiveUp(c)
           \/ \E out : CompleteQueueJob(t, out)
           \/ \E out : RecoverTurn(t, g, exec[e].arg, out)
    BY <1>1, <1>7, QueueCallDoes
  <2>2. Calm
    BY <1>1, <1>2, <2>1, CalmCalls
  <2>3. Active(e) /\ NoNewEffectCall
    BY <2>1, OtherCalls, OtherCallsLeft DEF Active
  <2>4. QED
    BY <2>1, <2>2, <2>3, LeavingKeeps
<1>8. QED
  BY <1>3, <1>4, <1>5, <1>6, <1>7

(* A call about an effect, given up on, was about to tell the truth. *)
LEMMA EffectCallsTellTheTruth ==
    ASSUME ProtocolInv, FenceInv, NEW e \in Executions, Withdraws(e), Untold,
           \/ GiveUp(CallOf(e, "reserve")) /\ exec[e].pc = "reserve"
           \/ GiveUp(CallOf(e, "beginEffect")) /\ exec[e].pc = "beginEffect"
           \/ GiveUp(CallOf(e, "settle")) /\ exec[e].pc \in {"unreserve", "settle"}
    PROVE  FenceInv'
<1>1. /\ PastStart(e) /\ Active(e) /\ KnowsItsEffect(e) /\ UNCHANGED storeVars
      /\ exec[e].pc = "unreserve" => exec[e].arg = "cancelled"
  BY DEF PastStart, Active, FenceInv, EffectsFenced, GiveUp, ProtocolInv,
         ExecutionsHold, ExecOK
<1>2. \A c \in late' : c \in late \/ TellsTheTruth(c)'
  BY <1>1 DEF GiveUp, CallOf, Call, TellsTheTruth, KnowsItsEffect, BeforeEffect,
     storeVars, Untold
<1>3. LedgerTellsTruth' /\ AdapterInvokedOnce'
  BY <1>1 DEF FenceInv, LedgerTellsTruth, AdapterInvokedOnce, storeVars, Untold
<1>4. QED
  BY <1>1, <1>2, <1>3, WithdrawingKeeps DEF SameRun, storeVars, Untold

(* An error, or an outcome found in the place of the reservation. *)
LEMMA AnswersFoundKeep ==
    ASSUME ProtocolInv, FenceInv, NEW e \in Executions, Local, Untold,
           exec[e].pc \in {"reserve", "unreserve", "beginEffect", "settle"},
           \/ Withdraws(e)
           \/ /\ effect[exec[e].tool] \in SettledState
              /\ Becomes(e, "stream", None, None, exec[e].abort)
    PROVE  FenceInv'
<1>1. PastStart(e) /\ Active(e) /\ KnowsItsEffect(e) /\ providerCalls = 1
  BY DEF PastStart, Active, FenceInv, EffectsFenced, ProviderFenced
<1>2. SameRun /\ UNCHANGED <<late, effect>>
  BY DEF Local, SameRun, storeVars, netVars
<1>3. LedgerTellsTruth' /\ AdapterInvokedOnce'
  BY <1>2 DEF FenceInv, LedgerTellsTruth, AdapterInvokedOnce, Untold
<1>4. CASE Withdraws(e)
  BY <1>1, <1>2, <1>3, <1>4, WithdrawingKeeps DEF Untold
<1>5. CASE /\ effect[exec[e].tool] \in SettledState
           /\ Becomes(e, "stream", None, None, exec[e].abort)
  <2>1. \A x \in Effects : ~OpenFor(x)
    BY <1>1, <1>5 DEF KnowsItsEffect, OpenFor, Blocking, SettledState
  <2>2. KnowsItsEffect(e)' /\ PastStart(e)'
    BY <1>2, <1>5, <2>1 DEF KnowsItsEffect, OpenFor, Becomes, BeforeEffect, PastStart
  <2>3. QED
    BY <1>1, <1>2, <1>3, <1>5, <2>2, AnsweringKeeps DEF Becomes, Untold
<1>6. QED
  BY <1>4, <1>5

(* The calls about an effect. *)
LEMMA EffectCallsKeepFences ==
    ASSUME ProtocolInv, FenceInv, NEW e \in Executions,
           ReserveCall(e) \/ UnreserveCall(e) \/ BeginEffectCall(e) \/ SettleCall(e)
    PROVE  FenceInv'
<1> DEFINE x == exec[e].tool  t == exec[e].tok  g == exec[e].gen
<1>1. exec[e].pc \in {"reserve", "unreserve", "beginEffect", "settle"}
  BY DEF ReserveCall, UnreserveCall, BeginEffectCall, SettleCall
<1>2. PastStart(e) /\ Active(e) /\ KnowsItsEffect(e) /\ providerCalls = 1
  BY <1>1 DEF PastStart, Active, FenceInv, EffectsFenced, ProviderFenced
<1>3. /\ EffectCallOK(e) /\ x \in Effects
      /\ effect \in [Effects -> EffectState]
      /\ exec[e].pc = "settle" => exec[e].arg \in Outcomes
      /\ \A y \in Effects \ {x} : ~OpenFor(y)
  BY <1>1, <1>2 DEF ProtocolInv, TypeOK, StoreInv, EffectCallOK, ExecutionsHold,
     ExecOK, EffectAt, StoreTypeOK, ColumnsOK, KnowsItsEffect
<1>4. CASE ReserveCall(e)
  <2>1. CASE /\ exec[e].pc = "reserve" /\ Untold
             /\ UNCHANGED netVars
             /\ \E out \in ReserveOutcome : ReserveEffect(x, t, g, out)
             /\ effect'[x] = "reserved"
             /\ Becomes(e, "reserved", exec[e].arg, x, exec[e].abort)
    <3>1. /\ effect[x] = "none" /\ SameRun
          /\ effect' = [effect EXCEPT ![x] = "reserved"]
      BY <1>2, <1>3, <2>1 DEF ReserveEffect, storeVars, queueVars, SameRun,
         KnowsItsEffect, OpenFor, Blocking, BeforeEffect
    <3>2. \A y \in Effects : effect'[y] = IF y = x THEN "reserved" ELSE effect[y]
      BY <1>3, <3>1
    <3>3. KnowsItsEffect(e)' /\ PastStart(e)'
      BY <1>3, <2>1, <3>2 DEF KnowsItsEffect, OpenFor, Becomes, BeforeEffect, PastStart
    <3>4. LedgerTellsTruth' /\ AdapterInvokedOnce'
      BY <2>1, <3>1, <3>2 DEF FenceInv, LedgerTellsTruth, AdapterInvokedOnce, Untold
    <3>5. QED
      BY <1>2, <2>1, <3>1, <3>3, <3>4, AnsweringKeeps DEF Becomes, Untold, netVars
  <2>2. QED
    BY <1>1, <1>3, <1>4, <2>1, ReserveCallDoes, EffectCallsTellTheTruth, AnswersFoundKeep
<1>5. CASE UnreserveCall(e)
  <2>1. CASE /\ exec[e].pc = "unreserve" /\ Untold
             /\ UNCHANGED netVars /\ Withdraws(e)
             /\ ReconcileEffect(x, t, g, "cancelled", "reconciled")
    <3>1. /\ effect[x] = "reserved" /\ SameRun
          /\ effect' = [effect EXCEPT ![x] = "cancelled"]
      BY <1>2, <2>1 DEF ReconcileEffect, turnVars, queueVars, SameRun,
         KnowsItsEffect, BeforeEffect
    <3>2. \A y \in Effects : effect'[y] = IF y = x THEN "cancelled" ELSE effect[y]
      BY <1>3, <3>1
    <3>3. LedgerTellsTruth' /\ AdapterInvokedOnce'
      BY <2>1, <3>1, <3>2 DEF FenceInv, LedgerTellsTruth, AdapterInvokedOnce, Untold
    <3>4. QED
      BY <1>2, <2>1, <3>1, <3>3, WithdrawingKeeps DEF Untold, netVars
  <2>2. QED
    BY <1>1, <1>3, <1>5, <2>1, UnreserveCallDoes, EffectCallsTellTheTruth, AnswersFoundKeep
<1>6. CASE BeginEffectCall(e)
  <2>1. CASE /\ exec[e].pc = "beginEffect" /\ Untold
             /\ UNCHANGED netVars /\ BeginEffect(x, t, g, "started")
             /\ Becomes(e, "adapter", exec[e].arg, x, exec[e].abort)
    <3>1. /\ effect[x] = "reserved" /\ SameRun
          /\ effect' = [effect EXCEPT ![x] = "started"]
      BY <1>2, <2>1 DEF BeginEffect, CanBegin, queueVars, SameRun
    <3>2. \A y \in Effects : effect'[y] = IF y = x THEN "started" ELSE effect[y]
      BY <1>3, <3>1
    <3>3. KnowsItsEffect(e)' /\ PastStart(e)'
      <4>1. adapterRuns'[x] = 0
        BY <1>3, <2>1, <3>1 DEF FenceInv, LedgerTellsTruth, Untold
      <4>2. QED
        BY <1>3, <2>1, <3>2, <4>1
           DEF KnowsItsEffect, OpenFor, Becomes, BeforeEffect, PastStart
    <3>4. LedgerTellsTruth' /\ AdapterInvokedOnce'
      BY <2>1, <3>1, <3>2 DEF FenceInv, LedgerTellsTruth, AdapterInvokedOnce, Untold
    <3>5. QED
      BY <1>2, <2>1, <3>1, <3>3, <3>4, AnsweringKeeps DEF Becomes, Untold, netVars
  <2>2. QED
    BY <1>1, <1>3, <1>6, <2>1, BeginEffectCallDoes, EffectCallsTellTheTruth, AnswersFoundKeep
<1>7. CASE SettleCall(e)
  <2>1. CASE /\ exec[e].pc = "settle" /\ Untold /\ UNCHANGED netVars
             /\ ReconcileEffect(x, t, g, exec[e].arg, "reconciled")
             /\ \/ Withdraws(e)
                \/ /\ exec[e].arg \in {"succeeded", "failed", "reserved"}
                   /\ Becomes(e, "stream", None, None, exec[e].abort)
    <3>1. /\ effect[x] = "started" /\ adapterRuns[x] = 1 /\ SameRun
          /\ effect' = [effect EXCEPT ![x] = exec[e].arg]
          /\ exec[e].arg \in Outcomes
      BY <1>2, <1>3, <2>1 DEF ReconcileEffect, turnVars, queueVars, SameRun,
         KnowsItsEffect
    <3>2. \A y \in Effects : effect'[y] = IF y = x THEN exec[e].arg ELSE effect[y]
      BY <1>3, <3>1
    <3>3. LedgerTellsTruth' /\ AdapterInvokedOnce'
      BY <2>1, <3>1, <3>2
         DEF FenceInv, LedgerTellsTruth, AdapterInvokedOnce, Untold, Outcomes
    <3>4. CASE Withdraws(e)
      BY <1>2, <2>1, <3>1, <3>3, <3>4, WithdrawingKeeps DEF Untold, netVars
    <3>5. CASE /\ exec[e].arg \in {"succeeded", "failed", "reserved"}
               /\ Becomes(e, "stream", None, None, exec[e].abort)
      <4>1. KnowsItsEffect(e)' /\ PastStart(e)'
        BY <1>3, <3>1, <3>2, <3>5 DEF KnowsItsEffect, OpenFor, Blocking, Becomes,
           BeforeEffect, PastStart, Outcomes
      <4>2. QED
        BY <1>2, <2>1, <3>1, <3>3, <3>5, <4>1, AnsweringKeeps
           DEF Becomes, Untold, netVars
    <3>6. QED
      BY <2>1, <3>4, <3>5
  <2>2. QED
    BY <1>1, <1>3, <1>7, <2>1, SettleCallDoes, EffectCallsTellTheTruth, AnswersFoundKeep
<1>8. QED
  BY <1>4, <1>5, <1>6, <1>7

-----------------------------------------------------------------------------
(* Everybody else keeps the fences *)

(* A new token is nobody's yet. *)
LEMMA TakeJobKeepsFences ==
    ASSUME ProtocolInv, FenceInv, NEW e \in Executions, TakeJob(e)
    PROVE  FenceInv'
<1>1. ExecTypeOK /\ StoreInv /\ issued \in Nat /\ ExecutionsHold
  BY DEF ProtocolInv, TypeOK, StoreInv, StoreTypeOK, CountersOK
<1>2. ClaimPendingJob /\ issued' = issued + 1
  BY DEF TakeJob, Poll, PollLost, ClaimPendingJob
<1>3. /\ exec[e].pc = "idle" /\ Untold /\ UNCHANGED late
      /\ \/ UNCHANGED exec
         \/ /\ Alone(e) /\ exec'[e].pc \in {"claim", "reject"}
            /\ exec'[e].tok = issued'
  BY <1>1, <1>2, TakeJobDoes DEF Untold
<1>4. \A o \in Executions : Active(o) => exec[o].tok \in 1..issued
  BY <1>1 DEF ExecutionsHold, ExecOK
<1>5. OneHolder'
  BY <1>1, <1>2, <1>3, <1>4 DEF OneHolder, FenceInv, Active, Alone
<1>6. Calm
  BY <1>1, <1>2, CalmCalls
<1>7. Retreat
  BY <1>3 DEF Retreat, Stays, PastStart, Alone
<1>8. QED
  BY <1>3, <1>5, <1>6, <1>7, CalmKeeps DEF NoNewEffectCall

(* A signal does not move an execution. *)
LEMMA SignalKeepsFences ==
    ASSUME ProtocolInv, FenceInv, NEW e \in Executions, Signalled(e), Untold,
           UNCHANGED <<storeVars, netVars>>
    PROVE  FenceInv'
<1>1. OneHolder'
  BY DEF FenceInv, OneHolder, Signalled, Alone, Active
<1>2. Calm
  BY CalmCalls DEF ProtocolInv
<1>3. Retreat
  BY DEF Retreat, Stays, Signalled, Alone
<1>4. QED
  BY <1>1, <1>2, <1>3, CalmKeeps DEF NoNewEffectCall, netVars

(* A process that stops takes executions along, and leaves nothing behind. *)
LEMMA ProcessStepsKeepFences ==
    ASSUME ProtocolInv, FenceInv, NEW p \in Processes,
           Drain(p) \/ AbortSurvivors(p) \/ Crash(p) \/ Exit(p)
    PROVE  FenceInv'
<1>1. ExecTypeOK /\ SweepTypeOK
  BY DEF ProtocolInv, TypeOK
<1>2. CASE AbortSurvivors(p)
  BY <1>1, <1>2, AbortSurvivorsDoes, SignalKeepsFences
<1>3. CASE Drain(p) \/ Crash(p) \/ Exit(p)
  <2>1. /\ UNCHANGED <<storeVars, netVars>> /\ Untold
        /\ \A o \in Executions : exec'[o] \in {exec[o], Resting}
    <3>1. CASE Drain(p)
      BY <3>1 DEF Drain, execVars, Untold
    <3>2. CASE Crash(p) \/ Exit(p)
      BY <1>1, <3>2, ForgettingRecedes DEF Crash, Exit, Recedes, Untold
    <3>3. QED
      BY <1>3, <3>1, <3>2
  <2>2. NoNewHolder /\ Retreat
    BY <2>1 DEF NoNewHolder, Retreat, Stays, Active, PastStart, Resting
  <2>3. Calm /\ NoNewEffectCall
    BY <2>1, CalmCalls DEF ProtocolInv, NoNewEffectCall, netVars
  <2>4. QED
    BY <2>1, <2>2, <2>3, HoldersKept, CalmKeeps DEF FenceInv
<1>4. QED
  BY <1>2, <1>3

(* Steps of the store alone, of a sweep or of somebody outside. *)
LEMMA OutsideStepKeeps ==
    ASSUME FenceInv, Calm, UNCHANGED execVars, NoNewEffectCall
    PROVE  FenceInv'
<1>1. OneHolder' /\ Retreat /\ Untold
  BY DEF FenceInv, OneHolder, Active, execVars, Retreat, Stays, Untold
<1>2. QED
  BY <1>1, CalmKeeps

(* A sweep decides about the turn and touches no effect. *)
LEMMA SweepsKeepFences ==
    ASSUME ProtocolInv, FenceInv, NEW p \in Processes, BeginSweep(p) \/ Sweep(p)
    PROVE  FenceInv'
<1> DEFINE t == sweep[p].tok  g == sweep[p].gen
<1>1. SweepTypeOK /\ StoreInv /\ NetTypeOK /\ token \in Nat /\ gen \in Nat /\ SweepOK(p)
  BY DEF ProtocolInv, TypeOK, SweepsHold, StoreInv, StoreTypeOK, CountersOK
<1>2. UNCHANGED execVars
  BY DEF BeginSweep, Sweep
<1>3. ASSUME NEW name \in {"claim", "recover", "finalize"}, NEW arg,
             GiveUp(SweepCall(p, name, arg))
      PROVE  Calm /\ NoNewEffectCall
  BY <1>1, <1>3, CalmCalls
     DEF GiveUp, SweepCall, Call, NoNewEffectCall, EffectCall
<1>4. UNCHANGED netVars => NoNewEffectCall
  BY DEF NoNewEffectCall, netVars
<1>5. Calm /\ NoNewEffectCall
  <2>1. CASE BeginSweep(p)
    BY <1>1, <1>4, <2>1, BeginSweepDoes, CalmCalls
  <2>2. CASE SweepClaim(p)
    <3>1. gen' \in Nat
      <4>1. UNCHANGED storeVars \/ \E out \in ClaimOutcome : ClaimTurn(t, out)
        BY <2>2 DEF SweepClaim, GiveUp
      <4>2. QED
        BY <1>1, <4>1 DEF ClaimTurn, storeVars
    <3>2. \/ GiveUp(SweepCall(p, "claim", None))
          \/ UNCHANGED netVars /\ \E out : ClaimTurn(t, out)
      BY <1>1, <2>2, <3>1, SweepClaimDoes
    <3>3. QED
      BY <1>1, <1>3, <1>4, <3>2, CalmCalls
  <2>3. CASE SweepRecover(p)
    <3>1. \/ GiveUp(SweepCall(p, "recover", sweep[p].class))
          \/ UNCHANGED netVars /\ \E out : RecoverTurn(t, g, sweep[p].class, out)
      BY <1>1, <2>3, SweepRecoverDoes
    <3>2. QED
      BY <1>1, <1>3, <1>4, <3>1, CalmCalls
  <2>4. CASE SweepSnapshot(p)
    <3>1. sweep[p].class \in FailureClass
      BY <1>1, <2>4 DEF SweepSnapshot, SweepOK
    <3>2. UNCHANGED storeVars /\ UNCHANGED late
      BY <1>1, <2>4, <3>1, SweepSnapshotDoes
    <3>3. QED
      BY <1>1, <3>2, CalmCalls DEF NoNewEffectCall
  <2>5. CASE SweepFinalize(p)
    <3>1. sweep[p].class \in FailureClass
      BY <1>1, <2>5 DEF SweepFinalize, SweepOK
    <3>2. \/ GiveUp(SweepCall(p, "finalize", sweep[p].want))
          \/ UNCHANGED netVars /\ \E out : FinalizeTurn(t, g, sweep[p].want, out)
      BY <1>1, <2>5, <3>1, SweepFinalizeDoes
    <3>3. QED
      BY <1>1, <1>3, <1>4, <3>2, CalmCalls
  <2>6. QED
    BY <2>1, <2>2, <2>3, <2>4, <2>5 DEF Sweep, SweepStep
<1>6. QED
  BY <1>2, <1>5, OutsideStepKeeps

(* What is uncertain is nobody's any more, so the operator may settle it. *)
LEMMA OperatorKeepsFences ==
    ASSUME ProtocolInv, FenceInv, NEW x \in Effects, OperatorResolves(x)
    PROVE  FenceInv'
<1>1. effect[x] = "uncertain" /\ UNCHANGED <<netVars, execVars>>
  BY DEF OperatorResolves
<1>2. PICK target \in {"succeeded", "failed"} :
        ReconcileEffect(x, token, gen, target, "reconciled")
  BY DEF OperatorResolves
<1>3. SameRun /\ effect' = [effect EXCEPT ![x] = target]
  BY <1>2 DEF ReconcileEffect, turnVars, queueVars, SameRun
<1>4. \A y \in Effects : effect'[y] = IF y = x THEN target ELSE effect[y]
  BY <1>3 DEF ProtocolInv, StoreInv, StoreTypeOK, ColumnsOK
<1>5. NobodyAnswers
  BY <1>1 DEF NobodyAnswers, FenceInv, EffectsFenced, KnowsItsEffect, OpenFor,
     Blocking, BeforeEffect
<1>6. LedgerTellsTruth'
  BY <1>1, <1>4 DEF FenceInv, LedgerTellsTruth, execVars
<1>7. \A c \in late' : c \in late /\ (c.name \in EffectCall => c.tool \in Effects)
  BY <1>1 DEF ProtocolInv, CallsHold, CallOK, netVars
<1>8. QED
  BY <1>1, <1>3, <1>4, <1>5, <1>6, <1>7, EffectsMoveKeeps

(* A call that arrives late finds the fences where it needs them. *)
LEMMA LateCallKeepsFences ==
    ASSUME ProtocolInv, FenceInv, LateCallArrives
    PROVE  FenceInv'
<1>1. PICK c \in late : late' = late \ {c} /\ Serve(c)
  BY DEF LateCallArrives, LateArrival
<1>2. UNCHANGED execVars /\ CallOK(c) /\ StoreInv /\ NoNewEffectCall
  BY <1>1 DEF LateCallArrives, ProtocolInv, CallsHold, NoNewEffectCall
<1>3. CASE c.name \notin EffectCall
  <2>1. CASE BeginExecution(c.tok, c.gen, "started")
    <3>1. OneHolder' /\ Untold /\ UNCHANGED exec
      BY <1>2 DEF FenceInv, OneHolder, Active, execVars, Untold
    <3>2. QED
      BY <1>2, <2>1, <3>1, BeginKeeps
  <2>2. CASE ~BeginExecution(c.tok, c.gen, "started")
    <3>1. \/ \E out : \/ ClaimTurn(c.tok, out)
                      \/ CompleteQueueJob(c.tok, out)
                      \/ RecoverTurn(c.tok, c.gen, c.arg, out)
                      \/ FinalizeTurn(c.tok, c.gen, c.arg, out)
                      \/ out # "started" /\ BeginExecution(c.tok, c.gen, out)
      BY <1>1, <1>3, <2>2 DEF Serve, EffectCall
    <3>2. Calm
      BY <1>2, <3>1, CalmCalls
    <3>3. QED
      BY <1>2, <3>2, OutsideStepKeeps
  <2>3. QED
    BY <2>1, <2>2
<1>4. CASE c.name \in EffectCall
  <2> DEFINE x == c.tool
  <2>1. NobodyAnswers /\ TellsTheTruth(c) /\ x \in Effects
    BY <1>2, <1>4 DEF FenceInv, LateEffects, CallOK
  <2>2. \/ \E out : ReserveEffect(x, c.tok, c.gen, out)
        \/ c.name = "beginEffect" /\ \E out : BeginEffect(x, c.tok, c.gen, out)
        \/ c.name = "settle" /\ \E out : ReconcileEffect(x, c.tok, c.gen, c.arg, out)
    BY <1>1, <1>4 DEF Serve, EffectCall
  <2>3. PICK s \in EffectState :
          /\ SameRun /\ \A y \in Effects : effect'[y] = IF y = x THEN s ELSE effect[y]
          /\ \/ s = effect[x] /\ effect' = effect
             \/ effect[x] = "none" /\ s = "reserved"
             \/ effect[x] = "reserved" /\ s = "started"
             \/ effect[x] = "reserved" /\ s = "cancelled"
             \/ /\ effect[x] \in {"started", "uncertain"}
                /\ s \in Outcomes /\ adapterRuns[x] = 1
    <3>1. effect \in [Effects -> EffectState]
      BY <1>2 DEF StoreInv, StoreTypeOK, ColumnsOK
    <3>2. CASE UNCHANGED storeVars
      BY <2>1, <3>1, <3>2 DEF storeVars, SameRun
    <3>3. CASE \E out : ReserveEffect(x, c.tok, c.gen, out)
      BY <2>1, <3>1, <3>2, <3>3 DEF ReserveEffect, queueVars, SameRun, EffectState
    <3>4. CASE c.name = "beginEffect" /\ \E out : BeginEffect(x, c.tok, c.gen, out)
      BY <2>1, <3>1, <3>2, <3>4
         DEF BeginEffect, CanBegin, queueVars, SameRun, EffectState
    <3>5. CASE c.name = "settle" /\ \E out : ReconcileEffect(x, c.tok, c.gen, c.arg, out)
      <4>1. CASE ReconcileEffect(x, c.tok, c.gen, c.arg, "reconciled")
        <5>1. /\ effect' = [effect EXCEPT ![x] = c.arg] /\ c.arg \in LegalTarget(x)
              /\ SameRun
          BY <4>1 DEF ReconcileEffect, MaySettle, turnVars, queueVars, SameRun
        <5>2. \/ effect[x] = "reserved" /\ c.arg = "cancelled"
              \/ effect[x] \in {"started", "uncertain"} /\ c.arg \in Outcomes
          BY <5>1 DEF LegalTarget, Outcomes
        <5>3. c.arg \in Outcomes => adapterRuns[x] = 1
          BY <2>1, <3>5 DEF TellsTheTruth, Outcomes
        <5>4. c.arg \in EffectState
          BY <5>2 DEF EffectState, SettledState, Outcomes
        <5>5. QED
          BY <2>1, <3>1, <5>1, <5>2, <5>3, <5>4
      <4>2. QED
        BY <3>2, <3>5, <4>1 DEF ReconcileEffect
    <3>6. QED
      BY <2>2, <3>3, <3>4, <3>5
  <2>4. LedgerTellsTruth'
    BY <1>2, <2>1, <2>3 DEF FenceInv, LedgerTellsTruth, execVars, Outcomes
  <2>5. \A y \in Effects : effect[y] # "none" => effect'[y] # "none"
    BY <2>3 DEF Outcomes
  <2>6. \A d \in late' : d \in late /\ (d.name \in EffectCall => d.tool \in Effects)
    BY <1>1 DEF ProtocolInv, CallsHold, CallOK
  <2>7. QED
    BY <1>2, <2>1, <2>3, <2>4, <2>5, <2>6, EffectsMoveKeeps
<1>5. QED
  BY <1>3, <1>4

-----------------------------------------------------------------------------
(* The invariant of the fences *)

(* Before the first poll there is nothing to fence. *)
LEMMA InitIsFenced == Init => FenceInv
<1> SUFFICES ASSUME Init PROVE FenceInv
  OBVIOUS
<1>1. \A e \in Executions : ~Active(e) /\ ~PastStart(e) /\ exec[e].pc # "provider"
  BY DEF Init, ExecInit, Resting, Active, PastStart
<1>2. OneHolder /\ Fenced /\ ProviderFenced /\ EffectsFenced /\ LateEffects
  BY <1>1 DEF Init, ExecInit, NetInit, OneHolder, Fenced, ProviderFenced,
     EffectsFenced, LateEffects
<1>3. LedgerTellsTruth /\ AdapterInvokedOnce
  BY DEF Init, ExecInit, StoreInit, LedgerTellsTruth, AdapterInvokedOnce
<1>4. QED
  BY <1>2, <1>3 DEF FenceInv

(* Every step of the system keeps the fences. *)
LEMMA NextIsFenced ==
    ProtocolInv /\ FenceInv /\ [Next]_vars => FenceInv'
<1> SUFFICES ASSUME ProtocolInv, FenceInv, [Next]_vars PROVE FenceInv'
  OBVIOUS
<1>1. StoreInv /\ ExecTypeOK
  BY DEF ProtocolInv, TypeOK
<1>2. UNCHANGED netVars => NoNewEffectCall
  BY DEF NoNewEffectCall, netVars
<1>3. ASSUME NEW e \in Executions, Execute(e)
      PROVE  FenceInv'
  BY <1>3, TurnCallsKeepFences, StreamStepsKeepFences, EffectCallsKeepFences
     DEF Execute, ExecutorStep
<1>4. ASSUME NEW e \in Executions,
             WorkerTimeoutFires(e) \/ CancellationPoll(e) \/ OwnSignalAborts(e)
      PROVE  FenceInv'
  BY <1>1, <1>4, SignalSteps, SignalKeepsFences
<1>5. CASE UserCancels \/ JobAges \/ HeartbeatLapses \/ UNCHANGED vars
  BY <1>1, <1>2, <1>5, CalmCalls, OutsideStepKeeps
     DEF UserCancels, JobAges, HeartbeatLapses, vars
<1>6. QED
  BY <1>3, <1>4, <1>5, TakeJobKeepsFences, SweepsKeepFences, ProcessStepsKeepFences,
     OperatorKeepsFences, LateCallKeepsFences DEF Next

(***************************************************************************)
(* The inductive invariant: one execution at a time is past the start      *)
(* fence and knows where its effect stands; what was given up on told the  *)
(* truth.                                                                  *)
(***************************************************************************)
THEOREM FenceInvariant == Spec => []FenceInv
BY ProtocolInvariant, InitIsFenced, NextIsFenced, PTL DEF Spec

(* The start fence is granted once, so the provider is asked once. *)
THEOREM ProviderIsInvokedOnce == Spec => []ProviderInvokedOnce
<1>1. FenceInv => ProviderInvokedOnce
  BY DEF FenceInv, ProviderFenced, ProviderInvokedOnce
<1>2. QED
  BY <1>1, FenceInvariant, PTL

(* Only the one that began an effect invokes its adapter. *)
THEOREM AdapterIsInvokedOnce == Spec => []AdapterInvokedOnce
<1>1. FenceInv => AdapterInvokedOnce
  BY DEF FenceInv
<1>2. QED
  BY <1>1, FenceInvariant, PTL

(* What the ledger says of an effect is what happened to it. *)
THEOREM LedgerIsTrue == Spec => []LedgerTellsTruth
<1>1. FenceInv => LedgerTellsTruth
  BY DEF FenceInv
<1>2. QED
  BY <1>1, FenceInvariant, PTL

(* A zombie never answers beside its successor. *)
THEOREM OneExecutionAnswers == Spec => []OneAnswering
<1>1. FenceInv => OneAnswering
  BY DEF FenceInv, Fenced, OneAnswering
<1>2. QED
  BY <1>1, FenceInvariant, PTL

(* A turn that is back in the queue was never past the fence. *)
THEOREM RequeuedIsUntouched == Spec => []RequeuedLeavesNoTrace
<1>1. ProtocolInv /\ FenceInv => RequeuedLeavesNoTrace
  BY DEF ProtocolInv, StoreInv, QueuedIsPristine, FenceInv, ProviderFenced,
     LedgerTellsTruth, RequeuedLeavesNoTrace
<1>2. QED
  BY <1>1, ProtocolInvariant, FenceInvariant, PTL
=============================================================================
