------------------------ MODULE ChatTurnOutcomeProofs ------------------------
(***************************************************************************)
(* How a turn may end, for any set of effects, executions and processes:   *)
(* completed or failed only when the outside world is known.               *)
(*                                                                         *)
(* A turn is finalized by a call that was decided on earlier, and much may *)
(* happen in between: other executions of the same turn go on, calls given *)
(* up on arrive.  OutcomeInv says what a decision still knows then.  A     *)
(* decision to complete knows that every effect is settled and that nobody *)
(* is left to open another.  A decision to fail knows that nothing begun   *)
(* is unsettled, and that nobody who could still begin something will: an  *)
(* execution that shares its token has seen its signal aborted, because it *)
(* is a zombie (this is where the sweep relies on the heartbeat), and a    *)
(* call given up on finds nothing it could begin.                          *)
(*                                                                         *)
(* The last part is what the user is promised: the store, the executions   *)
(* and the sweeps together implement TurnLifecycle.  It needs everything   *)
(* known of a state: that the model is asked once, and only while the turn *)
(* is answering, is FenceInv and Alive of OutcomeInv; that a completed     *)
(* turn did answer is what a decision to complete still knows when it is   *)
(* carried out.                                                            *)
(***************************************************************************)
EXTENDS ChatTurnFenceProofs

-----------------------------------------------------------------------------
(* The invariant of the outcome *)

(* A slot at rest is nobody's zombie. *)
Rested == \A e \in Executions : exec[e].zombie => Active(e)

(* The worker timeout aborts the signal of the zombie it makes. *)
ZombiesAborted ==
    \A e \in Executions : exec[e].zombie /\ Interruptible(e) => Aborted(e)

(* Whoever still works with the token t is a zombie. *)
Abandoned(t) == \A e \in Executions : Active(e) /\ exec[e].tok = t => exec[e].zombie

(* What a sweep takes over, or may take over, is abandoned. *)
SweptIsAbandoned ==
    /\ stalled /\ jobStatus = "processing" => Abandoned(token)
    /\ \A p \in Processes : sweep[p].pc # "idle" => Abandoned(sweep[p].tok)

BeforeBegin == {"claim", "reject", "prepare"}

(* As long as the owner of the job has not asked for the start, nobody has. *)
Unstarted ==
    \A e \in Executions : exec[e].pc \in BeforeBegin =>
        /\ OwnsJob(exec[e].tok) => ~started
        /\ \A c \in late : c.name = "begin" => c.tok # exec[e].tok

(* The status s is decided on for the generation g, under the token t. *)
Resolved(t, g, s) ==
    \/ \E e \in Executions :
         exec[e].pc = "finalize" /\ exec[e].tok = t /\ exec[e].gen = g /\ exec[e].arg = s
    \/ \E p \in Processes :
         /\ sweep[p].pc \in {"snapshot", "finalize"}
         /\ sweep[p].tok = t /\ sweep[p].gen = g /\ sweep[p].want = s
    \/ \E c \in late : c.name = "finalize" /\ c.tok = t /\ c.gen = g /\ c.arg = s

(* Whoever works with the token has seen its signal aborted. *)
Interrupted(t) ==
    \A e \in Executions :
        Active(e) /\ exec[e].tok = t /\ Interruptible(e) => Aborted(e)

Begun == {"beginEffect", "adapter", "settle"}

(* Nothing begun is unsettled, and nobody is about to begin anything. *)
NothingBegun ==
    /\ \A x \in Effects : effect[x] \notin {"started", "uncertain"}
    /\ \A c \in late : c.name = "beginEffect" => effect[c.tool] # "reserved"
    /\ \A e \in Executions : exec[e].pc \notin Begun

(* Everything is settled, and nobody is left to do anything. *)
AllSettled ==
    /\ started /\ providerCalls = 1
    /\ \A x \in Effects : ~OpenFor(x)
    /\ NobodyAnswers
    /\ \A c \in late : c.name \notin EffectCall

(* What a decision for s under the token t knows. *)
Sound(t, s) ==
    /\ token = t
    /\ Interrupted(t)
    /\ s = "failed" => NothingBegun
    /\ s = "completed" => AllSettled

DecisionsHold ==
    /\ \A e \in Executions : exec[e].pc = "finalize" /\ CurrentRun(exec[e].gen) =>
         Sound(exec[e].tok, exec[e].arg)
    /\ \A p \in Processes :
         sweep[p].pc \in {"snapshot", "finalize"} /\ CurrentRun(sweep[p].gen) =>
         Sound(sweep[p].tok, sweep[p].want)
    /\ \A c \in late : c.name = "finalize" /\ CurrentRun(c.gen) => Sound(c.tok, c.arg)

(* Whoever answers and may go on answers a turn that is not closed. *)
Alive == \A e \in Executions : PastStart(e) /\ ~Aborted(e) => status = "running"

OutcomeInv ==
    /\ Rested
    /\ ZombiesAborted
    /\ SweptIsAbandoned
    /\ Unstarted
    /\ DecisionsHold
    /\ Alive
    /\ OutcomeKnownAtEnd

(* Everything known of a state. *)
Known == ProtocolInv /\ FenceInv /\ OutcomeInv

-----------------------------------------------------------------------------
(* What a step may do, as far as decisions are concerned *)

(* An execution rests, or goes on with the claim it has. *)
Follows(o) ==
    /\ exec'[o].zombie /\ ~Active(o)' => exec[o].zombie /\ ~Active(o)
    /\ Active(o)' => Active(o) /\ exec'[o].tok = exec[o].tok
    /\ Active(o)' /\ exec[o].zombie => exec'[o].zombie
    /\ Interruptible(o)' =>
         /\ Interruptible(o)
         /\ Aborted(o) => Aborted(o)'
         /\ exec'[o].zombie => exec[o].zombie \/ Aborted(o)'
    /\ exec'[o].pc \in BeforeBegin => exec[o].pc \in BeforeBegin
    /\ PastStart(o)' => PastStart(o) \/ ~started
    /\ exec'[o].pc \in Begun => exec[o].pc \in Begun \/ (PastStart(o) /\ ~Aborted(o))

(* Or it starts on a job that was just taken. *)
Fresh(o) ==
    /\ ClaimPendingJob /\ UNCHANGED late
    /\ exec'[o].pc \in {"claim", "reject"} /\ exec'[o].tok = issued'
    /\ exec'[o].zombie => exec[o].zombie /\ ~Active(o)

ExecutionsFollow == \A o \in Executions : Follows(o) \/ Fresh(o)

(* An effect moves under the hand of one who answers, or by a late call. *)
Moved(x) ==
    \/ /\ effect[x] = "none" /\ effect'[x] = "reserved" /\ status = "running"
       /\ ~NobodyAnswers \/ \E c \in late : c.name \in EffectCall
    \/ /\ effect[x] = "reserved" /\ effect'[x] = "started" /\ status = "running"
       /\ \/ \E e \in Executions : exec[e].pc = "beginEffect"
          \/ \E c \in late : c.name = "beginEffect" /\ c.tool = x
    \/ effect[x] = "reserved" /\ effect'[x] = "cancelled"
    \/ effect[x] \in {"started", "uncertain"} /\ effect'[x] \in Outcomes

(* The call c was given up on by the execution that was about to make it. *)
LeftBehind(c) ==
    /\ c.name \in EffectCall => ~NobodyAnswers
    /\ c.name = "beginEffect" => \E e \in Executions : exec[e].pc = "beginEffect"
    /\ c.name = "begin" => \E e \in Executions :
         Active(e) /\ exec[e].tok = c.tok /\ exec'[e].pc \notin BeforeBegin
    /\ c.name = "finalize" => Resolved(c.tok, c.gen, c.arg)

(* A start that is recorded was asked for under the token of the job. *)
StartIsAskedFor ==
    ~started /\ started' =>
        \/ \E e \in Executions :
             Active(e) /\ exec[e].tok = token /\ exec'[e].pc \notin BeforeBegin
        \/ \E c \in late : c.name = "begin" /\ c.tok = token

(* A running turn that ends was decided about. *)
EndIsDecided ==
    status = "running" /\ status' \in Terminal =>
        \E t \in 1..issued : Resolved(t, gen, status')

Traced ==
    /\ \A x \in Effects : effect'[x] = effect[x] \/ Moved(x)
    /\ \A c \in late' : c \in late \/ LeftBehind(c)
    /\ providerCalls' = providerCalls \/ ~NobodyAnswers
    /\ StartIsAskedFor
    /\ EndIsDecided
    /\ stalled' /\ ~stalled => Abandoned(token)

(* A decision is an old one, or knows what it must. *)
ExecutionsDecide ==
    \A e \in Executions : exec'[e].pc = "finalize" =>
        \/ /\ exec[e].pc = "finalize" /\ exec'[e].tok = exec[e].tok
           /\ exec'[e].gen = exec[e].gen /\ exec'[e].arg = exec[e].arg
        \/ (CurrentRun(exec[e].gen) => Sound(exec[e].tok, exec[e].arg))'

SweepsDecide ==
    \A p \in Processes :
        /\ sweep'[p].pc # "idle" =>
             \/ sweep[p].pc # "idle" /\ sweep'[p].tok = sweep[p].tok
             \/ Abandoned(sweep'[p].tok) /\ sweep'[p].tok \in 1..issued
        /\ sweep'[p].pc \in {"snapshot", "finalize"} =>
             \/ /\ sweep[p].pc \in {"snapshot", "finalize"}
                /\ sweep'[p].tok = sweep[p].tok /\ sweep'[p].gen = sweep[p].gen
                /\ sweep'[p].want = sweep[p].want
             \/ (CurrentRun(sweep[p].gen) => Sound(sweep[p].tok, sweep[p].want))'

Accounted ==
    /\ ExecutionsFollow
    /\ Traced
    /\ ExecutionsDecide
    /\ SweepsDecide

-----------------------------------------------------------------------------
(* What every step of the store respects *)

StoreKeepsOrder ==
    /\ started => started'
    /\ status' = "running" =>
         \/ status = "running" /\ gen' = gen /\ token' = token
         \/ status = "queued" /\ gen' = gen + 1
    /\ status = "queued" => status' \in {"queued", "running", "cancelled"}
    /\ status = "running" /\ status' = "queued" => ~started
    /\ ~started /\ started' => status' = "running"
    /\ jobStatus' = "processing" =>
         \/ jobStatus = "processing" /\ token' = token /\ issued' = issued
         \/ token' = issued + 1 /\ issued' = issued + 1 /\ ~stalled'
    /\ effect' = effect \/ status' = status

(* The order in which the store lets a turn pass through its columns. *)
LEMMA StoreIsOrderly ==
    ASSUME StoreInv, [StoreNext]_storeVars
    PROVE  StoreKeepsOrder
<1>1. StoreInv'
  BY NextPreserves
<1>2. /\ status \in TurnStatus /\ jobStatus \in JobStatus
      /\ status = "running" => jobStatus = "processing"
      /\ token # NoToken <=> jobStatus = "processing"
      /\ jobStatus = "pending" => status = "queued"
  BY DEF StoreInv, StoreTypeOK, ColumnsOK, QueueAgreesWithTurn
<1>3. /\ status' = "running" => jobStatus' = "processing"
      /\ jobStatus' = "processing" => token' # NoToken
  BY <1>1 DEF StoreInv, QueueAgreesWithTurn
<1> USE DEF TurnStatus, JobStatus, Terminal, StoreKeepsOrder, NoToken
<1>4. CASE UNCHANGED storeVars
  BY <1>2, <1>4 DEF storeVars
<1>5. CASE ClaimPendingJob
  BY <1>2, <1>5 DEF ClaimPendingJob, turnVars
<1>6. CASE RequestCancel \/ ResidenceExpires \/ OwnerStalls
  BY <1>2, <1>3, <1>6 DEF RequestCancel, CancelQueuedTurn, CancelRunningTurn,
        ResidenceExpires, OwnerStalls, turnVars, queueVars
<1>7. ASSUME NEW t, CallClaim(t) \/ CallComplete(t)
      PROVE  StoreKeepsOrder
  BY <1>2, <1>3, <1>7 DEF CallClaim, CallComplete, ClaimTurn, CompleteQueueJob,
        storeVars, turnVars, queueVars
<1>8. ASSUME NEW t, NEW g, CallBegin(t, g)
      PROVE  StoreKeepsOrder
  BY <1>2, <1>3, <1>8 DEF CallBegin, BeginExecution, CurrentRun, RecordStart, storeVars
<1>9. ASSUME NEW t, NEW g, CallRecover(t, g)
      PROVE  StoreKeepsOrder
  <2>1. \/ UNCHANGED storeVars \/ (status \in Terminal /\ ReconcileQueueRow)
        \/ ~started /\ ScheduleRetry
    BY <1>9 DEF CallRecover, RecoverTurn, MayRetry, SafePreStart
  <2>2. QED
    BY <1>2, <1>3, <2>1 DEF ReconcileQueueRow, ScheduleRetry, turnVars, storeVars
<1>10. ASSUME NEW t, NEW g, CallFinalize(t, g)
       PROVE  StoreKeepsOrder
  BY <1>2, <1>3, <1>10 DEF CallFinalize, FinalizeTurn, CurrentRun, storeVars, queueVars
<1>11. ASSUME NEW x, NEW t, NEW g,
              CallReserve(x, t, g) \/ CallBeginEffect(x, t, g) \/ CallReconcile(x, t, g)
       PROVE  StoreKeepsOrder
  BY <1>2, <1>3, <1>11 DEF CallReserve, ReserveEffect, CallBeginEffect, BeginEffect,
        CallReconcile, ReconcileEffect, storeVars, turnVars, queueVars
<1>12. QED
  BY <1>4, <1>5, <1>6, <1>7, <1>8, <1>9, <1>10, <1>11 DEF StoreNext

-----------------------------------------------------------------------------
(* Such a step keeps the invariant of the outcome *)

(* What a step that accounts for itself may rely on. *)
Step == Known /\ ProtocolInv' /\ FenceInv' /\ [StoreNext]_storeVars /\ Accounted

(* Every step takes the turn, its generation and its tokens forward only. *)
LEMMA StepIsOrderly == ASSUME Step PROVE StoreKeepsOrder
BY StoreIsOrderly DEF Step, Known, ProtocolInv

(* The types a step relies on. *)
LEMMA StepIsTyped ==
    ASSUME Step
    PROVE  /\ issued \in Nat /\ gen \in Nat /\ issued' \in Nat /\ gen' \in Nat
           /\ token \in 0..issued
           /\ StoreInv /\ StoreInv'
BY DEF Step, Known, ProtocolInv, StoreInv, StoreTypeOK, CountersOK

(* What is abandoned stays so. *)
LEMMA AbandonedForGood ==
    ASSUME Step, NEW t \in 0..issued, Abandoned(t)
    PROVE  Abandoned(t)'
<1>1. \A o \in Executions : Fresh(o) => exec'[o].tok = issued + 1
  BY DEF Fresh, ClaimPendingJob
<1>2. QED
  BY <1>1, StepIsTyped DEF Step, Accounted, ExecutionsFollow, Follows, Abandoned, Active

(* What a decision knows it goes on knowing, as long as the run goes on. *)
LEMMA SoundForGood ==
    ASSUME Step, NEW t \in 1..issued, NEW s, NEW g \in 1..gen,
           CurrentRun(g)', CurrentRun(g) => Sound(t, s)
    PROVE  Sound(t, s)'
<1>1. /\ status = "running" /\ gen' = gen /\ token' = token /\ Sound(t, s)
  BY StepIsOrderly, StepIsTyped DEF StoreKeepsOrder, CurrentRun
<1>2. \A o \in Executions : Fresh(o) => exec'[o].tok = issued + 1 /\ FALSE
  BY <1>1, StepIsTyped DEF Fresh, ClaimPendingJob, StoreInv, QueueAgreesWithTurn
<1>3. \A o \in Executions : Follows(o)
  BY <1>2 DEF Step, Accounted, ExecutionsFollow
<1>4. Interrupted(t)'
  BY <1>1, <1>3 DEF Sound, Interrupted, Follows
<1>5. ASSUME s = "failed" PROVE NothingBegun'
  <2>1. NothingBegun
    BY <1>1, <1>5 DEF Sound
  <2>2. \A x \in Effects :
          /\ effect'[x] \notin {"started", "uncertain"}
          /\ effect'[x] = "reserved" => effect[x] \in {"reserved", "none"}
    BY <2>1 DEF Step, Accounted, Traced, Moved, NothingBegun, Begun
  <2>3. ASSUME NEW c \in late', c.name = "beginEffect"
        PROVE  effect'[c.tool] # "reserved"
    <3>1. c \in late
      BY <2>1, <2>3 DEF Step, Accounted, Traced, LeftBehind, NothingBegun, Begun
    <3>2. c.tool \in Effects /\ effect[c.tool] # "none"
      BY <2>3, <3>1 DEF Step, Known, ProtocolInv, CallsHold, CallOK, EffectCall,
         FenceInv, LateEffects, TellsTheTruth
    <3>3. QED
      BY <2>1, <2>2, <2>3, <3>1, <3>2 DEF NothingBegun
  <2>4. \A o \in Executions : exec'[o].pc \notin Begun
    <3>1. \A o \in Executions : PastStart(o) => exec[o].tok = t /\ Active(o) /\ Interruptible(o)
      BY <1>1, StepIsTyped DEF Step, Known, FenceInv, Fenced, Sound, StoreInv,
         QueueAgreesWithTurn, PastStart, Active, Interruptible
    <3>2. QED
      BY <1>1, <1>3, <2>1, <3>1 DEF Follows, NothingBegun, Sound, Interrupted
  <2>5. QED
    BY <2>2, <2>3, <2>4 DEF NothingBegun
<1>6. ASSUME s = "completed" PROVE AllSettled'
  <2>1. AllSettled
    BY <1>1, <1>6 DEF Sound
  <2>2. started' /\ providerCalls' = 1
    BY <2>1, StepIsOrderly DEF StoreKeepsOrder, Step, Accounted, Traced, AllSettled
  <2>3. \A x \in Effects : ~OpenFor(x)'
    BY <2>1 DEF Step, Accounted, Traced, Moved, AllSettled, OpenFor, Blocking
  <2>4. NobodyAnswers'
    BY <1>3, <2>1 DEF AllSettled, NobodyAnswers, Follows
  <2>5. \A c \in late' : c.name \notin EffectCall
    BY <2>1 DEF Step, Accounted, Traced, LeftBehind, AllSettled
  <2>6. QED
    BY <2>2, <2>3, <2>4, <2>5 DEF AllSettled
<1>7. QED
  BY <1>1, <1>4, <1>5, <1>6 DEF Sound

(* A zombie is an execution that was timed out, and stays aborted until it rests. *)
LEMMA ZombiesKept ==
    ASSUME Step
    PROVE  Rested' /\ ZombiesAborted'
<1>1. \A o \in Executions : Fresh(o) => ~exec'[o].zombie
  BY DEF Step, Known, OutcomeInv, Rested, Fresh
<1>2. \A o \in Executions : exec'[o].zombie => Active(o)'
  BY <1>1 DEF Step, Known, OutcomeInv, Rested, Accounted, ExecutionsFollow, Follows
<1>3. \A o \in Executions : exec'[o].zombie /\ Interruptible(o)' => Aborted(o)'
  BY <1>1 DEF Step, Known, OutcomeInv, ZombiesAborted, Accounted, ExecutionsFollow,
     Follows
<1>4. QED
  BY <1>2, <1>3 DEF Rested, ZombiesAborted

(* A claim that a sweep took over is not taken up again by anybody. *)
LEMMA SweptKept ==
    ASSUME Step
    PROVE  SweptIsAbandoned'
<1>1. /\ stalled /\ jobStatus = "processing" => Abandoned(token)
      /\ \A p \in Processes : sweep[p].pc # "idle" =>
           Abandoned(sweep[p].tok) /\ sweep[p].tok \in 1..issued
  BY DEF Step, Known, OutcomeInv, SweptIsAbandoned, ProtocolInv, SweepsHold, SweepOK
<1>2. ASSUME stalled', jobStatus' = "processing"
      PROVE  Abandoned(token)'
  <2>1. CASE jobStatus = "processing" /\ token' = token
    <3>1. Abandoned(token)
      BY <1>1, <1>2, <2>1 DEF Step, Accounted, Traced
    <3>2. \A t \in 0..issued : Abandoned(t) => Abandoned(t)'
      BY AbandonedForGood
    <3>3. \A o \in Executions : Active(o)' /\ exec'[o].tok = token => exec'[o].zombie
      BY <3>1, <3>2, StepIsTyped DEF Abandoned
    <3>4. QED
      BY <2>1, <3>3 DEF Abandoned
  <2>2. QED
    BY <1>2, <2>1, StepIsOrderly DEF StoreKeepsOrder
<1>3. ASSUME NEW p \in Processes, sweep'[p].pc # "idle"
      PROVE  Abandoned(sweep[p].tok)'
  <2>1. Abandoned(sweep'[p].tok) /\ sweep'[p].tok \in 1..issued
    BY <1>1, <1>3 DEF Step, Accounted, SweepsDecide
  <2>2. \A t \in 0..issued : Abandoned(t) => Abandoned(t)'
    BY AbandonedForGood
  <2>3. \A o \in Executions : Active(o)' /\ exec'[o].tok = sweep'[p].tok => exec'[o].zombie
    BY <2>1, <2>2, StepIsTyped DEF Abandoned
  <2>4. QED
    BY <2>3 DEF Abandoned
<1>4. QED
  BY <1>2, <1>3 DEF SweptIsAbandoned

(* Only the begin call of the owner starts the turn, and it makes one such call. *)
LEMMA UnstartedKept ==
    ASSUME Step
    PROVE  Unstarted'
<1>1. \A o \in Executions : Active(o) => exec[o].tok \in 1..issued
  BY DEF Step, Known, ProtocolInv, ExecutionsHold, ExecOK
<1>2. \A c \in late : c.tok \in 1..issued
  BY DEF Step, Known, ProtocolInv, CallsHold, CallOK
<1>3. ASSUME NEW e \in Executions, exec'[e].pc \in BeforeBegin
      PROVE  /\ OwnsJob(exec[e].tok)' => ~started'
             /\ \A c \in late' : c.name = "begin" => c.tok # exec'[e].tok
  <2>1. CASE Fresh(e)
    <3>1. status' = "queued" /\ ~started' /\ late' = late /\ exec'[e].tok = issued + 1
      BY <2>1, StepIsTyped
         DEF Fresh, ClaimPendingJob, turnVars, StoreInv, QueueAgreesWithTurn,
             QueuedIsPristine
    <3>2. QED
      BY <1>2, <3>1, StepIsTyped
  <2>2. CASE Follows(e)
    <3>1. /\ Active(e) /\ exec'[e].tok = exec[e].tok
          /\ exec[e].pc \in BeforeBegin
      BY <1>3, <2>2 DEF Follows, Active, BeforeBegin
    <3>2. /\ OwnsJob(exec[e].tok) => ~started
          /\ \A c \in late : c.name = "begin" => c.tok # exec[e].tok
      BY <3>1 DEF Step, Known, OutcomeInv, Unstarted
    <3>3. \A o \in Executions :
            Active(o) /\ exec[o].tok = exec[e].tok => o = e
      BY <3>1 DEF Step, Known, FenceInv, OneHolder
    <3>4. OwnsJob(exec[e].tok)' => OwnsJob(exec[e].tok)
      BY <1>1, <3>1, StepIsOrderly, StepIsTyped DEF OwnsJob, StoreKeepsOrder
    <3>5. OwnsJob(exec[e].tok)' => ~started'
      BY <1>3, <3>2, <3>3, <3>4 DEF Step, Accounted, Traced, StartIsAskedFor, OwnsJob
    <3>6. \A c \in late' : c.name = "begin" => c.tok # exec[e].tok
      BY <1>3, <3>2, <3>3 DEF Step, Accounted, Traced, LeftBehind
    <3>7. QED
      BY <3>1, <3>5, <3>6
  <2>3. QED
    BY <2>1, <2>2 DEF Step, Accounted, ExecutionsFollow
<1>4. QED
  BY <1>3 DEF Unstarted

(* What a decision knows stays true until it is carried out or overtaken. *)
LEMMA DecisionsKept ==
    ASSUME Step
    PROVE  DecisionsHold'
<1>1. \A t \in 1..issued, g \in 1..gen : \A s :
        CurrentRun(g)' /\ (CurrentRun(g) => Sound(t, s)) => Sound(t, s)'
  BY SoundForGood
<1>2. /\ \A e \in Executions : exec[e].pc = "finalize" =>
           /\ exec[e].tok \in 1..issued /\ exec[e].gen \in 1..gen
           /\ CurrentRun(exec[e].gen) => Sound(exec[e].tok, exec[e].arg)
      /\ \A p \in Processes : sweep[p].pc \in {"snapshot", "finalize"} =>
           /\ sweep[p].tok \in 1..issued /\ sweep[p].gen \in 1..gen
           /\ CurrentRun(sweep[p].gen) => Sound(sweep[p].tok, sweep[p].want)
      /\ \A c \in late : c.name = "finalize" =>
           /\ c.tok \in 1..issued /\ c.gen \in 1..gen
           /\ CurrentRun(c.gen) => Sound(c.tok, c.arg)
  BY DEF Step, Known, OutcomeInv, DecisionsHold, ProtocolInv, ExecutionsHold, ExecOK,
     Active, SweepsHold, SweepOK, CallsHold, CallOK
<1>3. ASSUME NEW t, NEW g, NEW s, Resolved(t, g, s), CurrentRun(g)'
      PROVE  Sound(t, s)'
  <2>1. t \in 1..issued /\ g \in 1..gen /\ (CurrentRun(g) => Sound(t, s))
    BY <1>2, <1>3 DEF Resolved
  <2>2. QED
    BY <1>1, <1>3, <2>1
<1>4. ASSUME NEW e \in Executions, exec'[e].pc = "finalize", CurrentRun(exec[e].gen)'
      PROVE  Sound(exec[e].tok, exec[e].arg)'
  <2>1. CASE /\ exec[e].pc = "finalize" /\ exec'[e].tok = exec[e].tok
             /\ exec'[e].gen = exec[e].gen /\ exec'[e].arg = exec[e].arg
    <3> DEFINE t == exec[e].tok  g == exec[e].gen  s == exec[e].arg
    <3>1. PICK tt, gg, ss : tt = t /\ gg = g /\ ss = s
      OBVIOUS
    <3>2. Resolved(tt, gg, ss)
      BY <2>1, <3>1 DEF Resolved
    <3>3. CurrentRun(gg)'
      BY <1>4, <2>1, <3>1 DEF CurrentRun
    <3>4. Sound(tt, ss)'
      BY <1>3, <3>2, <3>3
    <3>5. QED
      BY <2>1, <3>1, <3>4 DEF Sound, Interrupted
  <2>2. CASE (CurrentRun(exec[e].gen) => Sound(exec[e].tok, exec[e].arg))'
    BY <1>4, <2>2
  <2>3. QED
    BY <1>4, <2>1, <2>2 DEF Step, Accounted, ExecutionsDecide
<1>5. ASSUME NEW p \in Processes, sweep'[p].pc \in {"snapshot", "finalize"},
             CurrentRun(sweep[p].gen)'
      PROVE  Sound(sweep[p].tok, sweep[p].want)'
  <2>1. CASE /\ sweep[p].pc \in {"snapshot", "finalize"}
             /\ sweep'[p].tok = sweep[p].tok /\ sweep'[p].gen = sweep[p].gen
             /\ sweep'[p].want = sweep[p].want
    <3> DEFINE t == sweep[p].tok  g == sweep[p].gen  s == sweep[p].want
    <3>1. PICK tt, gg, ss : tt = t /\ gg = g /\ ss = s
      OBVIOUS
    <3>2. Resolved(tt, gg, ss)
      BY <2>1, <3>1 DEF Resolved
    <3>3. CurrentRun(gg)'
      BY <1>5, <2>1, <3>1 DEF CurrentRun
    <3>4. Sound(tt, ss)'
      BY <1>3, <3>2, <3>3
    <3>5. QED
      BY <2>1, <3>1, <3>4 DEF Sound, Interrupted
  <2>2. CASE (CurrentRun(sweep[p].gen) => Sound(sweep[p].tok, sweep[p].want))'
    BY <1>5, <2>2
  <2>3. QED
    BY <1>5, <2>1, <2>2 DEF Step, Accounted, SweepsDecide
<1>6. ASSUME NEW c \in late', c.name = "finalize", CurrentRun(c.gen)'
      PROVE  Sound(c.tok, c.arg)'
  <2>1. Resolved(c.tok, c.gen, c.arg)
    BY <1>6 DEF Step, Accounted, Traced, LeftBehind, Resolved
  <2>2. QED
    BY <1>3, <1>6, <2>1
<1>7. QED
  BY <1>4, <1>5, <1>6 DEF DecisionsHold

(* A running turn that ends is ended by somebody who knew. *)
LEMMA EndIsSound ==
    ASSUME Step, status = "running", status' \in Terminal
    PROVE  \E t \in 1..issued : Sound(t, status')
<1>1. PICK t \in 1..issued : Resolved(t, gen, status')
  BY DEF Step, Accounted, Traced, EndIsDecided
<1>2. CurrentRun(gen)
  BY DEF CurrentRun
<1>3. QED
  BY <1>1, <1>2 DEF Resolved, Step, Known, OutcomeInv, DecisionsHold

(* A turn is closed only after whoever answers it was aborted or has finished. *)
LEMMA AliveKept ==
    ASSUME Step
    PROVE  Alive'
<1> SUFFICES ASSUME NEW e \in Executions, PastStart(e)', ~Aborted(e)'
             PROVE  status' = "running"
  BY DEF Alive
<1>1. Interruptible(e)' /\ Interruptible(e) /\ Follows(e) /\ ~Aborted(e)
  BY DEF PastStart, Interruptible, Step, Accounted, ExecutionsFollow, Follows, Fresh
<1>2. CASE PastStart(e)
  <2>1. status = "running" /\ started /\ token = exec[e].tok /\ Active(e)
    BY <1>1, <1>2, StepIsTyped DEF Step, Known, OutcomeInv, Alive, FenceInv, Fenced,
       StoreInv, QueueAgreesWithTurn, PastStart, Active
  <2>2. status' \notin Terminal
    BY <1>1, <2>1, EndIsSound DEF Sound, Interrupted
  <2>3. status' \in TurnStatus
    BY StepIsTyped DEF StoreInv, StoreTypeOK, ColumnsOK
  <2>4. QED
    BY <2>1, <2>2, <2>3, StepIsOrderly DEF StoreKeepsOrder, TurnStatus
<1>3. CASE ~PastStart(e)
  <2>1. ~started /\ started'
    BY <1>1, <1>3 DEF Follows, Step, FenceInv, Fenced
  <2>2. QED
    BY <2>1, StepIsOrderly DEF StoreKeepsOrder
<1>4. QED
  BY <1>2, <1>3

(* Hence a turn that is closed as completed or failed has a known outcome. *)
LEMMA OutcomeKept ==
    ASSUME Step
    PROVE  OutcomeKnownAtEnd'
<1>1. status \in TurnStatus
  BY StepIsTyped DEF StoreInv, StoreTypeOK, ColumnsOK
<1>2. ASSUME status' \in {"completed", "failed"}
      PROVE  OutcomeKnownAtEnd'
  <2>1. CASE status \in Terminal
    <3>1. status' = status
      BY <2>1, StepIsTyped, NextKeepsFinal DEF KeepsWhatIsFinal, Step, storeVars
    <3>2. status # "running"
      BY <2>1 DEF Terminal
    <3>3. QED
      BY <3>1, <3>2 DEF Step, Known, OutcomeInv, OutcomeKnownAtEnd, Accounted, Traced,
         Moved, Blocking, Outcomes
  <2>2. CASE status = "running"
    <3>1. PICK t \in 1..issued : Sound(t, status')
      BY <1>2, <2>2, EndIsSound DEF Terminal
    <3>2. effect' = effect
      BY <1>2, <2>2, StepIsOrderly DEF StoreKeepsOrder
    <3>3. QED
      BY <3>1, <3>2 DEF Sound, NothingBegun, AllSettled, OpenFor, OutcomeKnownAtEnd,
         Blocking
  <2>3. CASE status = "queued"
    BY <1>2, <2>3, StepIsOrderly DEF StoreKeepsOrder
  <2>4. QED
    BY <1>1, <2>1, <2>2, <2>3 DEF TurnStatus
<1>3. QED
  BY <1>2 DEF OutcomeKnownAtEnd

(* Together: a step that accounts for itself keeps the invariant. *)
LEMMA StepKeepsOutcome ==
    ASSUME Step
    PROVE  OutcomeInv'
BY ZombiesKept, SweptKept, UnstartedKept, DecisionsKept, AliveKept, OutcomeKept
   DEF OutcomeInv

-----------------------------------------------------------------------------
(* Pieces of the account a step gives *)

(* Calls that end no turn, begin nothing and let nobody stall. *)
Quiet ==
    /\ effect' = effect /\ started' = started
    /\ stalled' => stalled
    /\ status = "running" => status' \notin Terminal

(* Every procedure but a start, a finalization and those of effects is quiet. *)
LEMMA QuietCalls ==
    ASSUME StoreInv,
           \/ UNCHANGED storeVars \/ ClaimPendingJob \/ RequestCancel \/ ResidenceExpires
           \/ \E t, out : ClaimTurn(t, out) \/ CompleteQueueJob(t, out)
           \/ \E t, g, c, out : RecoverTurn(t, g, c, out)
           \/ \E t, g, s, out : out # "finalized" /\ FinalizeTurn(t, g, s, out)
           \/ \E t, g, out : out # "started" /\ BeginExecution(t, g, out)
    PROVE  Quiet
<1> USE DEF Quiet, Terminal
<1>1. CASE UNCHANGED storeVars \/ ClaimPendingJob \/ RequestCancel \/ ResidenceExpires
  BY <1>1 DEF storeVars, ClaimPendingJob, RequestCancel, CancelQueuedTurn,
     CancelRunningTurn, ResidenceExpires, turnVars, queueVars
<1>2. ASSUME NEW t, NEW out, ClaimTurn(t, out) \/ CompleteQueueJob(t, out)
      PROVE  Quiet
  BY <1>2 DEF ClaimTurn, CompleteQueueJob, storeVars, queueVars, turnVars
<1>3. ASSUME NEW t, NEW g, NEW c, NEW out, RecoverTurn(t, g, c, out)
      PROVE  Quiet
  <2>1. UNCHANGED storeVars \/ (status \in Terminal /\ ReconcileQueueRow) \/ ScheduleRetry
    BY <1>3 DEF RecoverTurn
  <2>2. QED
    BY <2>1 DEF storeVars, turnVars, ReconcileQueueRow, ScheduleRetry
<1>4. ASSUME NEW t, NEW g, NEW s, NEW out, out # "finalized", FinalizeTurn(t, g, s, out)
      PROVE  Quiet
  BY <1>4 DEF FinalizeTurn, storeVars
<1>5. ASSUME NEW t, NEW g, NEW out, out # "started", BeginExecution(t, g, out)
      PROVE  Quiet
  BY <1>5 DEF BeginExecution, storeVars
<1>6. QED
  BY <1>1, <1>2, <1>3, <1>4, <1>5

(* A quiet step is traced by what it leaves under way. *)
LEMMA QuietIsTraced ==
    ASSUME Quiet, providerCalls' = providerCalls \/ ~NobodyAnswers,
           \A c \in late' : c \in late \/ LeftBehind(c)
    PROVE  Traced
BY DEF Quiet, Traced, StartIsAskedFor, EndIsDecided

(* A turn that is finalized was decided about. *)
LEMMA FinalizingIsTraced ==
    ASSUME StoreInv, NEW t \in 1..issued, NEW g, NEW s, NEW out,
           FinalizeTurn(t, g, s, out), Resolved(t, g, s),
           UNCHANGED <<late, providerCalls>>
    PROVE  Traced
<1>1. CASE out = "finalized"
  <2>1. /\ gen = g /\ status' = s
        /\ UNCHANGED <<started, stalled, effect>>
    BY <1>1 DEF FinalizeTurn, CurrentRun, queueVars
  <2>2. QED
    BY <2>1 DEF Traced, StartIsAskedFor, EndIsDecided
<1>2. CASE out # "finalized"
  BY <1>2, QuietCalls, QuietIsTraced
<1>3. QED
  BY <1>1, <1>2

(* A start is asked for by the owner of the job. *)
LEMMA BeginningIsTraced ==
    ASSUME NEW t, NEW g, BeginExecution(t, g, "started"), UNCHANGED <<late, providerCalls>>,
           \/ \E e \in Executions :
                Active(e) /\ exec[e].tok = t /\ exec'[e].pc \notin BeforeBegin
           \/ \E c \in late : c.name = "begin" /\ c.tok = t
    PROVE  Traced
<1>1. /\ token = t /\ status = "running" /\ status' = status /\ effect' = effect
      /\ ~stalled'
  BY DEF BeginExecution, CurrentRun, OwnsJob, RecordStart
<1>2. QED
  BY <1>1 DEF Traced, StartIsAskedFor, EndIsDecided, Terminal

(* An effect procedure is called by one who answers, or late. *)
LEMMA EffectStepIsTraced ==
    ASSUME StoreInv, NEW x \in Effects, NEW t, NEW g, UNCHANGED <<providerCalls>>,
           \A c \in late' : c \in late,
           \/ /\ \E out : ReserveEffect(x, t, g, out)
              /\ ~NobodyAnswers \/ \E c \in late : c.name \in EffectCall
           \/ /\ \E out : BeginEffect(x, t, g, out)
              /\ \/ \E e \in Executions : exec[e].pc = "beginEffect"
                 \/ \E c \in late : c.name = "beginEffect" /\ c.tool = x
           \/ \E s, out : ReconcileEffect(x, t, g, s, out)
    PROVE  Traced
<1>1. effect \in [Effects -> EffectState]
  BY DEF StoreInv, StoreTypeOK, ColumnsOK
<1>2. CASE UNCHANGED storeVars
  BY <1>2 DEF storeVars, Traced, StartIsAskedFor, EndIsDecided, Terminal
<1> DEFINE SameRow == UNCHANGED <<status, started, stalled>>
<1>3. SameRow /\ (\A y \in Effects : effect'[y] = effect[y] \/ Moved(y)) => Traced
  BY DEF Traced, StartIsAskedFor, EndIsDecided, Terminal
<1>4. CASE /\ \E out : ReserveEffect(x, t, g, out)
           /\ ~NobodyAnswers \/ \E c \in late : c.name \in EffectCall
  BY <1>1, <1>2, <1>3, <1>4 DEF ReserveEffect, EffectFence, CurrentRun, queueVars, Moved
<1>5. CASE /\ \E out : BeginEffect(x, t, g, out)
           /\ \/ \E e \in Executions : exec[e].pc = "beginEffect"
              \/ \E c \in late : c.name = "beginEffect" /\ c.tool = x
  BY <1>1, <1>2, <1>3, <1>5
     DEF BeginEffect, CanBegin, EffectFence, CurrentRun, queueVars, Moved
<1>6. ASSUME NEW s, NEW out, ReconcileEffect(x, t, g, s, out)
      PROVE  Traced
  <2>1. CASE out = "reconciled"
    <3>1. /\ effect' = [effect EXCEPT ![x] = s] /\ s \in LegalTarget(x) /\ SameRow
      BY <1>6, <2>1 DEF ReconcileEffect, MaySettle, turnVars, queueVars
    <3>2. \/ effect[x] = "reserved" /\ s = "cancelled"
          \/ effect[x] \in {"started", "uncertain"} /\ s \in Outcomes
      BY <3>1 DEF LegalTarget, Outcomes
    <3>3. QED
      BY <1>1, <1>3, <3>1, <3>2 DEF Moved
  <2>2. QED
    BY <1>2, <1>6, <2>1 DEF ReconcileEffect
<1>7. QED
  BY <1>4, <1>5, <1>6

(* A call an execution gives up on was its own next one. *)
LEMMA GivingUpIsTraced ==
    ASSUME NEW e \in Executions, Active(e), NEW name, GiveUp(CallOf(e, name)),
           UNCHANGED providerCalls, exec'[e].pc \notin BeforeBegin,
           \/ name \in {"claim", "recover", "complete"}
           \/ name = "begin"
           \/ name = "finalize" /\ exec[e].pc = "finalize"
           \/ name = "reserve" /\ exec[e].pc = "reserve"
           \/ name = "beginEffect" /\ exec[e].pc = "beginEffect"
           \/ name = "settle" /\ exec[e].pc \in {"unreserve", "settle"}
    PROVE  Traced
<1> DEFINE c == CallOf(e, name)
<1>1. /\ c.name = name /\ c.tok = exec[e].tok /\ c.gen = exec[e].gen
      /\ c.arg = exec[e].arg
  BY DEF CallOf, Call
<1>2. c.name \in EffectCall => PastStart(e)
  BY <1>1 DEF EffectCall, PastStart
<1>3. c.name = "finalize" => Resolved(c.tok, c.gen, c.arg)
  BY <1>1 DEF Resolved
<1>4. LeftBehind(c)
  BY <1>1, <1>2, <1>3 DEF LeftBehind, NobodyAnswers
<1>5. late' = late \cup {c} /\ UNCHANGED storeVars
  BY DEF GiveUp
<1>6. QED
  BY <1>4, <1>5 DEF storeVars, Traced, StartIsAskedFor, EndIsDecided, Terminal

(* Whoever does not move follows. *)
LEMMA StandingFollows ==
    ASSUME NEW o \in Executions, exec'[o] = exec[o]
    PROVE  Follows(o)
BY DEF Follows, Active, Interruptible, Aborted, PastStart

(* Whoever leaves follows, and decides nothing. *)
LEMMA LeavingFollows ==
    ASSUME NEW e \in Executions, Active(e), Withdraws(e) \/ Ends(e)
    PROVE  /\ Alone(e) /\ Follows(e)
           /\ exec'[e].pc \notin BeforeBegin \cup {"finalize"}
BY DEF Withdraws, Ends, Keeps, Resting, Follows, Active, Interruptible, PastStart,
       BeforeBegin, Begun

(* Sweeps that stand still decide nothing. *)
LEMMA NoSweepDecides == ASSUME UNCHANGED sweep PROVE SweepsDecide
BY DEF SweepsDecide

(* The account of an execution. *)
LEMMA ExecutionAccounts ==
    ASSUME NEW e \in Executions, Alone(e), Follows(e), Traced, UNCHANGED sweep,
           exec'[e].pc = "finalize" =>
             \/ /\ exec[e].pc = "finalize" /\ exec'[e].tok = exec[e].tok
                /\ exec'[e].gen = exec[e].gen /\ exec'[e].arg = exec[e].arg
             \/ (CurrentRun(exec[e].gen) => Sound(exec[e].tok, exec[e].arg))'
    PROVE  Accounted
<1>1. ExecutionsFollow
  BY StandingFollows DEF ExecutionsFollow, Alone
<1>2. ExecutionsDecide
  <2> SUFFICES ASSUME NEW o \in Executions, o # e, exec'[o].pc = "finalize"
               PROVE  /\ exec[o].pc = "finalize" /\ exec'[o].tok = exec[o].tok
                      /\ exec'[o].gen = exec[o].gen /\ exec'[o].arg = exec[o].arg
    BY DEF ExecutionsDecide
  <2>1. QED
    BY DEF Alone
<1>3. QED
  BY <1>1, <1>2, NoSweepDecides DEF Accounted

(* The holder of a token is not interrupted by anybody when it decides. *)
LEMMA DeciderIsAlone ==
    ASSUME FenceInv, NEW e \in Executions, Active(e), Alone(e),
           exec'[e].pc = "finalize", exec'[e].tok = exec[e].tok
    PROVE  Interrupted(exec[e].tok)'
BY DEF FenceInv, OneHolder, Interrupted, Active, Alone, Interruptible

(* Where no effect blocks, nothing begun is left. *)
LEMMA NothingBlocks ==
    ASSUME ProtocolInv, FenceInv, ~HasBlockingEffect
    PROVE  NothingBegun
<1>1. \A x \in Effects : effect[x] \notin Blocking
  BY DEF HasBlockingEffect
<1>2. \A c \in late : c.name = "beginEffect" => c.tool \in Effects
  BY DEF ProtocolInv, CallsHold, CallOK, EffectCall
<1>3. \A e \in Executions : exec[e].pc \in Begun =>
        PastStart(e) /\ KnowsItsEffect(e) /\ exec[e].tool \in Effects
  BY DEF FenceInv, EffectsFenced, PastStart, Begun, ProtocolInv, ExecutionsHold, ExecOK,
     Active, EffectAt
<1>4. QED
  BY <1>1, <1>2, <1>3 DEF NothingBegun, Blocking, Begun, KnowsItsEffect, BeforeEffect

-----------------------------------------------------------------------------
(* Every step of an execution accounts for itself *)

(* What the steps below take from what is known. *)
LEMMA KnownParts ==
    ASSUME Known
    PROVE  /\ ProtocolInv /\ FenceInv /\ StoreInv /\ ExecTypeOK /\ NetTypeOK
           /\ SweepTypeOK /\ StoreTypeOK /\ token \in Nat /\ gen \in Nat /\ issued \in Nat
BY DEF Known, ProtocolInv, TypeOK, StoreInv, StoreTypeOK, CountersOK

(* Between two calls nothing is left under way and no effect moves. *)
LEMMA LocalIsTraced ==
    ASSUME Known, Local, providerCalls' = providerCalls \/ ~NobodyAnswers
    PROVE  Traced
BY QuietCalls, QuietIsTraced, KnownParts DEF Local, netVars

(***************************************************************************)
(* The stream ends: the execution answers alone, so when the run is still  *)
(* its own, everything is settled.                                         *)
(***************************************************************************)
LEMMA FinishingIsSound ==
    ASSUME Known, NEW e \in Executions, FinishStream(e), CurrentRun(exec[e].gen)'
    PROVE  Sound(exec[e].tok, exec[e].arg)'
<1>1. /\ exec[e].pc = "stream" /\ Local /\ Untold /\ Alone(e) /\ Keeps(e)
      /\ exec'[e].pc = "finalize" /\ exec'[e].arg = "completed"
  BY KnownParts, FinishStreamDoes DEF Becomes
<1>2. PastStart(e) /\ Active(e)
  BY <1>1 DEF PastStart, Active
<1>3. Interrupted(exec[e].tok)'
  BY <1>1, <1>2, KnownParts, DeciderIsAlone DEF Keeps
<1>4. UNCHANGED <<status, gen, token, jobStatus, effect, started, late, providerCalls>>
  BY <1>1 DEF Local, storeVars, netVars, Untold
<1>5. token' = exec'[e].tok
  <2>1. jobStatus = "processing"
    BY <1>4, KnownParts DEF CurrentRun, StoreInv, QueueAgreesWithTurn
  <2>2. QED
    BY <1>1, <1>2, <1>4, <2>1 DEF Known, FenceInv, Fenced, Keeps
<1>6. AllSettled'
  <2>1. started' /\ providerCalls' = 1 /\ \A x \in Effects : ~OpenFor(x)'
    BY <1>1, <1>2, <1>4 DEF Known, FenceInv, Fenced, ProviderFenced, EffectsFenced,
       KnowsItsEffect, OpenFor, BeforeEffect
  <2>2. NobodyAnswers'
    BY <1>1, <1>2, KnownParts, AnswersAlone DEF NobodyAnswers, PastStart, Alone
  <2>3. \A c \in late' : c.name \notin EffectCall
    BY <1>2, <1>4, KnownParts, AnswersAlone
  <2>4. QED
    BY <2>1, <2>2, <2>3 DEF AllSettled
<1>7. QED
  BY <1>1, <1>3, <1>5, <1>6 DEF Sound

(* The executor's steps between two calls. *)
LEMMA StreamStepsAccount ==
    ASSUME Known, NEW e \in Executions, UNCHANGED sweep,
           \/ PrepareFails(e) \/ StreamFails(e) \/ FinishStream(e)
           \/ InvokeProvider(e) \/ RequestTool(e) \/ CheckReservation(e)
           \/ InvokeAdapter(e)
    PROVE  Accounted
<1>1. CASE PrepareFails(e) \/ StreamFails(e)
  <2>1. Local /\ Untold /\ Withdraws(e) /\ Active(e)
    BY <1>1, KnownParts, PrepareFailsDoes, StreamFailsDoes DEF Active
  <2>2. QED
    BY <2>1, LocalIsTraced, LeavingFollows, ExecutionAccounts DEF Untold
<1>2. CASE FinishStream(e)
  <2>1. /\ exec[e].pc = "stream" /\ Local /\ Untold /\ Alone(e) /\ Keeps(e)
        /\ exec'[e].pc = "finalize"
    BY <1>2, KnownParts, FinishStreamDoes DEF Becomes
  <2>2. Follows(e)
    BY <2>1 DEF Keeps, Follows, Active, Interruptible, PastStart, BeforeBegin, Begun
  <2>3. (CurrentRun(exec[e].gen) => Sound(exec[e].tok, exec[e].arg))'
    BY <1>2, FinishingIsSound
  <2>4. QED
    BY <2>1, <2>2, <2>3, LocalIsTraced, ExecutionAccounts DEF Untold
<1>3. CASE InvokeProvider(e) \/ RequestTool(e) \/ CheckReservation(e) \/ InvokeAdapter(e)
  <2>1. /\ exec[e].pc \in {"provider", "stream", "reserved", "adapter"} /\ Local
        /\ Alone(e) /\ Keeps(e) /\ exec'[e].abort = exec[e].abort
        /\ \/ exec'[e].pc \in {"stream", "reserve", "unreserve"}
           \/ exec'[e].pc = "beginEffect" /\ ~Aborted(e)
           \/ exec[e].pc = "adapter" /\ exec'[e].pc = "settle"
    BY <1>3, KnownParts, InvokeProviderDoes, RequestToolDoes, CheckReservationDoes,
       InvokeAdapterDoes DEF Becomes
  <2>2. PastStart(e)
    BY <2>1 DEF PastStart
  <2>3. Follows(e) /\ exec'[e].pc # "finalize"
    BY <2>1, <2>2 DEF Keeps, Follows, Active, Interruptible, Aborted, PastStart,
       BeforeBegin, Begun
  <2>4. QED
    BY <2>1, <2>2, <2>3, LocalIsTraced, ExecutionAccounts DEF NobodyAnswers
<1>4. QED
  BY <1>1, <1>2, <1>3

(***************************************************************************)
(* A turn its cohort excludes is rejected by the owner of its job, who has *)
(* not asked for a start: nothing begun can be left of anybody.            *)
(***************************************************************************)
LEMMA RejectingIsSound ==
    ASSUME Known, NEW e \in Executions, NEW out, exec[e].pc = "reject",
           ClaimTurn(exec[e].tok, out), out \in {"claimed", "matching_current_claim"},
           Claims(e), UNCHANGED netVars, exec'[e].pc = "finalize", exec'[e].arg = "failed"
    PROVE  Sound(exec[e].tok, exec[e].arg)'
<1>1. /\ OwnsJob(exec[e].tok) /\ UNCHANGED <<token, started, effect>>
      /\ out = "claimed" => status = "queued"
  BY DEF ClaimTurn, ClaimRaises, storeVars, queueVars
<1>2. Active(e) /\ Alone(e) /\ exec'[e].tok = exec[e].tok
  BY DEF Active, Claims
<1>3. ~started
  BY <1>1 DEF Known, OutcomeInv, Unstarted, BeforeBegin
<1>4. /\ NobodyAnswers
      /\ \A x \in Effects : effect[x] = "none"
      /\ \A c \in late : c.name \notin EffectCall
  BY <1>3, KnownParts, NothingBeforeStart
<1>5. NothingBegun'
  <2>1. \A o \in Executions : exec[o].pc \notin Begun
    BY <1>4 DEF NobodyAnswers, PastStart, Begun
  <2>2. QED
    BY <1>1, <1>2, <1>4, <2>1 DEF NothingBegun, Alone, Begun, netVars, EffectCall
<1>6. QED
  BY <1>1, <1>2, <1>5, KnownParts, DeciderIsAlone DEF Sound, OwnsJob

(* The call of claim_agentic_chat_turn. *)
LEMMA ClaimCallAccounts ==
    ASSUME Known, NEW e \in Executions, UNCHANGED sweep, ClaimCall(e)
    PROVE  Accounted
<1> DEFINE t == exec[e].tok
<1>1. gen' \in Nat
  <2>1. UNCHANGED storeVars \/ \E out \in ClaimOutcome : ClaimTurn(t, out)
    BY DEF ClaimCall, GiveUp
  <2>2. QED
    BY <2>1, KnownParts DEF ClaimTurn, storeVars
<1>2. exec[e].pc \in {"claim", "reject"} /\ Active(e) /\ UNCHANGED providerCalls
  BY <1>1, KnownParts, ClaimCallDoes DEF Active
<1>3. CASE GiveUp(CallOf(e, "claim")) /\ Ends(e)
  BY <1>2, <1>3, LeavingFollows, GivingUpIsTraced, ExecutionAccounts
<1>4. CASE UNCHANGED netVars /\ UNCHANGED storeVars /\ Ends(e)
  BY <1>2, <1>4, LeavingFollows, LocalIsTraced, ExecutionAccounts DEF Local
<1>5. ASSUME UNCHANGED netVars, NEW out, ClaimTurn(t, out), Claims(e),
             \/ exec'[e].pc = "recover"
             \/ /\ exec[e].pc = "reject" /\ out \in {"claimed", "matching_current_claim"}
                /\ exec'[e].pc = "finalize" /\ exec'[e].arg = "failed"
             \/ exec'[e].pc = "prepare" /\ exec'[e].abort = exec[e].abort
      PROVE  Accounted
  <2>1. Traced
    BY <1>2, <1>5, KnownParts, QuietCalls, QuietIsTraced DEF netVars
  <2>2. Follows(e)
    BY <1>2, <1>5 DEF Claims, Follows, Active, Interruptible, Aborted, PastStart,
       BeforeBegin, Begun
  <2>3. exec'[e].pc = "finalize" => Sound(exec[e].tok, exec[e].arg)'
    BY <1>5, RejectingIsSound
  <2>4. QED
    BY <1>5, <2>1, <2>2, <2>3, ExecutionAccounts DEF Claims
<1>6. QED
  BY <1>1, <1>3, <1>4, <1>5, KnownParts, ClaimCallDoes

(* The call of begin_agentic_chat_turn_execution. *)
LEMMA BeginCallAccounts ==
    ASSUME Known, NEW e \in Executions, UNCHANGED sweep, BeginCall(e)
    PROVE  Accounted
<1>1. exec[e].pc = "prepare" /\ Untold /\ Active(e)
  BY KnownParts, BeginCallDoes DEF Active
<1>2. CASE GiveUp(CallOf(e, "begin")) /\ Withdraws(e)
  BY <1>1, <1>2, LeavingFollows, GivingUpIsTraced, ExecutionAccounts DEF Untold
<1>3. CASE Local /\ Withdraws(e)
  BY <1>1, <1>3, LeavingFollows, LocalIsTraced, ExecutionAccounts DEF Untold
<1>4. CASE /\ UNCHANGED netVars
           /\ BeginExecution(exec[e].tok, exec[e].gen, "started")
           /\ Becomes(e, "provider", exec[e].arg, exec[e].tool, exec[e].abort)
  <2>1. ~started
    BY <1>4 DEF BeginExecution
  <2>2. Follows(e) /\ exec'[e].pc \notin BeforeBegin \cup {"finalize"}
    BY <1>1, <1>4, <2>1 DEF Becomes, Keeps, Follows, Active, Interruptible, Aborted,
       PastStart, BeforeBegin, Begun
  <2>3. Traced
    BY <1>1, <1>4, <2>2, BeginningIsTraced DEF Untold, netVars
  <2>4. QED
    BY <1>4, <2>2, <2>3, ExecutionAccounts DEF Becomes
<1>5. QED
  BY <1>2, <1>3, <1>4, KnownParts, BeginCallDoes

(* Calls about an effect leave the stream, stay in it or wait for the next. *)
LEMMA EffectCallsAccount ==
    ASSUME Known, NEW e \in Executions, UNCHANGED sweep,
           ReserveCall(e) \/ UnreserveCall(e) \/ BeginEffectCall(e) \/ SettleCall(e)
    PROVE  Accounted
<1> DEFINE x == exec[e].tool  t == exec[e].tok  g == exec[e].gen
<1>1. exec[e].pc \in {"reserve", "unreserve", "beginEffect", "settle"}
  BY DEF ReserveCall, UnreserveCall, BeginEffectCall, SettleCall
<1>2. PastStart(e) /\ Active(e) /\ ~NobodyAnswers
  BY <1>1 DEF PastStart, Active, NobodyAnswers
<1>3. EffectCallOK(e) /\ x \in Effects
  BY <1>1, <1>2 DEF Known, ProtocolInv, TypeOK, EffectCallOK, ExecutionsHold, ExecOK,
     EffectAt
<1>4. Untold
  BY <1>3, ReserveCallDoes, UnreserveCallDoes, BeginEffectCallDoes, SettleCallDoes
<1>5. CASE Traced /\ Withdraws(e)
  BY <1>2, <1>5, LeavingFollows, ExecutionAccounts
<1>6. ASSUME Traced, NEW l, NEW a, NEW y, Becomes(e, l, a, y, exec[e].abort),
             \/ l \in {"stream", "reserved"}
             \/ l = "adapter" /\ exec[e].pc = "beginEffect"
      PROVE  Accounted
  <2>1. Follows(e) /\ exec'[e].pc # "finalize"
    BY <1>2, <1>6 DEF Becomes, Keeps, Follows, Active, Interruptible, Aborted, PastStart,
       BeforeBegin, Begun
  <2>2. QED
    BY <1>6, <2>1, ExecutionAccounts DEF Becomes
<1>7. CASE Local /\ (Withdraws(e) \/ Becomes(e, "stream", None, None, exec[e].abort))
  <2>1. Traced
    BY <1>4, <1>7, LocalIsTraced DEF Untold
  <2>2. QED
    BY <1>5, <1>6, <1>7, <2>1
<1>8. ASSUME NEW name, GiveUp(CallOf(e, name)), Withdraws(e),
             \/ name = "reserve" /\ exec[e].pc = "reserve"
             \/ name = "beginEffect" /\ exec[e].pc = "beginEffect"
             \/ name = "settle" /\ exec[e].pc \in {"unreserve", "settle"}
      PROVE  Accounted
  <2>1. exec'[e].pc \notin BeforeBegin
    BY <1>2, <1>8, LeavingFollows
  <2>2. Traced
    BY <1>2, <1>4, <1>8, <2>1, GivingUpIsTraced DEF Untold
  <2>3. QED
    BY <1>5, <1>8, <2>2
<1>9. ASSUME UNCHANGED netVars, NEW out,
             \/ ReserveEffect(x, t, g, out)
             \/ BeginEffect(x, t, g, out) /\ exec[e].pc = "beginEffect"
             \/ \E s : ReconcileEffect(x, t, g, s, out)
      PROVE  Traced
  BY <1>2, <1>3, <1>4, <1>9, KnownParts, EffectStepIsTraced DEF Untold, netVars
<1>10. CASE ReserveCall(e)
  BY <1>3, <1>6, <1>7, <1>8, <1>9, <1>10, ReserveCallDoes
<1>11. CASE UnreserveCall(e)
  BY <1>3, <1>5, <1>7, <1>8, <1>9, <1>11, UnreserveCallDoes
<1>12. CASE BeginEffectCall(e)
  BY <1>3, <1>6, <1>7, <1>8, <1>9, <1>12, BeginEffectCallDoes
<1>13. CASE SettleCall(e)
  BY <1>3, <1>5, <1>6, <1>7, <1>8, <1>9, <1>13, SettleCallDoes
<1>14. QED
  BY <1>10, <1>11, <1>12, <1>13

(* A recovery decides for the owner of the job, and sees every effect. *)
LEMMA RecoverCallAccounts ==
    ASSUME Known, NEW e \in Executions, UNCHANGED sweep, RecoverCall(e)
    PROVE  Accounted
<1>1. exec[e].pc = "recover" /\ Untold /\ Active(e)
  BY KnownParts, RecoverCallDoes DEF Active
<1>2. CASE GiveUp(CallOf(e, "recover")) /\ Ends(e)
  BY <1>1, <1>2, LeavingFollows, GivingUpIsTraced, ExecutionAccounts DEF Untold
<1>3. ASSUME UNCHANGED netVars, NEW out,
             RecoverTurn(exec[e].tok, exec[e].gen, exec[e].arg, out),
             \/ /\ out = "finalize_cancelled"
                /\ Becomes(e, "finalize", "cancelled", None, None)
             \/ /\ out = "finalize_failed"
                /\ Becomes(e, "finalize", "failed", None, None)
             \/ Ends(e)
      PROVE  Accounted
  <2>1. Traced
    BY <1>1, <1>3, KnownParts, QuietCalls, QuietIsTraced DEF netVars, Untold
  <2>2. CASE Ends(e)
    BY <1>1, <2>1, <2>2, LeavingFollows, ExecutionAccounts
  <2>3. CASE \/ /\ out = "finalize_cancelled"
                /\ Becomes(e, "finalize", "cancelled", None, None)
             \/ /\ out = "finalize_failed"
                /\ Becomes(e, "finalize", "failed", None, None)
    <3>1. Alone(e) /\ Keeps(e) /\ exec'[e].pc = "finalize"
      BY <2>3 DEF Becomes
    <3>2. Follows(e)
      BY <1>1, <3>1 DEF Keeps, Follows, Active, Interruptible, PastStart, BeforeBegin, Begun
    <3>3. /\ token = exec[e].tok /\ UNCHANGED storeVars
          /\ out = "finalize_failed" => ~HasBlockingEffect
      BY <1>3, <2>3 DEF RecoverTurn, OwnsJob
    <3>4. exec'[e].arg = "failed" => NothingBegun'
      <4>1. exec'[e].arg = "failed" => NothingBegun
        BY <2>3, <3>3, KnownParts, NothingBlocks DEF Becomes
      <4>2. QED
        BY <1>3, <3>1, <3>3, <4>1 DEF NothingBegun, storeVars, netVars, Alone, Begun
    <3>5. Sound(exec[e].tok, exec[e].arg)'
      <4>1. exec'[e].arg # "completed" /\ token' = exec'[e].tok
        BY <2>3, <3>1, <3>3 DEF Becomes, Keeps, storeVars
      <4>2. QED
        BY <1>1, <3>1, <3>4, <4>1, KnownParts, DeciderIsAlone DEF Sound, Keeps
    <3>6. QED
      BY <2>1, <3>1, <3>2, <3>5, ExecutionAccounts
  <2>4. QED
    BY <1>3, <2>2, <2>3
<1>4. QED
  BY <1>2, <1>3, KnownParts, RecoverCallDoes

(* The call of finalize_agentic_chat_turn. *)
LEMMA FinalizeCallAccounts ==
    ASSUME Known, NEW e \in Executions, UNCHANGED sweep, FinalizeCall(e)
    PROVE  Accounted
<1> DEFINE t == exec[e].tok  g == exec[e].gen
<1>1. exec[e].pc = "finalize" /\ Untold /\ Active(e) /\ t \in 1..issued
  BY KnownParts, FinalizeCallDoes
     DEF Active, Known, ProtocolInv, ExecutionsHold, ExecOK
<1>2. Resolved(t, g, exec[e].arg)
  BY <1>1 DEF Resolved
<1>3. ASSUME \/ Withdraws(e)
             \/ \E l, c, y, b : /\ Becomes(e, l, c, y, b)
                                /\ \/ l = "finalize" /\ c = exec[e].arg
                                   \/ l \in {"complete", "reconcile"}
      PROVE  /\ Alone(e) /\ Follows(e) /\ exec'[e].pc \notin BeforeBegin
             /\ exec'[e].pc = "finalize" =>
                  /\ exec[e].pc = "finalize" /\ exec'[e].tok = exec[e].tok
                  /\ exec'[e].gen = exec[e].gen /\ exec'[e].arg = exec[e].arg
  <2>1. CASE Withdraws(e)
    BY <1>1, <2>1, LeavingFollows
  <2>2. ASSUME NEW l, NEW c, NEW y, NEW b, Becomes(e, l, c, y, b),
               \/ l = "finalize" /\ c = exec[e].arg
               \/ l \in {"complete", "reconcile"}
        PROVE  /\ Alone(e) /\ Follows(e) /\ exec'[e].pc \notin BeforeBegin
               /\ exec'[e].pc = "finalize" =>
                    /\ exec[e].pc = "finalize" /\ exec'[e].tok = exec[e].tok
                    /\ exec'[e].gen = exec[e].gen /\ exec'[e].arg = exec[e].arg
    BY <1>1, <2>2 DEF Becomes, Keeps, Follows, Active, Interruptible, PastStart,
       BeforeBegin, Begun
  <2>3. QED
    BY <1>3, <2>1, <2>2
<1>4. /\ \/ Withdraws(e)
         \/ \E l, c, y, b : /\ Becomes(e, l, c, y, b)
                            /\ \/ l = "finalize" /\ c = exec[e].arg
                               \/ l \in {"complete", "reconcile"}
      /\ \/ Local
         \/ GiveUp(CallOf(e, "finalize"))
         \/ UNCHANGED netVars /\ \E out : FinalizeTurn(t, g, exec[e].arg, out)
  BY KnownParts, FinalizeCallDoes
<1>5. /\ Alone(e) /\ Follows(e) /\ exec'[e].pc \notin BeforeBegin
      /\ exec'[e].pc = "finalize" =>
           /\ exec[e].pc = "finalize" /\ exec'[e].tok = exec[e].tok
           /\ exec'[e].gen = exec[e].gen /\ exec'[e].arg = exec[e].arg
  BY <1>3, <1>4
<1>6. Traced
  <2>1. CASE Local
    BY <1>1, <2>1, LocalIsTraced DEF Untold
  <2>2. CASE GiveUp(CallOf(e, "finalize"))
    BY <1>1, <1>5, <2>2, GivingUpIsTraced DEF Untold
  <2>3. ASSUME UNCHANGED netVars, NEW out, FinalizeTurn(t, g, exec[e].arg, out)
        PROVE  Traced
    BY <1>1, <1>2, <2>3, KnownParts, FinalizingIsTraced DEF Untold, netVars
  <2>4. QED
    BY <1>4, <2>1, <2>2, <2>3
<1>7. QED
  BY <1>5, <1>6, ExecutionAccounts

(* The calls that end an execution: complete_queue_job and the reconciliation. *)
LEMMA QueueCallAccounts ==
    ASSUME Known, NEW e \in Executions, UNCHANGED sweep, QueueCall(e)
    PROVE  Accounted
<1>1. /\ Untold /\ Ends(e) /\ exec[e].pc \in {"complete", "reconcile"}
      /\ \/ GiveUp(CallOf(e, "complete")) \/ GiveUp(CallOf(e, "recover"))
         \/ /\ UNCHANGED netVars
            /\ \/ \E out : CompleteQueueJob(exec[e].tok, out)
               \/ \E out : RecoverTurn(exec[e].tok, exec[e].gen, exec[e].arg, out)
  BY KnownParts, QueueCallDoes
<1>2. Active(e)
  BY <1>1 DEF Active
<1>3. Alone(e) /\ Follows(e) /\ exec'[e].pc \notin BeforeBegin \cup {"finalize"}
  BY <1>1, <1>2, LeavingFollows
<1>4. Traced
  BY <1>1, <1>2, <1>3, KnownParts, GivingUpIsTraced, QuietCalls, QuietIsTraced
     DEF Untold, netVars
<1>5. QED
  BY <1>3, <1>4, ExecutionAccounts

-----------------------------------------------------------------------------
(* Everybody else accounts for his steps *)

(* Who moves no execution and no sweep decides nothing. *)
LEMMA BystanderAccounts ==
    ASSUME UNCHANGED exec, UNCHANGED sweep, Traced
    PROVE  Accounted
BY StandingFollows, NoSweepDecides DEF Accounted, ExecutionsFollow, ExecutionsDecide

(* The poll that claims the job, its answer lost or not. *)
LEMMA TakeJobAccounts ==
    ASSUME Known, NEW e \in Executions, TakeJob(e)
    PROVE  Accounted
<1>1. ClaimPendingJob /\ issued' = issued + 1
  BY DEF TakeJob, Poll, PollLost, ClaimPendingJob
<1>2. /\ exec[e].pc = "idle" /\ UNCHANGED <<late, providerCalls, sweep>>
      /\ \/ UNCHANGED exec
         \/ /\ Alone(e)
            /\ exec'[e].pc \in {"claim", "reject"}
            /\ exec'[e].tok = issued' /\ exec'[e].zombie = exec[e].zombie
  BY <1>1, KnownParts, TakeJobDoes
<1>3. Traced
  BY <1>1, <1>2, KnownParts, QuietCalls, QuietIsTraced
<1>4. CASE UNCHANGED exec
  BY <1>2, <1>3, <1>4, BystanderAccounts
<1>5. CASE /\ Alone(e)
           /\ exec'[e].pc \in {"claim", "reject"}
           /\ exec'[e].tok = issued' /\ exec'[e].zombie = exec[e].zombie
  <2>1. Fresh(e) /\ exec'[e].pc # "finalize"
    BY <1>1, <1>2, <1>5 DEF Fresh, Active
  <2>2. ExecutionsFollow /\ ExecutionsDecide
    BY <1>5, <2>1, StandingFollows DEF ExecutionsFollow, ExecutionsDecide, Alone
  <2>3. QED
    BY <1>2, <1>3, <2>2, NoSweepDecides DEF Accounted
<1>6. QED
  BY <1>2, <1>4, <1>5

(* A timeout, an observed cancellation or an overload aborts the signal. *)
LEMMA SignalAccounts ==
    ASSUME Known, NEW e \in Executions, Signalled(e), exec[e].pc # "idle", Untold,
           UNCHANGED <<storeVars, netVars, sweep>>
    PROVE  Accounted
<1>1. Follows(e)
  BY DEF Signalled, Follows, Active, Interruptible, Aborted, PastStart
<1>2. QED
  BY <1>1, LocalIsTraced, ExecutionAccounts DEF Signalled, Local, Untold

(* A process that drains, aborts its survivors, crashes or exits. *)
LEMMA ProcessStepsAccount ==
    ASSUME Known, NEW p \in Processes,
           Drain(p) \/ AbortSurvivors(p) \/ Crash(p) \/ Exit(p)
    PROVE  Accounted
<1>1. CASE AbortSurvivors(p)
  BY <1>1, KnownParts, AbortSurvivorsDoes, SignalAccounts
<1>2. CASE Drain(p)
  BY <1>2, LocalIsTraced, BystanderAccounts DEF Drain, Local, execVars
<1>3. CASE Crash(p) \/ Exit(p)
  <2>1. Recedes /\ UNCHANGED <<storeVars, netVars, providerCalls>>
    BY <1>3, KnownParts, ForgettingRecedes DEF Crash, Exit
  <2>2. Traced
    BY <2>1, LocalIsTraced DEF Local
  <2>3. \A o \in Executions : Follows(o)
    <3>1. \A o \in Executions : exec'[o] = Resting => Follows(o)
      BY DEF Resting, Follows, Active, Interruptible, PastStart, BeforeBegin, Begun
    <3>2. QED
      BY <2>1, <3>1, StandingFollows DEF Recedes
  <2>4. ExecutionsDecide /\ SweepsDecide
    BY <2>1 DEF Recedes, Resting, SweepResting, ExecutionsDecide, SweepsDecide
  <2>5. QED
    BY <2>2, <2>3, <2>4 DEF Accounted, ExecutionsFollow
<1>4. QED
  BY <1>1, <1>2, <1>3

(* The sweep of p alone moves, and decides what it must. *)
LEMMA SweepAccounts ==
    ASSUME NEW p \in Processes, UNCHANGED exec, Traced,
           \A q \in Processes \ {p} : sweep'[q] = sweep[q],
           sweep'[p].pc # "idle" =>
             \/ sweep[p].pc # "idle" /\ sweep'[p].tok = sweep[p].tok
             \/ Abandoned(sweep'[p].tok) /\ sweep'[p].tok \in 1..issued,
           sweep'[p].pc \in {"snapshot", "finalize"} =>
             \/ /\ sweep[p].pc \in {"snapshot", "finalize"}
                /\ sweep'[p].tok = sweep[p].tok /\ sweep'[p].gen = sweep[p].gen
                /\ sweep'[p].want = sweep[p].want
             \/ (CurrentRun(sweep[p].gen) => Sound(sweep[p].tok, sweep[p].want))'
    PROVE  Accounted
<1>1. ExecutionsFollow /\ ExecutionsDecide
  BY StandingFollows DEF ExecutionsFollow, ExecutionsDecide
<1>2. SweepsDecide
  <2> SUFFICES ASSUME NEW q \in Processes, q # p
               PROVE  /\ sweep'[q].pc = sweep[q].pc /\ sweep'[q].tok = sweep[q].tok
                      /\ sweep'[q].gen = sweep[q].gen /\ sweep'[q].want = sweep[q].want
    BY DEF SweepsDecide
  <2>1. QED
    OBVIOUS
<1>3. QED
  BY <1>1, <1>2 DEF Accounted

(* A sweep that ends or turns decides nothing. *)
LEMMA TurningAccounts ==
    ASSUME NEW p \in Processes, sweep[p].pc # "idle", UNCHANGED exec, Traced,
           \/ SweepEnds(p) \/ SweepTurns(p) \/ SweepGoes(p, "recover")
    PROVE  Accounted
<1>1. /\ \A q \in Processes \ {p} : sweep'[q] = sweep[q]
      /\ sweep'[p].pc # "idle" => sweep'[p].tok = sweep[p].tok
      /\ sweep'[p].pc \notin {"snapshot", "finalize"}
  BY DEF SweepEnds, SweepTurns, SweepGoes, SweepResting
<1>2. QED
  BY <1>1, SweepAccounts

(***************************************************************************)
(* A sweep decides for an owner that is abandoned: whoever still works     *)
(* with its token is a zombie and has seen its signal aborted.             *)
(***************************************************************************)
LEMMA SweepDecisionIsSound ==
    ASSUME Known, NEW p \in Processes, sweep[p].pc = "recover", UNCHANGED <<exec, netVars>>,
           NEW out, RecoverTurn(sweep[p].tok, sweep[p].gen, sweep[p].class, out),
           SweepGoes(p, "snapshot"),
           \/ out = "finalize_failed" /\ sweep'[p].want = "failed"
           \/ out = "finalize_cancelled" /\ sweep'[p].want = "cancelled"
    PROVE  Sound(sweep[p].tok, sweep[p].want)'
<1>1. /\ token = sweep[p].tok /\ UNCHANGED storeVars
      /\ out = "finalize_failed" => ~HasBlockingEffect
  BY DEF RecoverTurn, OwnsJob
<1>2. Interrupted(sweep[p].tok)
  BY DEF Known, OutcomeInv, SweptIsAbandoned, Abandoned, ZombiesAborted, Interrupted
<1>3. sweep'[p].tok = sweep[p].tok
  BY DEF SweepGoes
<1>4. Interrupted(sweep[p].tok)'
  BY <1>2, <1>3 DEF Interrupted, Active, Interruptible, Aborted
<1>5. sweep'[p].want = "failed" => NothingBegun'
  <2>1. sweep'[p].want = "failed" => NothingBegun
    BY <1>1, KnownParts, NothingBlocks
  <2>2. QED
    BY <1>1, <2>1 DEF NothingBegun, storeVars, netVars
<1>6. QED
  BY <1>1, <1>3, <1>4, <1>5 DEF Sound, storeVars

(* A stalled-turn sweep, from its candidate query to its finalization. *)
LEMMA SweepsAccount ==
    ASSUME Known, NEW p \in Processes, BeginSweep(p) \/ Sweep(p)
    PROVE  Accounted
<1> DEFINE t == sweep[p].tok  g == sweep[p].gen
<1>1. SweepOK(p)
  BY DEF Known, ProtocolInv, SweepsHold
<1>2. UNCHANGED exec /\ UNCHANGED providerCalls
  BY DEF BeginSweep, Sweep, execVars
<1>3. ASSUME NEW name \in {"claim", "recover"}, NEW arg, GiveUp(SweepCall(p, name, arg))
      PROVE  Traced
  <2> DEFINE c == SweepCall(p, name, arg)
  <2>1. c.name \in {"claim", "recover"}
    BY DEF SweepCall, Call
  <2>2. LeftBehind(c)
    BY <2>1 DEF LeftBehind, EffectCall
  <2>3. late' = late \cup {c} /\ UNCHANGED storeVars
    BY <1>3 DEF GiveUp
  <2>4. Quiet
    BY <2>3, KnownParts, QuietCalls
  <2>5. QED
    BY <1>2, <2>2, <2>3, <2>4, QuietIsTraced
<1>4. CASE BeginSweep(p)
  <2>1. /\ jobStatus = "processing" /\ stalled
        /\ UNCHANGED <<storeVars, netVars>>
        /\ \A q \in Processes \ {p} : sweep'[q] = sweep[q]
        /\ sweep'[p].pc = "claim" /\ sweep'[p].tok = token
    BY <1>4, KnownParts, BeginSweepDoes
  <2>2. Abandoned(token) /\ token \in 1..issued
    BY <2>1, KnownParts
       DEF Known, OutcomeInv, SweptIsAbandoned, StoreInv, StoreTypeOK, CountersOK,
           QueueAgreesWithTurn, NoToken
  <2>3. Traced
    BY <1>2, <2>1, LocalIsTraced DEF Local
  <2>4. QED
    BY <1>2, <2>1, <2>2, <2>3, SweepAccounts
<1>5. CASE SweepClaim(p)
  <2>1. gen' \in Nat
    <3>1. UNCHANGED storeVars \/ \E out \in ClaimOutcome : ClaimTurn(t, out)
      BY <1>5 DEF SweepClaim, GiveUp
    <3>2. QED
      BY <3>1, KnownParts DEF ClaimTurn, storeVars
  <2>2. /\ sweep[p].pc = "claim"
        /\ SweepEnds(p) \/ SweepGoes(p, "recover")
        /\ \/ GiveUp(SweepCall(p, "claim", None))
           \/ UNCHANGED netVars /\ \E out : ClaimTurn(t, out)
    BY <1>5, <2>1, KnownParts, SweepClaimDoes
  <2>3. Traced
    BY <1>2, <1>3, <2>2, KnownParts, QuietCalls, QuietIsTraced DEF netVars
  <2>4. QED
    BY <1>2, <2>2, <2>3, TurningAccounts
<1>6. CASE SweepRecover(p)
  <2>1. sweep[p].pc = "recover"
    BY <1>6, KnownParts, SweepRecoverDoes
  <2>2. CASE GiveUp(SweepCall(p, "recover", sweep[p].class)) /\ SweepEnds(p)
    BY <1>2, <1>3, <2>1, <2>2, TurningAccounts
  <2>3. ASSUME UNCHANGED netVars, NEW out, RecoverTurn(t, g, sweep[p].class, out),
               \/ SweepEnds(p)
               \/ /\ SweepGoes(p, "snapshot")
                  /\ \/ out = "finalize_failed" /\ sweep'[p].want = "failed"
                     \/ out = "finalize_cancelled" /\ sweep'[p].want = "cancelled"
        PROVE  Accounted
    <3>1. Traced
      BY <1>2, <2>3, KnownParts, QuietCalls, QuietIsTraced DEF netVars
    <3>2. CASE SweepEnds(p)
      BY <1>2, <2>1, <3>1, <3>2, TurningAccounts
    <3>3. CASE /\ SweepGoes(p, "snapshot")
               /\ \/ out = "finalize_failed" /\ sweep'[p].want = "failed"
                  \/ out = "finalize_cancelled" /\ sweep'[p].want = "cancelled"
      <4>1. Sound(sweep[p].tok, sweep[p].want)'
        BY <1>2, <2>1, <2>3, <3>3, SweepDecisionIsSound
      <4>2. QED
        BY <1>2, <2>1, <3>1, <3>3, <4>1, SweepAccounts DEF SweepGoes
    <3>4. QED
      BY <2>3, <3>2, <3>3
  <2>4. QED
    BY <1>6, <2>2, <2>3, KnownParts, SweepRecoverDoes
<1>7. CASE SweepSnapshot(p)
  <2>1. sweep[p].pc = "snapshot" /\ sweep[p].class \in FailureClass
    BY <1>1, <1>7 DEF SweepSnapshot, SweepOK
  <2>2. /\ UNCHANGED storeVars /\ UNCHANGED late
        /\ \/ SweepTurns(p)
           \/ /\ SweepGoes(p, "finalize") /\ SweepStays(p)
              /\ sweep'[p].want = sweep[p].want
    BY <1>7, <2>1, KnownParts, SweepSnapshotDoes
  <2>3. Traced
    BY <1>2, <2>2, KnownParts, QuietCalls, QuietIsTraced
  <2>4. CASE SweepTurns(p)
    BY <1>2, <2>1, <2>3, <2>4, TurningAccounts
  <2>5. CASE /\ SweepGoes(p, "finalize") /\ SweepStays(p)
             /\ sweep'[p].want = sweep[p].want
    BY <1>2, <2>1, <2>3, <2>5, SweepAccounts DEF SweepGoes, SweepStays
  <2>6. QED
    BY <2>2, <2>4, <2>5
<1>8. CASE SweepFinalize(p)
  <2>1. /\ sweep[p].pc = "finalize" /\ sweep[p].class \in FailureClass
        /\ t \in 1..issued
    BY <1>1, <1>8 DEF SweepFinalize, SweepOK
  <2>2. /\ SweepTurns(p)
        /\ \/ GiveUp(SweepCall(p, "finalize", sweep[p].want))
           \/ UNCHANGED netVars /\ \E out : FinalizeTurn(t, g, sweep[p].want, out)
    BY <1>8, <2>1, KnownParts, SweepFinalizeDoes
  <2>3. Resolved(t, g, sweep[p].want)
    BY <2>1 DEF Resolved
  <2>4. CASE GiveUp(SweepCall(p, "finalize", sweep[p].want))
    <3> DEFINE c == SweepCall(p, "finalize", sweep[p].want)
    <3>1. c.name = "finalize" /\ c.tok = t /\ c.gen = g /\ c.arg = sweep[p].want
      BY DEF SweepCall, Call
    <3>2. LeftBehind(c)
      BY <2>3, <3>1 DEF LeftBehind, EffectCall
    <3>3. late' = late \cup {c} /\ UNCHANGED storeVars
      BY <2>4 DEF GiveUp
    <3>4. Quiet
      BY <3>3, KnownParts, QuietCalls
    <3>5. Traced
      BY <1>2, <3>2, <3>3, <3>4, QuietIsTraced
    <3>6. QED
      BY <1>2, <2>1, <2>2, <3>5, TurningAccounts
  <2>5. CASE UNCHANGED netVars /\ \E out : FinalizeTurn(t, g, sweep[p].want, out)
    <3>1. Traced
      BY <1>2, <2>1, <2>3, <2>5, KnownParts, FinalizingIsTraced DEF netVars
    <3>2. QED
      BY <1>2, <2>1, <2>2, <3>1, TurningAccounts
  <2>6. QED
    BY <2>2, <2>4, <2>5
<1>9. QED
  BY <1>4, <1>5, <1>6, <1>7, <1>8 DEF Sweep, SweepStep

(* A call that arrives late was asked for by somebody who could. *)
LEMMA LateCallAccounts ==
    ASSUME Known, LateCallArrives
    PROVE  Accounted
<1>1. PICK c \in late : late' = late \ {c} /\ Serve(c)
  BY DEF LateCallArrives, LateArrival
<1>2. /\ UNCHANGED <<exec, providerCalls, sweep>> /\ CallOK(c)
      /\ \A d \in late' : d \in late
  BY <1>1 DEF LateCallArrives, execVars, Known, ProtocolInv, CallsHold
<1>3. Traced
  <2>1. CASE c.name \in EffectCall
    <3>1. c.tool \in Effects
      BY <1>2, <2>1 DEF CallOK
    <3>2. \/ \E out : ReserveEffect(c.tool, c.tok, c.gen, out)
          \/ /\ c.name = "beginEffect"
             /\ \E out : BeginEffect(c.tool, c.tok, c.gen, out)
          \/ \E out : ReconcileEffect(c.tool, c.tok, c.gen, c.arg, out)
      BY <1>1, <2>1 DEF Serve, EffectCall
    <3>3. QED
      BY <1>1, <1>2, <2>1, <3>1, <3>2, KnownParts, EffectStepIsTraced
  <2>2. CASE BeginExecution(c.tok, c.gen, "started") /\ c.name = "begin"
    <3>1. /\ token = c.tok /\ status = "running" /\ status' = status /\ effect' = effect
          /\ ~stalled'
      BY <2>2 DEF BeginExecution, CurrentRun, OwnsJob, RecordStart
    <3>2. QED
      BY <1>1, <1>2, <2>2, <3>1 DEF Traced, StartIsAskedFor, EndIsDecided, Terminal
  <2>3. CASE c.name = "finalize"
    <3>1. Resolved(c.tok, c.gen, c.arg) /\ c.tok \in 1..issued
      BY <1>2, <2>3 DEF Resolved, CallOK
    <3>2. PICK out : FinalizeTurn(c.tok, c.gen, c.arg, out)
      BY <1>1, <2>3 DEF Serve
    <3>3. CASE out = "finalized"
      <4>1. /\ gen = c.gen /\ status' = c.arg
            /\ UNCHANGED <<started, stalled, effect>>
        BY <3>2, <3>3 DEF FinalizeTurn, CurrentRun, queueVars
      <4>2. QED
        BY <1>2, <3>1, <4>1 DEF Traced, StartIsAskedFor, EndIsDecided
    <3>4. CASE out # "finalized"
      BY <1>2, <3>2, <3>4, KnownParts, QuietCalls, QuietIsTraced
    <3>5. QED
      BY <3>3, <3>4
  <2>4. CASE /\ c.name \notin EffectCall \cup {"finalize"}
             /\ ~(BeginExecution(c.tok, c.gen, "started") /\ c.name = "begin")
    <3>1. \/ \E out : \/ ClaimTurn(c.tok, out)
                      \/ CompleteQueueJob(c.tok, out)
                      \/ RecoverTurn(c.tok, c.gen, c.arg, out)
                      \/ out # "started" /\ BeginExecution(c.tok, c.gen, out)
      BY <1>1, <2>4 DEF Serve, EffectCall
    <3>2. Quiet
      BY <3>1, KnownParts, QuietCalls
    <3>3. QED
      BY <1>2, <3>2, QuietIsTraced
  <2>5. QED
    BY <2>1, <2>2, <2>3, <2>4
<1>4. QED
  BY <1>2, <1>3, BystanderAccounts

(***************************************************************************)
(* An owner stalls only when nobody attends the job any more: this is what *)
(* the heartbeat is for.                                                   *)
(***************************************************************************)
LEMMA HeartbeatAccounts ==
    ASSUME Known, HeartbeatLapses
    PROVE  Accounted
<1>1. /\ UNCHANGED <<exec, providerCalls, late, sweep, status, started, effect>>
      /\ ~\E e \in Executions : Attended(e) /\ exec[e].tok = token
  BY DEF HeartbeatLapses, OwnerStalls, turnVars, netVars, execVars
<1>2. Abandoned(token)
  BY <1>1 DEF Abandoned, Attended
<1>3. Traced
  BY <1>1, <1>2 DEF Traced, StartIsAskedFor, EndIsDecided, Terminal
<1>4. QED
  BY <1>1, <1>3, BystanderAccounts

(* The user, the operator and time. *)
LEMMA OutsidersAccount ==
    ASSUME Known,
           \/ UserCancels \/ JobAges \/ UNCHANGED vars
           \/ \E x \in Effects : OperatorResolves(x)
    PROVE  Accounted
<1>1. UNCHANGED <<exec, providerCalls, late, sweep>>
  BY DEF UserCancels, JobAges, OperatorResolves, vars, netVars, execVars
<1>2. CASE UserCancels \/ JobAges \/ UNCHANGED vars
  <2>1. Quiet
    BY <1>2, KnownParts, QuietCalls DEF UserCancels, JobAges, vars
  <2>2. QED
    BY <1>1, <2>1, QuietIsTraced, BystanderAccounts
<1>3. ASSUME NEW x \in Effects, OperatorResolves(x)
      PROVE  Accounted
  <2>1. Traced
    BY <1>1, <1>3, KnownParts, EffectStepIsTraced DEF OperatorResolves
  <2>2. QED
    BY <1>1, <2>1, BystanderAccounts
<1>4. QED
  BY <1>2, <1>3

(* Every step of the system accounts for itself. *)
LEMMA NextAccounts ==
    ASSUME Known, [Next]_vars
    PROVE  Accounted
<1>1. ASSUME NEW e \in Executions, Execute(e)
      PROVE  Accounted
  BY <1>1, ClaimCallAccounts, BeginCallAccounts, StreamStepsAccount, EffectCallsAccount,
     RecoverCallAccounts, FinalizeCallAccounts, QueueCallAccounts
     DEF Execute, ExecutorStep
<1>2. ASSUME NEW e \in Executions,
             WorkerTimeoutFires(e) \/ CancellationPoll(e) \/ OwnSignalAborts(e)
      PROVE  Accounted
  BY <1>2, KnownParts, SignalSteps, SignalAccounts
<1>3. QED
  BY <1>1, <1>2, TakeJobAccounts, SweepsAccount, ProcessStepsAccount, LateCallAccounts,
     HeartbeatAccounts, OutsidersAccount DEF Next

-----------------------------------------------------------------------------
(* The invariant of the outcome holds *)

(* A turn that was just admitted is open. *)
LEMMA InitIsOpen == Init => OutcomeInv
<1> SUFFICES ASSUME Init PROVE OutcomeInv
  OBVIOUS
<1>1. \A e \in Executions :
        ~Active(e) /\ ~exec[e].zombie /\ exec[e].pc \notin BeforeBegin \cup {"finalize"}
        /\ ~PastStart(e)
  BY DEF Init, ExecInit, Resting, Active, PastStart, BeforeBegin
<1>2. \A p \in Processes : sweep[p].pc = "idle"
  BY DEF Init, SweepInit, SweepResting
<1>3. late = {} /\ status = "queued" /\ ~stalled
  BY DEF Init, NetInit, StoreInit
<1>4. Rested /\ ZombiesAborted /\ SweptIsAbandoned /\ Unstarted
  BY <1>1, <1>2, <1>3 DEF Rested, ZombiesAborted, SweptIsAbandoned, Unstarted
<1>5. DecisionsHold /\ Alive /\ OutcomeKnownAtEnd
  BY <1>1, <1>2, <1>3 DEF DecisionsHold, Alive, OutcomeKnownAtEnd
<1>6. QED
  BY <1>4, <1>5 DEF OutcomeInv

(* Everything known stays known. *)
LEMMA NextIsKnown == Known /\ [Next]_vars => Known'
<1> SUFFICES ASSUME Known, [Next]_vars PROVE Known'
  OBVIOUS
<1>1. ProtocolInv' /\ [StoreNext]_storeVars /\ FenceInv'
  BY NextIsProtocol, NextIsFenced DEF Known
<1>2. Step
  BY <1>1, NextAccounts DEF Step
<1>3. QED
  BY <1>1, <1>2, StepKeepsOutcome DEF Known

(***************************************************************************)
(* The inductive invariant: whatever was decided about a turn that is      *)
(* still running, the decision knows what it needs to know.                *)
(***************************************************************************)
THEOREM OutcomeInvariant == Spec => []Known
<1>1. Init => Known
  BY InitIsProtocol, InitIsFenced, InitIsOpen DEF Known
<1>2. QED
  BY <1>1, NextIsKnown, PTL DEF Spec

(***************************************************************************)
(* No interleaving of zombies, sweeps, late calls and crashes ends a turn  *)
(* as completed or failed while something begun is not settled.            *)
(***************************************************************************)
THEOREM OutcomeIsKnownAtEnd == Spec => []OutcomeKnownAtEnd
<1>1. Known => OutcomeKnownAtEnd
  BY DEF Known, OutcomeInv
<1>2. QED
  BY <1>1, OutcomeInvariant, PTL

-----------------------------------------------------------------------------
(* The provider *)

(* Nobody asks the provider but the execution that was told to. *)
LEMMA OnlyInvokingCounts ==
    ASSUME Known, [Next]_vars
    PROVE  UNCHANGED providerCalls \/ \E e \in Executions : InvokeProvider(e)
<1>1. ASSUME NEW e \in Executions, Execute(e)
      PROVE  UNCHANGED providerCalls \/ InvokeProvider(e)
  BY <1>1 DEF Execute, ExecutorStep, NoInvocation, ClaimCall, PrepareFails, BeginCall,
     StreamFails, RequestTool, FinishStream, ReserveCall, CheckReservation,
     UnreserveCall, BeginEffectCall, InvokeAdapter, SettleCall, RecoverCall,
     FinalizeCall, QueueCall
<1>2. ASSUME NEW e \in Executions,
             TakeJob(e) \/ WorkerTimeoutFires(e) \/ CancellationPoll(e) \/ OwnSignalAborts(e)
      PROVE  UNCHANGED providerCalls
  BY <1>2 DEF TakeJob, Poll, PollLost, WorkerTimeoutFires, TimeOut, CancellationPoll,
     ObserveCancel, OwnSignalAborts, Overload, NoInvocation, execVars
<1>3. ASSUME NEW p \in Processes,
             \/ BeginSweep(p) \/ Sweep(p) \/ Drain(p) \/ AbortSurvivors(p)
             \/ Crash(p) \/ Exit(p)
      PROVE  UNCHANGED providerCalls
  BY <1>3 DEF BeginSweep, Sweep, Drain, AbortSurvivors, Crash, Exit, execVars
<1>4. ASSUME \/ UserCancels \/ LateCallArrives \/ JobAges \/ HeartbeatLapses
             \/ UNCHANGED vars \/ \E x \in Effects : OperatorResolves(x)
      PROVE  UNCHANGED providerCalls
  BY <1>4 DEF UserCancels, LateCallArrives, JobAges, HeartbeatLapses, OperatorResolves,
     vars, execVars
<1>5. QED
  BY <1>1, <1>2, <1>3, <1>4 DEF Next

(* It was told to while the turn is answering, and nobody was before. *)
LEMMA InvokingIsAsking ==
    ASSUME Known, NEW e \in Executions, InvokeProvider(e)
    PROVE  Lifecycle!AskModel
<1>1. /\ exec[e].pc = "provider" /\ ~Aborted(e)
      /\ providerCalls' = providerCalls + 1
      /\ UNCHANGED <<status, started, cancelRequested>>
  BY DEF InvokeProvider, storeVars
<1>2. status = "running" /\ started /\ providerCalls = 0
  BY <1>1 DEF Known, OutcomeInv, Alive, FenceInv, Fenced, ProviderFenced, PastStart
<1>3. Phase = "answering"
  BY <1>2 DEF Phase
<1>4. UNCHANGED <<Phase, Outcome>>
  BY <1>1 DEF Phase, Outcome
<1>5. QED
  BY <1>1, <1>2, <1>3, <1>4 DEF Lifecycle!AskModel

-----------------------------------------------------------------------------
(* The store *)

(* What the user sees depends on four columns. *)
LEMMA UnseenStutters ==
    ASSUME UNCHANGED <<status, started, cancelRequested, providerCalls>>
    PROVE  UNCHANGED Lifecycle!lifecycleVars
BY DEF Lifecycle!lifecycleVars, Phase, Outcome

(* A queued turn waits, a running one is worked on, a terminal one is closed. *)
LEMMA PhaseIsStatus ==
    ASSUME StoreInv
    PROVE  /\ status \in TurnStatus
           /\ status = "queued" => Phase = "waiting" /\ ~started /\ ~cancelRequested
           /\ status = "running" => Phase \in {"working", "answering"}
           /\ status = "running" /\ started => Phase = "answering"
           /\ status = "running" /\ ~started => Phase = "working"
           /\ status \in Terminal => Phase = "closed" /\ Outcome = status
           /\ status \notin Terminal => Outcome = "open"
BY DEF StoreInv, StoreTypeOK, ColumnsOK, QueuedIsPristine, TurnStatus, Terminal, Phase,
   Outcome

(* What a call that moves the turn means to the user. *)
LEMMA TurnCallIsLifecycle ==
    ASSUME StoreInv, StoreInv', UNCHANGED providerCalls, NEW t, NEW g,
           \/ \E out : ClaimTurn(t, out) \/ BeginExecution(t, g, out)
           \/ \E class, out : RecoverTurn(t, g, class, out)
    PROVE  [Lifecycle!Next]_Lifecycle!lifecycleVars
<1> USE DEF Lifecycle!Next
<1>1. ASSUME NEW out, ClaimTurn(t, out)
      PROVE  [Lifecycle!Next]_Lifecycle!lifecycleVars
  <2>1. CASE UNCHANGED storeVars
    BY <2>1, UnseenStutters DEF storeVars
  <2>2. CASE ~UNCHANGED storeVars
    <3>1. /\ status = "queued" /\ status' = "running"
          /\ UNCHANGED <<started, cancelRequested>>
      BY <1>1, <2>2 DEF ClaimTurn
    <3>2. Phase = "waiting" /\ Phase' = "working" /\ Outcome = "open" /\ Outcome' = "open"
      BY <3>1, PhaseIsStatus DEF Phase, Outcome, Terminal
    <3>3. Lifecycle!Start
      BY <3>1, <3>2 DEF Lifecycle!Start
    <3>4. QED
      BY <3>3
  <2>3. QED
    BY <2>1, <2>2
<1>2. ASSUME NEW out, BeginExecution(t, g, out)
      PROVE  [Lifecycle!Next]_Lifecycle!lifecycleVars
  <2>1. CASE UNCHANGED storeVars
    BY <2>1, UnseenStutters DEF storeVars
  <2>2. CASE ~UNCHANGED storeVars
    <3>1. /\ status = "running" /\ status' = "running" /\ ~started /\ started'
          /\ ~cancelRequested /\ UNCHANGED cancelRequested
      BY <1>2, <2>2 DEF BeginExecution, RecordStart, CurrentRun
    <3>2. Phase = "working" /\ Phase' = "answering" /\ Outcome = "open" /\ Outcome' = "open"
      BY <3>1 DEF Phase, Outcome, Terminal
    <3>3. Lifecycle!BeginAnswer
      BY <3>1, <3>2 DEF Lifecycle!BeginAnswer
    <3>4. QED
      BY <3>3
  <2>3. QED
    BY <2>1, <2>2
<1>3. ASSUME NEW class, NEW out, RecoverTurn(t, g, class, out)
      PROVE  [Lifecycle!Next]_Lifecycle!lifecycleVars
  <2>1. CASE UNCHANGED storeVars \/ ReconcileQueueRow
    BY <2>1, UnseenStutters DEF storeVars, ReconcileQueueRow, turnVars
  <2>2. CASE ~UNCHANGED storeVars /\ ~ReconcileQueueRow
    <3>1. /\ status = "running" /\ status' = "queued" /\ ~started /\ ~cancelRequested
          /\ UNCHANGED <<started, cancelRequested>>
      BY <1>3, <2>2
         DEF RecoverTurn, ScheduleRetry, CurrentRun, MayRetry, SafePreStart, CancelDecides
    <3>2. Phase = "working" /\ Phase' = "waiting" /\ Outcome = "open" /\ Outcome' = "open"
      BY <3>1 DEF Phase, Outcome, Terminal
    <3>3. Lifecycle!GoBack
      BY <3>1, <3>2 DEF Lifecycle!GoBack
    <3>4. QED
      BY <3>3
  <2>3. QED
    BY <2>1, <2>2
<1>4. QED
  BY <1>1, <1>2, <1>3

(* A cancellation is accepted once, and at once while the turn waits. *)
LEMMA CancelIsLifecycle ==
    ASSUME StoreInv, UNCHANGED providerCalls, RequestCancel
    PROVE  Lifecycle!Next
<1>1. CASE CancelQueuedTurn
  <2>1. /\ status = "queued" /\ status' = "cancelled" /\ cancelRequested' = TRUE
    BY <1>1 DEF CancelQueuedTurn
  <2>2. Phase = "waiting" /\ Phase' = "closed" /\ Outcome' = "cancelled"
    BY <2>1 DEF Phase, Outcome, Terminal
  <2>3. QED
    BY <2>1, <2>2 DEF Lifecycle!Next, Lifecycle!StopWhileWaiting
<1>2. CASE CancelRunningTurn
  <2>1. /\ status = "running" /\ ~cancelRequested /\ cancelRequested' = TRUE
        /\ UNCHANGED <<status, started>>
    BY <1>2 DEF CancelRunningTurn
  <2>2. Phase \in {"working", "answering"} /\ UNCHANGED <<Phase, Outcome>>
    BY <2>1, PhaseIsStatus DEF Phase, Outcome
  <2>3. QED
    BY <2>1, <2>2 DEF Lifecycle!Next, Lifecycle!StopWhileWorking
<1>3. QED
  BY <1>1, <1>2 DEF RequestCancel

(***************************************************************************)
(* A turn is closed as what it is: the compare-and-set refuses an outcome  *)
(* a cancellation outranks, and whoever completes the turn knows that the  *)
(* model was asked.                                                        *)
(***************************************************************************)
LEMMA ClosingIsLifecycle ==
    ASSUME Step, UNCHANGED providerCalls, NEW t, NEW g, CallFinalize(t, g)
    PROVE  [Lifecycle!Next]_Lifecycle!lifecycleVars
<1>1. PICK s \in Terminal : \E out : FinalizeTurn(t, g, s, out)
  BY DEF CallFinalize
<1>2. CASE UNCHANGED storeVars
  BY <1>2, UnseenStutters DEF storeVars
<1>3. CASE ~UNCHANGED storeVars
  <2>1. /\ status = "running" /\ status' = s
        /\ UNCHANGED <<started, cancelRequested>>
        /\ cancelRequested <=> s = "cancelled"
    <3>1. PICK out : FinalizeTurn(t, g, s, out)
      BY <1>1
    <3>2. /\ CurrentRun(g) /\ ~CancelWins(s) /\ ~FinalizeRaises(t, g, s)
          /\ status' = s /\ UNCHANGED <<started, cancelRequested>>
      BY <3>1, <1>3 DEF FinalizeTurn
    <3>3. QED
      BY <3>2 DEF CurrentRun, CancelWins, FinalizeRaises, Terminal
  <2>2. PICK u \in 1..issued : Sound(u, s)
    BY <2>1, EndIsSound
  <2>3. s = "completed" => Phase = "answering" /\ providerCalls = 1
    BY <2>1, <2>2 DEF Sound, AllSettled, Phase
  <2>4. Phase \in {"working", "answering"} /\ Phase' = "closed" /\ Outcome' = s
    BY <2>1, StepIsTyped, PhaseIsStatus DEF Phase, Outcome, Terminal
  <2>5. Lifecycle!MayClose(s)
    BY <2>1, <2>3 DEF Lifecycle!MayClose, Terminal
  <2>6. Lifecycle!Close
    BY <2>1, <2>4, <2>5 DEF Lifecycle!Close, Terminal
  <2>7. QED
    BY <2>6 DEF Lifecycle!Next
<1>4. QED
  BY <1>2, <1>3

(* Every step of the store is one the user may see. *)
LEMMA StoreIsLifecycle ==
    ASSUME Step, UNCHANGED providerCalls
    PROVE  [Lifecycle!Next]_Lifecycle!lifecycleVars
<1>1. StoreInv /\ StoreInv'
  BY StepIsTyped
<1>2. CASE UNCHANGED storeVars \/ ClaimPendingJob \/ ResidenceExpires \/ OwnerStalls
  BY <1>2, UnseenStutters
     DEF storeVars, ClaimPendingJob, ResidenceExpires, OwnerStalls, turnVars
<1>3. ASSUME NEW t, CallComplete(t)
      PROVE  [Lifecycle!Next]_Lifecycle!lifecycleVars
  BY <1>3, UnseenStutters DEF CallComplete, CompleteQueueJob, storeVars, turnVars
<1>4. ASSUME NEW t, NEW g, CallClaim(t) \/ CallBegin(t, g) \/ CallRecover(t, g)
      PROVE  [Lifecycle!Next]_Lifecycle!lifecycleVars
  BY <1>1, <1>4, TurnCallIsLifecycle DEF CallClaim, CallBegin, CallRecover
<1>5. ASSUME NEW x, NEW t, NEW g,
             CallReserve(x, t, g) \/ CallBeginEffect(x, t, g) \/ CallReconcile(x, t, g)
      PROVE  [Lifecycle!Next]_Lifecycle!lifecycleVars
  BY <1>5, UnseenStutters
     DEF CallReserve, CallBeginEffect, CallReconcile, ReserveEffect, BeginEffect,
         ReconcileEffect, storeVars, turnVars
<1>6. QED
  BY <1>1, <1>2, <1>3, <1>4, <1>5, CancelIsLifecycle, ClosingIsLifecycle
     DEF Step, StoreNext

-----------------------------------------------------------------------------
(* The refinement *)

(* A turn that was just admitted waits. *)
LEMMA InitIsWaiting == Init => Lifecycle!Init
BY DEF Init, StoreInit, ExecInit, Lifecycle!Init, Phase, Outcome, Terminal

(* Every step of the system is one of the life cycle, or unseen. *)
LEMMA NextIsLifecycle ==
    Known /\ [Next]_vars => [Lifecycle!Next]_Lifecycle!lifecycleVars
<1> SUFFICES ASSUME Known, [Next]_vars
             PROVE  [Lifecycle!Next]_Lifecycle!lifecycleVars
  OBVIOUS
<1>1. Step
  BY NextIsProtocol, NextIsFenced, NextAccounts DEF Step, Known
<1>2. CASE UNCHANGED providerCalls
  BY <1>1, <1>2, StoreIsLifecycle
<1>3. CASE \E e \in Executions : InvokeProvider(e)
  BY <1>3, InvokingIsAsking DEF Lifecycle!Next
<1>4. QED
  BY <1>2, <1>3, OnlyInvokingCounts

(***************************************************************************)
(* The system implements the life cycle promised to the user: the model is *)
(* asked once, a turn goes back to waiting only before its answer begins,  *)
(* and it closes once and for all, as what it is.                          *)
(***************************************************************************)
THEOREM LifecycleIsImplemented == Spec => ImplementsLifecycle
<1>1. QED
  BY InitIsWaiting, NextIsLifecycle, OutcomeInvariant, PTL
     DEF Spec, ImplementsLifecycle, Lifecycle!Spec

-----------------------------------------------------------------------------
(* The stalled job *)

(* An owner can only stall when its job has outlived the residence limit. *)
StalledIsAged == StalledTimeout > QueueResidence => (stalled => aged)

(* A procedure attends to the job or does not touch it, and age only grows. *)
Watched == (aged => aged') /\ (stalled' => stalled)

(* Every procedure of the store keeps to that. *)
LEMMA ProceduresWatch ==
    ASSUME \/ UNCHANGED storeVars \/ ClaimPendingJob \/ RequestCancel \/ ResidenceExpires
           \/ \E t, out : ClaimTurn(t, out) \/ CompleteQueueJob(t, out)
           \/ \E t, g, out : BeginExecution(t, g, out)
           \/ \E t, g, class, out : RecoverTurn(t, g, class, out)
           \/ \E t, g, s, out : FinalizeTurn(t, g, s, out)
           \/ \E x, t, g, out : ReserveEffect(x, t, g, out) \/ BeginEffect(x, t, g, out)
           \/ \E x, t, g, target, out : ReconcileEffect(x, t, g, target, out)
    PROVE  Watched
<1> USE DEF Watched
<1>1. CASE UNCHANGED storeVars \/ ClaimPendingJob \/ RequestCancel \/ ResidenceExpires
  BY <1>1 DEF storeVars, ClaimPendingJob, RequestCancel, CancelQueuedTurn,
     CancelRunningTurn, ResidenceExpires, turnVars, queueVars
<1>2. ASSUME NEW t, NEW out, ClaimTurn(t, out) \/ CompleteQueueJob(t, out)
      PROVE  Watched
  BY <1>2 DEF ClaimTurn, CompleteQueueJob, storeVars, queueVars
<1>3. ASSUME NEW t, NEW g, NEW out, BeginExecution(t, g, out)
      PROVE  Watched
  BY <1>3 DEF BeginExecution, RecordStart, storeVars
<1>4. ASSUME NEW t, NEW g, NEW class, NEW out, RecoverTurn(t, g, class, out)
      PROVE  Watched
  <2>1. UNCHANGED storeVars \/ ReconcileQueueRow \/ ScheduleRetry
    BY <1>4 DEF RecoverTurn
  <2>2. QED
    BY <2>1 DEF storeVars, ReconcileQueueRow, ScheduleRetry
<1>5. ASSUME NEW t, NEW g, NEW s, NEW out, FinalizeTurn(t, g, s, out)
      PROVE  Watched
  BY <1>5 DEF FinalizeTurn, storeVars, queueVars
<1>6. ASSUME NEW x, NEW t, NEW g, NEW target, NEW out,
             \/ ReserveEffect(x, t, g, out) \/ BeginEffect(x, t, g, out)
             \/ ReconcileEffect(x, t, g, target, out)
      PROVE  Watched
  BY <1>6 DEF ReserveEffect, BeginEffect, ReconcileEffect, storeVars, queueVars
<1>7. QED
  BY <1>1, <1>2, <1>3, <1>4, <1>5, <1>6

(* Only the silence of an owner makes its job a stalled one. *)
LEMMA OnlySilenceStalls ==
    ASSUME Next
    PROVE  Watched \/ HeartbeatLapses
<1> USE ProceduresWatch
<1>1. ASSUME NEW e \in Executions, Execute(e)
      PROVE  Watched
  BY <1>1 DEF Execute, ExecutorStep, GiveUp, ClaimCall, PrepareFails, BeginCall,
     InvokeProvider, StreamFails, RequestTool, FinishStream, ReserveCall, CheckReservation,
     UnreserveCall, BeginEffectCall, InvokeAdapter, SettleCall, RecoverCall,
     FinalizeCall, QueueCall
<1>2. ASSUME NEW e \in Executions,
             TakeJob(e) \/ WorkerTimeoutFires(e) \/ CancellationPoll(e) \/ OwnSignalAborts(e)
      PROVE  Watched
  BY <1>2 DEF TakeJob, Poll, PollLost, WorkerTimeoutFires, TimeOut, CancellationPoll,
     ObserveCancel, OwnSignalAborts, Overload
<1>3. ASSUME NEW p \in Processes,
             \/ BeginSweep(p) \/ Sweep(p) \/ Drain(p) \/ AbortSurvivors(p)
             \/ Crash(p) \/ Exit(p)
      PROVE  Watched
  BY <1>3 DEF BeginSweep, SweepStart, Sweep, SweepStep, SweepClaim, SweepRecover,
     SweepSnapshot, SweepFinalize, GiveUp, Drain, AbortSurvivors, Crash, Exit
<1>4. CASE LateCallArrives
  BY <1>4 DEF LateCallArrives, LateArrival, Serve
<1>5. CASE UserCancels \/ JobAges \/ \E x \in Effects : OperatorResolves(x)
  BY <1>5 DEF UserCancels, JobAges, OperatorResolves
<1>6. QED
  BY <1>1, <1>2, <1>3, <1>4, <1>5 DEF Next

(* Only a heartbeat that lapses makes an owner stall, and by then the job is aged. *)
LEMMA StalledIsAgedIsKept == StalledIsAged /\ [Next]_vars => StalledIsAged'
<1>1. CASE UNCHANGED vars
  BY <1>1 DEF vars, storeVars, StalledIsAged
<1>2. ASSUME StalledIsAged, Next
      PROVE  StalledIsAged'
  BY <1>2, OnlySilenceStalls
     DEF StalledIsAged, Watched, HeartbeatLapses, OwnerStalls
<1>3. QED
  BY <1>1, <1>2

(* The store puts a job back in the queue only while it is young enough. *)
LEMMA OnlyTheYoungGoBack ==
    ASSUME [StoreNext]_storeVars, jobStatus = "processing", status \in TurnStatus,
           jobStatus' = "pending"
    PROVE  ~aged
<1> USE DEF Terminal
<1>1. ~(UNCHANGED storeVars \/ ClaimPendingJob \/ RequestCancel \/ ResidenceExpires
        \/ OwnerStalls)
  BY DEF storeVars, ClaimPendingJob, RequestCancel, CancelQueuedTurn, CancelRunningTurn,
     ResidenceExpires, OwnerStalls, turnVars, queueVars
<1>2. ASSUME NEW t, CallClaim(t) \/ CallComplete(t)
      PROVE  FALSE
  BY <1>2 DEF CallClaim, CallComplete, ClaimTurn, CompleteQueueJob, storeVars, queueVars
<1>3. ASSUME NEW t, NEW g, CallBegin(t, g) \/ CallFinalize(t, g)
      PROVE  FALSE
  BY <1>3 DEF CallBegin, BeginExecution, RecordStart, CallFinalize, FinalizeTurn,
     storeVars, queueVars
<1>4. ASSUME NEW x, NEW t, NEW g,
             CallReserve(x, t, g) \/ CallBeginEffect(x, t, g) \/ CallReconcile(x, t, g)
      PROVE  FALSE
  BY <1>4 DEF CallReserve, ReserveEffect, CallBeginEffect, BeginEffect, CallReconcile,
     ReconcileEffect, storeVars, queueVars
<1>5. ASSUME NEW t, NEW g, CallRecover(t, g)
      PROVE  ~aged
  BY <1>5 DEF CallRecover, RecoverTurn, ReconcileQueueRow, MayRetry, storeVars
<1>6. QED
  BY <1>1, <1>2, <1>3, <1>4, <1>5 DEF StoreNext

(***************************************************************************)
(* With a stalled timeout above the residence limit, as it is configured,  *)
(* a job taken from a stalled owner is never put back in the queue.        *)
(***************************************************************************)
THEOREM StalledJobIsFinalized ==
    ASSUME StalledTimeout > QueueResidence
    PROVE  Spec => StalledJobNeverRequeued
<1>1. Init => StalledIsAged
  BY DEF Init, StoreInit, StalledIsAged
<1>2. Spec => []StalledIsAged
  BY <1>1, StalledIsAgedIsKept, PTL DEF Spec
<1>3. Known /\ StalledIsAged /\ [Next]_vars =>
          [stalled /\ jobStatus = "processing" => jobStatus' # "pending"]_vars
  <2> SUFFICES ASSUME Known, StalledIsAged, [Next]_vars, stalled,
                      jobStatus = "processing", jobStatus' = "pending"
               PROVE  FALSE
    OBVIOUS
  <2>1. [StoreNext]_storeVars /\ status \in TurnStatus
    BY NextIsProtocol DEF Known, ProtocolInv, StoreInv, StoreTypeOK, ColumnsOK
  <2>2. QED
    BY <2>1, OnlyTheYoungGoBack DEF StalledIsAged
<1>4. QED
  BY <1>2, <1>3, OutcomeInvariant, PTL DEF Spec, StalledJobNeverRequeued
===============================================================================
