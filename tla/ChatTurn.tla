------------------------------- MODULE ChatTurn -------------------------------
(***************************************************************************)
(* One Agentic Chat turn, end to end: the store, the executions the worker *)
(* processes run on its job, their stalled-turn sweeps, the user who may   *)
(* ask to stop, the operator who resolves uncertain effects, the clock,    *)
(* and what goes wrong: calls given up on that arrive late, executions     *)
(* that outlive their worker timeout, processes that drain or die.         *)
(***************************************************************************)
EXTENDS TurnExecutor, StalledSweep

CONSTANTS
    StalledTimeout, \* stalledTimeoutMs, in seconds
    MaxCrashes      \* bound: how often a process drains or dies

(* validateAgenticChatConsumerConfig refuses any other pair of timeouts. *)
ASSUME TimeoutAssumption ==
    /\ StalledTimeout \in Nat
    /\ StalledTimeout > WorkerTimeout

ASSUME MaxCrashesAssumption == MaxCrashes \in Nat

VARIABLES
    draining,       \* the processes that stop: no new claim, no new sweep
    crashes         \* how many processes have drained or died

processVars == <<draining, crashes>>

vars == <<storeVars, netVars, execVars, sweep, processVars>>

TypeOK ==
    /\ StoreTypeOK
    /\ NetTypeOK
    /\ ExecTypeOK
    /\ SweepTypeOK
    /\ draining \subseteq Processes
    /\ crashes \in 0..MaxCrashes

Init ==
    /\ StoreInit
    /\ NetInit
    /\ ExecInit
    /\ SweepInit
    /\ draining = {}
    /\ crashes = 0

-----------------------------------------------------------------------------
(* The queue and its executions *)

Accepting(p) == p \notin draining

TakeJob(e) ==
    /\ Accepting(ProcessOf[e])
    /\ Poll(e) \/ PollLost(e)
    /\ UNCHANGED <<sweep, processVars>>

Execute(e) ==
    /\ ExecutorStep(e)
    /\ UNCHANGED <<sweep, processVars>>

WorkerTimeoutFires(e) ==
    /\ TimeOut(e)
    /\ UNCHANGED <<sweep, processVars>>

CancellationPoll(e) ==
    /\ ObserveCancel(e)
    /\ UNCHANGED <<sweep, processVars>>

OwnSignalAborts(e) ==
    /\ Overload(e)
    /\ UNCHANGED <<sweep, processVars>>

-----------------------------------------------------------------------------
(* The sweep *)

BeginSweep(p) ==
    /\ Accepting(p)
    /\ SweepStart(p)
    /\ UNCHANGED <<execVars, processVars>>

Sweep(p) ==
    /\ SweepStep(p)
    /\ UNCHANGED <<execVars, processVars>>

-----------------------------------------------------------------------------
(* Processes *)

(* stop: no new claims and sweeps from here on. *)
Drain(p) ==
    /\ p \notin draining
    /\ crashes < MaxCrashes
    /\ draining' = draining \cup {p}
    /\ crashes' = crashes + 1
    /\ UNCHANGED <<storeVars, netVars, execVars, sweep>>

(* The drain timeout aborts the executions that are still attended. *)
AbortSurvivors(p) ==
    /\ p \in draining
    /\ \E e \in Executions :
         /\ ProcessOf[e] = p /\ Attended(e)
         /\ Interruptible(e) /\ ~Aborted(e)
         /\ exec' = [exec EXCEPT ![e].abort = "timeout"]
    /\ UNCHANGED <<storeVars, netVars, providerCalls, adapterRuns, sweep,
                   processVars>>

ForgetLocalState(p) ==
    /\ exec' = [e \in Executions |-> IF ProcessOf[e] = p THEN Resting ELSE exec[e]]
    /\ sweep' = [sweep EXCEPT ![p] = SweepResting]

(***************************************************************************)
(* A process that dies forgets everything at once and is started again.  A *)
(* request on its way at that moment is a call given up on just before.    *)
(***************************************************************************)
Crash(p) ==
    /\ p \notin draining
    /\ crashes < MaxCrashes
    /\ crashes' = crashes + 1
    /\ ForgetLocalState(p)
    /\ UNCHANGED <<storeVars, netVars, providerCalls, adapterRuns, draining>>

(* The end of a drain, whether or not its executions are done. *)
Exit(p) ==
    /\ p \in draining
    /\ draining' = draining \ {p}
    /\ ForgetLocalState(p)
    /\ UNCHANGED <<storeVars, netVars, providerCalls, adapterRuns, crashes>>

-----------------------------------------------------------------------------
(* Users, operators, the network and the clock *)

UserCancels ==
    /\ RequestCancel
    /\ UNCHANGED <<netVars, execVars, sweep, processVars>>

(* An operator queries the downstream system and settles what is uncertain. *)
OperatorResolves(x) ==
    /\ effect[x] = "uncertain"
    /\ \E target \in {"succeeded", "failed"} :
         ReconcileEffect(x, token, gen, target, "reconciled")
    /\ UNCHANGED <<netVars, execVars, sweep, processVars>>

LateCallArrives ==
    /\ LateArrival
    /\ UNCHANGED <<execVars, sweep, processVars>>

JobAges ==
    /\ ResidenceExpires
    /\ UNCHANGED <<netVars, execVars, sweep, processVars>>

(***************************************************************************)
(* updated_at is old once nobody has attended the job for StalledTimeout;  *)
(* an attended execution cannot last that long (TimeoutAssumption).        *)
(***************************************************************************)
HeartbeatLapses ==
    /\ OwnerStalls
    /\ ~\E e \in Executions : Attended(e) /\ exec[e].tok = token
    /\ StalledTimeout > QueueResidence => aged
    /\ UNCHANGED <<netVars, execVars, sweep, processVars>>

Next ==
    \/ \E e \in Executions :
         \/ TakeJob(e)
         \/ Execute(e)
         \/ WorkerTimeoutFires(e)
         \/ CancellationPoll(e)
         \/ OwnSignalAborts(e)
    \/ \E p \in Processes :
         \/ BeginSweep(p)
         \/ Sweep(p)
         \/ Drain(p)
         \/ AbortSurvivors(p)
         \/ Crash(p)
         \/ Exit(p)
    \/ UserCancels
    \/ \E x \in Effects : OperatorResolves(x)
    \/ LateCallArrives
    \/ JobAges
    \/ HeartbeatLapses

Spec == Init /\ [][Next]_vars

(***************************************************************************)
(* Timers fire, promises settle and a polling process polls again.  Nobody *)
(* has to ask for a cancellation, to resolve an effect, to drain or to     *)
(* die, and no late call has to arrive.                                    *)
(***************************************************************************)
Fairness ==
    /\ \A e \in Executions :
         /\ WF_vars(TakeJob(e))
         /\ WF_vars(Execute(e))
         /\ WF_vars(WorkerTimeoutFires(e))
         /\ WF_vars(CancellationPoll(e))
    /\ \A p \in Processes :
         /\ WF_vars(BeginSweep(p))
         /\ WF_vars(Sweep(p))
         /\ WF_vars(Exit(p))
    /\ WF_vars(JobAges)
    /\ WF_vars(HeartbeatLapses)

FairSpec == Spec /\ Fairness

-----------------------------------------------------------------------------
(* Safety *)

(***************************************************************************)
(* At most one provider stream is ever opened for a turn, across lost      *)
(* responses, retries, zombies, sweeps and restarts: the start fence is    *)
(* granted once.                                                           *)
(***************************************************************************)
ProviderInvokedOnce == providerCalls <= 1

(* Nothing is done to the outside twice: one adapter invocation per effect. *)
AdapterInvokedOnce == \A x \in Effects : adapterRuns[x] <= 1

(***************************************************************************)
(* The ledger never claims what did not happen nor hides what did: an      *)
(* effect that never began, or was closed as cancelled, had no adapter     *)
(* invocation, and one with an outcome had exactly one.                    *)
(***************************************************************************)
LedgerTellsTruth ==
    \A x \in Effects :
        /\ effect[x] \in {"none", "reserved", "cancelled"} => adapterRuns[x] = 0
        /\ effect[x] \in {"succeeded", "failed", "uncertain"} => adapterRuns[x] = 1

(***************************************************************************)
(* A turn that is back in the queue has not touched anything outside:      *)
(* neither the provider nor an adapter was ever invoked.                   *)
(***************************************************************************)
RequeuedLeavesNoTrace ==
    status = "queued" =>
        providerCalls = 0 /\ \A x \in Effects : adapterRuns[x] = 0

PastStart(e) ==
    exec[e].pc \in {"provider", "stream", "reserve", "reserved", "unreserve",
                    "beginEffect", "adapter", "settle"}

(***************************************************************************)
(* At most one execution is past the start fence at a time, and it holds   *)
(* the newest generation: a zombie never answers beside its successor.     *)
(***************************************************************************)
OneAnswering ==
    \A e \in Executions : PastStart(e) =>
        /\ exec[e].gen = gen
        /\ \A o \in Executions \ {e} : ~PastStart(o)

(***************************************************************************)
(* A turn ends as completed or failed only when the outside world is       *)
(* known: no effect begun and not settled.  A completed turn has no        *)
(* reservation left either; a failed one may keep a reservation that       *)
(* arrived late, which nothing can begin any more.                         *)
(***************************************************************************)
OutcomeKnownAtEnd ==
    \A x \in Effects :
        /\ status = "completed" => effect[x] \notin Blocking
        /\ status = "failed" => effect[x] \notin {"started", "uncertain"}

(***************************************************************************)
(* With a stalled timeout above the residence limit a job taken from a     *)
(* stalled owner is never put back in the queue: it is finalized.          *)
(***************************************************************************)
StalledJobNeverRequeued ==
    [][stalled /\ jobStatus = "processing" => jobStatus' # "pending"]_vars

(***************************************************************************)
(* The workers keep to the contract of the store: they present only what   *)
(* it issued to them and complete the job of a completed turn only, so     *)
(* that what TurnStore guarantees holds here.                              *)
(***************************************************************************)
StoreProtocol == StoreSpec

(***************************************************************************)
(* What the user sees of the turn is TurnLifecycle.                        *)
(***************************************************************************)
Phase ==
    CASE status = "queued"              -> "waiting"
      [] status = "running" /\ ~started -> "working"
      [] status = "running" /\ started  -> "answering"
      [] OTHER                          -> "closed"

Outcome == IF status \in Terminal THEN status ELSE "open"

Lifecycle == INSTANCE TurnLifecycle
    WITH phase <- Phase, outcome <- Outcome, asked <- cancelRequested,
         answers <- providerCalls

ImplementsLifecycle == Lifecycle!Spec

-----------------------------------------------------------------------------
(* Liveness *)

OpenEffect == \E x \in Effects : effect[x] \in Blocking

(* The queue row of a finished turn gets to show its outcome. *)
QueueFollowsTurn == status \in Terminal ~> jobStatus = status

(***************************************************************************)
(* A turn ends, unless one of its effects stays open: then, and only then, *)
(* it may wait for an operator for ever.                                   *)
(***************************************************************************)
TurnEnds == <>(status \in Terminal) \/ []<>OpenEffect

(* The outcome of an effect is not known: it was begun, and may have happened. *)
EffectIsUnknown == \E x \in Effects : effect[x] \in {"started", "uncertain"}

(***************************************************************************)
(* An accepted cancellation is carried out, though an effect was left      *)
(* reserved.  Nothing is claimed of a turn with an effect that may have    *)
(* happened: recover_agentic_chat_turn cancels it as well, while the plan  *)
(* of slice 6 and classifyFailure would leave it to reconciliation.        *)
(***************************************************************************)
CancelIsCarriedOut ==
    <>cancelRequested => <>(status = "cancelled") \/ []<>EffectIsUnknown

-----------------------------------------------------------------------------
(* What the plans say and the code does not do *)

(***************************************************************************)
(* Realtime migration plan and phase 0 contracts: an effect interrupted by *)
(* a crash becomes uncertain.  Nothing writes that once its process died.  *)
(***************************************************************************)
BegunEffectIsSettled ==
    \A x \in Effects : effect[x] = "started" ~> effect[x] # "started"
=============================================================================
