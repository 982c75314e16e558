------------------------------- MODULE JobQueue -------------------------------
(***************************************************************************)
(* The generic job queue: the queue_jobs rows with the stored procedures   *)
(* that write them, and the SupabaseQueue consumers that claim, process,   *)
(* complete and fail jobs ("automatic" life cycle).  agentic_chat_turn     *)
(* jobs have their own recovery and are the business of ChatTurn.          *)
(*                                                                         *)
(* Delivery is at least once: a job whose owner is gone is reset by its    *)
(* staleness and runs again.  Calls to the database may be given up on and *)
(* take effect later, or never; processes die; a processor outlives its    *)
(* worker timeout; a job may be cancelled under its owner's hands; some    *)
(* processors write their row's status on their own.                       *)
(***************************************************************************)
EXTENDS Integers, FiniteSets

CONSTANTS
    Jobs,               \* the rows that may be inserted
    Keys,               \* deduplication keys
    KeyOf,              \* dedup_key of each row
    Processes,          \* queue consumers
    Executions,         \* slots for running processors
    ProcessOf,          \* the consumer each slot belongs to
    BatchSize,          \* batchSize: the capacity of a consumer
    MaxAttempts,        \* queue_jobs.max_attempts
    Reporters,          \* the jobs whose processors write the status themselves
    HeartbeatsMayFail,  \* can an attended job miss its heartbeats?
    MaxFaults,          \* bound: how many calls are given up on
    MaxGhosts,          \* bound: how many processors are abandoned at a time
    MaxCrashes          \* bound: how often a process dies

ASSUME QueueAssumption ==
    /\ KeyOf \in [Jobs -> Keys]
    /\ ProcessOf \in [Executions -> Processes]
    /\ BatchSize \in Nat \ {0}
    /\ MaxAttempts \in Nat \ {0}
    /\ Reporters \subseteq Jobs
    /\ HeartbeatsMayFail \in BOOLEAN
    /\ MaxFaults \in Nat
    /\ MaxGhosts \in Nat
    /\ MaxCrashes \in Nat

VARIABLES
    row,        \* the queue_jobs rows
    claims,     \* how often each job was claimed; its tokens are 1..claims
    exec,       \* the executions
    active,     \* activeJobs of each consumer: the keys of its map
    ghosts,     \* processors that outlived their worker timeout
    late,       \* calls given up on that may still be received
    finished,   \* the claims whose processor returned in time
    faults,
    crashes

rowVars   == <<row, claims>>
localVars == <<exec, active, ghosts>>
faultVars == <<late, faults>>
vars      == <<row, claims, exec, active, ghosts, late, finished, faults, crashes>>

-----------------------------------------------------------------------------
Final   == {"completed", "failed", "cancelled"}
Live    == {"pending", "processing"}
NoToken == 0
NoJob   == "none"

MaxTries == 3   \* attempts of complete_queue_job

Said == {"nothing", "processing", "completed", "failed"}

RowType == [status   : {"absent"} \cup Live \cup Final,
            token    : Nat,
            attempts : 0..MaxAttempts,
            due      : BOOLEAN,     \* scheduled_for <= now
            stale    : BOOLEAN]     \* untouched for the stalled timeout

ExecType == [pc    : {"idle", "work", "complete", "fail"},
             job   : Jobs \cup {NoJob},
             tok   : Nat,
             attempts : 0..MaxAttempts,  \* attempts of the claimed row
             tries : 0..MaxTries,
             said  : Said,
             retry : BOOLEAN]       \* what fail_queue_job is asked to do

CallType == [name : {"complete", "fail"}, job : Jobs, tok : Nat, retry : BOOLEAN]

GhostType == [process : Processes, job : Jobs, tok : Nat, said : Said]

QueueTypeOK ==
    /\ row \in [Jobs -> RowType]
    /\ claims \in [Jobs -> 0..MaxAttempts]
    /\ exec \in [Executions -> ExecType]
    /\ active \in [Processes -> SUBSET Jobs]
    /\ ghosts \subseteq GhostType
    /\ late \subseteq CallType
    /\ finished \in [Jobs -> SUBSET (1..MaxAttempts)]
    /\ faults \in 0..MaxFaults
    /\ crashes \in 0..MaxCrashes

Absent == [status |-> "absent", token |-> NoToken, attempts |-> 0,
           due |-> FALSE, stale |-> FALSE]

Resting == [pc |-> "idle", job |-> NoJob, tok |-> NoToken,
            attempts |-> 0, tries |-> 0, said |-> "nothing", retry |-> FALSE]

Init ==
    /\ row = [j \in Jobs |-> Absent]
    /\ claims = [j \in Jobs |-> 0]
    /\ exec = [e \in Executions |-> Resting]
    /\ active = [p \in Processes |-> {}]
    /\ ghosts = {}
    /\ late = {}
    /\ finished = [j \in Jobs |-> {}]
    /\ faults = 0
    /\ crashes = 0

-----------------------------------------------------------------------------
(* Stored procedures *)

(* Mutant of KeyTaken: only a pending row of the same key is found. *)
KeyTaken_ifPending(j) ==
    \E k \in Jobs \ {j} : KeyOf[k] = KeyOf[j] /\ row[k].status = "pending"

(* The partial unique index: another live row has the key. *)
KeyTaken(j) ==
    \E k \in Jobs \ {j} : KeyOf[k] = KeyOf[j] /\ row[k].status \in Live

(***************************************************************************)
(* add_queue_job: a live row of the same key is returned in place of a new *)
(* one (and nothing changes).                                              *)
(***************************************************************************)
AddQueueJob(j, due) ==
    /\ row[j].status = "absent"
    /\ ~KeyTaken(j)
    /\ row' = [row EXCEPT ![j] = [@ EXCEPT !.status = "pending", !.due = due]]
    /\ UNCHANGED claims

(* claim_pending_jobs, for one of the jobs it returns. *)
ClaimPendingJob(j) ==
    /\ row[j].status = "pending" /\ row[j].due
    /\ claims' = [claims EXCEPT ![j] = @ + 1]
    /\ row' = [row EXCEPT ![j] = [@ EXCEPT !.status = "processing",
                                           !.token = claims'[j],
                                           !.stale = FALSE]]

(* Mutant of Owns: whoever asks owns the job. *)
Owns_anyToken(j, tok) == TRUE

Owns(j, tok) == row[j].token = tok

(* Mutant of CompleteQueueJob: the token alone is looked at. *)
CompleteQueueJob_anyStatus(j, tok) ==
    /\ row' = IF Owns(j, tok)
              THEN [row EXCEPT ![j] = [@ EXCEPT !.status = "completed",
                                                !.token = NoToken,
                                                !.stale = FALSE]]
              ELSE row
    /\ UNCHANGED claims

(* complete_queue_job: FALSE, and no change, if the caller lost the job. *)
CompleteQueueJob(j, tok) ==
    /\ row' = IF row[j].status \in {"processing", "completed"} /\ Owns(j, tok)
              THEN [row EXCEPT ![j] = [@ EXCEPT !.status = "completed",
                                                !.token = NoToken,
                                                !.stale = FALSE]]
              ELSE row
    /\ UNCHANGED claims

(* Mutant of AttemptsRemain: one attempt too many. *)
AttemptsRemain_onceMore(j) == row[j].attempts + 1 <= MaxAttempts

AttemptsRemain(j) == row[j].attempts + 1 < MaxAttempts

Requeued(j) ==
    [row EXCEPT ![j] = [@ EXCEPT !.status = "pending", !.token = NoToken,
                                 !.attempts = row[j].attempts + 1,
                                 !.due = FALSE, !.stale = FALSE]]

Failed(j) ==
    [row EXCEPT ![j] = [@ EXCEPT !.status = "failed", !.token = NoToken,
                                 !.attempts = row[j].attempts + 1,
                                 !.stale = FALSE]]

(***************************************************************************)
(* fail_queue_job.  It raises, and changes nothing, if the row was failed  *)
(* by its processor and the key has been taken by another row since.       *)
(***************************************************************************)
FailQueueJob(j, tok, retry) ==
    /\ \/ /\ row[j].status \in {"processing", "failed"} /\ Owns(j, tok)
          /\ \/ retry /\ AttemptsRemain(j) /\ ~KeyTaken(j) /\ row' = Requeued(j)
             \/ retry /\ AttemptsRemain(j) /\ KeyTaken(j) /\ UNCHANGED row
             \/ ~(retry /\ AttemptsRemain(j)) /\ row' = Failed(j)
       \/ /\ ~(row[j].status \in {"processing", "failed"} /\ Owns(j, tok))
          /\ UNCHANGED row
    /\ UNCHANGED claims

(* Mutant of ResetStalledJobs: jobs out of attempts are left alone. *)
ResetStalledJobs_ifRetryable(j) ==
    /\ row[j].status = "processing" /\ row[j].stale
    /\ AttemptsRemain(j)
    /\ row' = Requeued(j)
    /\ UNCHANGED claims

(* Mutant of ResetStalledJobs: started_at alone is looked at. *)
ResetStalledJobs_despiteHeartbeat(j) ==
    /\ row[j].status = "processing"
    /\ row' = IF AttemptsRemain(j) THEN Requeued(j) ELSE Failed(j)
    /\ UNCHANGED claims

(* reset_stalled_jobs, for one of the rows it finds. *)
ResetStalledJobs(j) ==
    /\ row[j].status = "processing" /\ row[j].stale
    /\ row' = IF AttemptsRemain(j) THEN Requeued(j) ELSE Failed(j)
    /\ UNCHANGED claims

(* The cancel procedures leave the token and do not tell the owner. *)
CancelJob(j) ==
    /\ row[j].status \in Live
    /\ row' = [row EXCEPT ![j] = [@ EXCEPT !.status = "cancelled",
                                           !.stale = FALSE]]
    /\ UNCHANGED claims

(***************************************************************************)
(* updateJobStatus of queueUtils.ts: the token is compared, the status is  *)
(* not.  The unique index may refuse to revive a row.                      *)
(***************************************************************************)
UpdateJobStatus(j, tok, status) ==
    /\ row' = IF Owns(j, tok) /\ ~(status = "processing" /\ KeyTaken(j))
              THEN [row EXCEPT ![j] = [@ EXCEPT !.status = status,
                                                !.stale = FALSE]]
              ELSE row
    /\ UNCHANGED claims

-----------------------------------------------------------------------------
(* Producers and the clock *)

Add(j) ==
    /\ \E due \in BOOLEAN : AddQueueJob(j, due)
    /\ UNCHANGED <<localVars, faultVars, finished, crashes>>

Cancel(j) ==
    /\ CancelJob(j)
    /\ UNCHANGED <<localVars, faultVars, finished, crashes>>

BecomesDue(j) ==
    /\ row[j].status = "pending" /\ ~row[j].due
    /\ row' = [row EXCEPT ![j].due = TRUE]
    /\ UNCHANGED <<claims, localVars, faultVars, finished, crashes>>

Attended(j, tok) ==
    \E e \in Executions : exec[e].pc # "idle" /\ exec[e].job = j /\ exec[e].tok = tok

(* The heartbeat of an attended job writes updated_at, unless it fails. *)
HeartbeatLapses(j) ==
    /\ row[j].status = "processing" /\ ~row[j].stale
    /\ HeartbeatsMayFail \/ ~Attended(j, row[j].token)
    /\ row' = [row EXCEPT ![j].stale = TRUE]
    /\ UNCHANGED <<claims, localVars, faultVars, finished, crashes>>

RecoverStalledJobs(j) ==
    /\ ResetStalledJobs(j)
    /\ UNCHANGED <<localVars, faultVars, finished, crashes>>

-----------------------------------------------------------------------------
(* The consumer *)

HasCapacity(p) == Cardinality(active[p]) < BatchSize

(* startClaimedJob: activeJobs is keyed by the job. *)
Claim(e, j) ==
    /\ exec[e].pc = "idle"
    /\ HasCapacity(ProcessOf[e])
    /\ ClaimPendingJob(j)
    /\ exec' = [exec EXCEPT ![e] = [@ EXCEPT !.pc = "work", !.job = j,
                                             !.tok = claims'[j],
                                             !.attempts = row[j].attempts]]
    /\ active' = [active EXCEPT ![ProcessOf[e]] = @ \cup {j}]
    /\ UNCHANGED <<ghosts, faultVars, finished, crashes>>

ClaimLost(j) ==
    /\ \E p \in Processes : HasCapacity(p)
    /\ ClaimPendingJob(j)
    /\ faults < MaxFaults
    /\ faults' = faults + 1
    /\ UNCHANGED <<localVars, late, finished, crashes>>

ToFail(e, retry) ==
    exec' = [exec EXCEPT ![e] = [@ EXCEPT !.pc = "fail", !.retry = retry]]

(* executeJobProcessor reckons with the attempts of the row it claimed. *)
HasAttemptsRemaining(e) == exec[e].attempts + 1 < MaxAttempts

Succeed(e) ==
    /\ exec[e].pc = "work" /\ exec[e].said # "failed"
    /\ exec' = [exec EXCEPT ![e].pc = "complete"]
    /\ finished' = [finished EXCEPT ![exec[e].job] = @ \cup {exec[e].tok}]
    /\ UNCHANGED <<rowVars, active, ghosts, faultVars, crashes>>

(* The order in which a processor reports; a failure may follow anything. *)
MayReport(said, status) ==
    \/ said = "nothing" /\ status = "processing"
    \/ said \in {"nothing", "processing"} /\ status = "completed"
    \/ said # "failed" /\ status = "failed"

(* briefWorker, smsWorker, chatSessionClassifier and braindumpProcessor. *)
Report(e, status) ==
    /\ exec[e].pc = "work" /\ exec[e].job \in Reporters
    /\ MayReport(exec[e].said, status)
    /\ UpdateJobStatus(exec[e].job, exec[e].tok, status)
    /\ exec' = [exec EXCEPT ![e].said = status]
    /\ UNCHANGED <<active, ghosts, faultVars, finished, crashes>>

(* The processor throws, or there is none for the type: permanent or not. *)
Throw(e) ==
    /\ exec[e].pc = "work"
    /\ \E transient \in BOOLEAN :
         ToFail(e, transient /\ HasAttemptsRemaining(e))
    /\ UNCHANGED <<rowVars, active, ghosts, faultVars, finished, crashes>>

(* withWorkerTimeout: the queue goes on, the processor does too. *)
TimeOut(e) ==
    /\ exec[e].pc = "work"
    /\ Cardinality(ghosts) < MaxGhosts
    /\ ToFail(e, HasAttemptsRemaining(e))
    /\ ghosts' = ghosts \cup {[process |-> ProcessOf[e], job |-> exec[e].job,
                               tok |-> exec[e].tok, said |-> exec[e].said]}
    /\ UNCHANGED <<rowVars, active, faultVars, finished, crashes>>

(* releaseJobSlot deletes the entry of the job, whoever made it. *)
Release(e) ==
    /\ exec' = [exec EXCEPT ![e] = Resting]
    /\ active' = [active EXCEPT ![ProcessOf[e]] = @ \ {exec[e].job}]

GiveUp(e, name) ==
    /\ faults < MaxFaults
    /\ faults' = faults + 1
    /\ late' = late \cup {[name |-> name, job |-> exec[e].job, tok |-> exec[e].tok,
                           retry |-> exec[e].retry]}

(* Mutant of CompletionFails: it falls into the processor's failure path. *)
CompletionFails_asFailure(e) ==
    /\ ToFail(e, HasAttemptsRemaining(e))
    /\ UNCHANGED active

(* The completion call is tried three times, then left to recovery. *)
CompletionFails(e) ==
    \/ /\ exec[e].tries + 1 = MaxTries
       /\ Release(e)
    \/ /\ exec[e].tries + 1 < MaxTries
       /\ exec' = [exec EXCEPT ![e].tries = @ + 1]
       /\ UNCHANGED active

Complete(e) ==
    /\ exec[e].pc = "complete"
    /\ \/ /\ CompleteQueueJob(exec[e].job, exec[e].tok)
          /\ Release(e)
          /\ UNCHANGED faultVars
       \/ /\ GiveUp(e, "complete")
          /\ CompletionFails(e)
          /\ UNCHANGED rowVars
    /\ UNCHANGED <<ghosts, finished, crashes>>

Fail(e) ==
    /\ exec[e].pc = "fail"
    /\ Release(e)
    /\ \/ /\ FailQueueJob(exec[e].job, exec[e].tok, exec[e].retry)
          /\ UNCHANGED faultVars
       \/ /\ GiveUp(e, "fail")
          /\ UNCHANGED rowVars
    /\ UNCHANGED <<ghosts, finished, crashes>>

LateCall ==
    \E c \in late :
        /\ late' = late \ {c}
        /\ \/ c.name = "complete" /\ CompleteQueueJob(c.job, c.tok)
           \/ c.name = "fail" /\ FailQueueJob(c.job, c.tok, c.retry)
        /\ UNCHANGED <<localVars, faults, finished, crashes>>

(***************************************************************************)
(* updateProgress writes under the token it holds, which keeps the row     *)
(* fresh.  It matters only for a ghost: an attended job has a heartbeat.   *)
(***************************************************************************)
GhostProgresses(g) ==
    /\ row[g.job].status = "processing" /\ row[g.job].token = g.tok
    /\ row[g.job].stale
    /\ row' = [row EXCEPT ![g.job].stale = FALSE]
    /\ UNCHANGED <<claims, localVars, faultVars, finished, crashes>>

(* An abandoned processor reports its status all the same. *)
GhostReports(g, status) ==
    /\ g.job \in Reporters
    /\ MayReport(g.said, status)
    /\ UpdateJobStatus(g.job, g.tok, status)
    /\ ghosts' = (ghosts \ {g}) \cup {[g EXCEPT !.said = status]}
    /\ UNCHANGED <<exec, active, faultVars, finished, crashes>>

GhostEnds(g) ==
    /\ ghosts' = ghosts \ {g}
    /\ UNCHANGED <<rowVars, exec, active, faultVars, finished, crashes>>

(* A process dies, or ends its drain with executions under way. *)
Crash(p) ==
    /\ crashes < MaxCrashes
    /\ crashes' = crashes + 1
    /\ exec' = [e \in Executions |-> IF ProcessOf[e] = p THEN Resting ELSE exec[e]]
    /\ active' = [active EXCEPT ![p] = {}]
    /\ ghosts' = {g \in ghosts : g.process # p}
    /\ UNCHANGED <<rowVars, faultVars, finished>>

-----------------------------------------------------------------------------
Run(e) ==
    \/ \E j \in Jobs : Claim(e, j)
    \/ \E status \in Said : Report(e, status)
    \/ Succeed(e)
    \/ Throw(e)
    \/ TimeOut(e)
    \/ Complete(e)
    \/ Fail(e)

Next ==
    \/ \E e \in Executions : Run(e)
    \/ \E j \in Jobs :
         \/ Add(j)
         \/ Cancel(j)
         \/ BecomesDue(j)
         \/ HeartbeatLapses(j)
         \/ RecoverStalledJobs(j)
         \/ ClaimLost(j)
    \/ LateCall
    \/ \E g \in ghosts :
         \/ GhostProgresses(g)
         \/ \E status \in Said : GhostReports(g, status)
         \/ GhostEnds(g)
    \/ \E p \in Processes : Crash(p)

Spec == Init /\ [][Next]_vars

(***************************************************************************)
(* Consumers poll and refill their slots, processors and calls end (the    *)
(* worker timeout sees to that), the sweep runs every minute and time      *)
(* passes.  A job is claimed in the end although others are due: claims    *)
(* are ordered, and the bounded model has no endless stream of jobs.       *)
(***************************************************************************)
Fairness ==
    /\ \A e \in Executions :
         /\ WF_vars(\E j \in Jobs : Claim(e, j))
         /\ WF_vars(Succeed(e) \/ Throw(e) \/ TimeOut(e))
         /\ WF_vars(Complete(e))
         /\ WF_vars(Fail(e))
    /\ \A j \in Jobs :
         /\ WF_vars(BecomesDue(j))
         /\ WF_vars(HeartbeatLapses(j))
         /\ WF_vars(RecoverStalledJobs(j))
    /\ WF_vars(\E g \in ghosts : GhostEnds(g))

FairSpec == Spec /\ Fairness

-----------------------------------------------------------------------------
(* Properties *)

(***************************************************************************)
(* At most one live row per deduplication key, through every requeue.      *)
(***************************************************************************)
OneLivePerKey ==
    \A j, k \in Jobs :
        /\ j # k
        /\ KeyOf[j] = KeyOf[k]
        /\ row[j].status \in Live
        => row[k].status \notin Live

(***************************************************************************)
(* Each claim is paid for by one attempt, by the owner's failure or by the *)
(* sweep but never by both: a pending job has spent all its claims, a      *)
(* processing one has one out.  So a job runs at most max_attempts times.  *)
(***************************************************************************)
ClaimsArePaid ==
    \A j \in Jobs :
        /\ row[j].status = "pending" => claims[j] = row[j].attempts
        /\ row[j].status = "processing" => claims[j] = row[j].attempts + 1
        /\ row[j].status \in Live => row[j].attempts < MaxAttempts

(***************************************************************************)
(* A completed job was completed by the processor of its last claim: the   *)
(* completion of an older owner is refused.  Processors that report for    *)
(* themselves may say so before they throw.                                *)
(***************************************************************************)
CompletedByLastClaim ==
    \A j \in Jobs \ Reporters :
        row[j].status = "completed" => claims[j] \in finished[j]

(***************************************************************************)
(* As long as heartbeats arrive nobody works on a job that another         *)
(* execution still works on or completes.  An execution that fails has     *)
(* stopped working: once failJob has committed, the row may be claimed     *)
(* again before the reply is there.                                        *)
(***************************************************************************)
OneExecutionPerJob ==
    \A e, o \in Executions :
        /\ e # o
        /\ exec[e].pc = "work"
        /\ exec[o].pc \in {"work", "complete"}
        => exec[e].job # exec[o].job

(***************************************************************************)
(* Work that succeeded is not repeated lightly: its job returns to the     *)
(* queue only if three completion calls failed or the process died, never  *)
(* through the processor's failure path.                                   *)
(***************************************************************************)
SuccessIsKept ==
    \A j \in Jobs :
        row[j].status = "pending" /\ finished[j] # {} =>
            faults >= MaxTries \/ crashes > 0

(***************************************************************************)
(* A finished job keeps its outcome whatever call of whatever owner comes  *)
(* late, unless its processor writes the status itself.                    *)
(***************************************************************************)
KeepsOutcome ==
    \A j \in Jobs \ Reporters :
        row[j].status \in Final => row'[j].status = row[j].status

FinalIsFinal == [][KeepsOutcome]_vars

(***************************************************************************)
(* WORKER_JOBS_AND_FLOWS.md: pending|processing -> cancelled, and nothing  *)
(* leads out of cancelled.                                                 *)
(***************************************************************************)
KeepsCancelled ==
    \A j \in Jobs : row[j].status = "cancelled" => row'[j].status = "cancelled"

CancelledStaysCancelled == [][KeepsCancelled]_vars

(* Every job that was added is finished in the end: none is lost between   *)
(* a dead owner, a lost call and the sweep.                                *)
JobsEnd == \A j \in Jobs : row[j].status = "pending" ~> row[j].status \in Final
=============================================================================
