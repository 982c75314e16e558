---------------------------- MODULE JobQueueProofs ----------------------------
(***************************************************************************)
(* The guarantees of the generic queue for any number of jobs, keys,       *)
(* consumers, slots, attempts, lost calls and crashes.  QueueInv is        *)
(* inductive: it adds to the invariants of the runs what a token stands    *)
(* for (the last claim, not yet paid) and where tokens may be found.       *)
(* HoldersInv adds who may still act on a token; AttendedInv that, while   *)
(* heartbeats do not fail, a job in a slot was not claimed by anyone else. *)
(***************************************************************************)
EXTENDS JobQueue, TLAPS

-----------------------------------------------------------------------------
(* The invariant *)

RowsTyped ==
    /\ row \in [Jobs -> RowType]
    /\ claims \in [Jobs -> 0..MaxAttempts]

(***************************************************************************)
(* A token in a row is the one of the last claim, and that claim is not    *)
(* paid yet.  Only a processor that reports for itself can finish a row    *)
(* and leave its token there.                                              *)
(***************************************************************************)
TokenIsLastClaim ==
    \A j \in Jobs :
        /\ row[j].token # NoToken =>
             row[j].token = claims[j] /\ claims[j] = row[j].attempts + 1
        /\ row[j].status = "processing" => row[j].token # NoToken
        /\ row[j].status \in {"absent", "pending"} =>
             /\ row[j].token = NoToken
             /\ claims[j] = row[j].attempts
             /\ row[j].attempts < MaxAttempts
        /\ j \notin Reporters /\ row[j].status \in {"completed", "failed"} =>
             row[j].token = NoToken

RowInv == RowsTyped /\ TokenIsLastClaim /\ OneLivePerKey

(* Whoever holds a token was given it by a claim. *)
Issued(j, tok) == j \in Jobs /\ tok \in 1..claims[j]

TokensIssued ==
    /\ \A e \in Executions :
         exec[e].pc # "idle" => Issued(exec[e].job, exec[e].tok)
    /\ \A g \in ghosts : Issued(g.job, g.tok)
    /\ \A c \in late : Issued(c.job, c.tok)

LocalTyped ==
    /\ exec \in [Executions -> ExecType]
    /\ ghosts \subseteq GhostType
    /\ late \subseteq CallType

QueueInv == RowInv /\ LocalTyped /\ TokensIssued

-----------------------------------------------------------------------------
(* Stored procedures *)

(* add_queue_job inserts a row only if its key is free. *)
LEMMA AddPreserves ==
    ASSUME RowInv, NEW j \in Jobs, NEW due \in BOOLEAN, AddQueueJob(j, due)
    PROVE  RowInv' /\ claims' = claims
<1> USE DEF RowInv, RowsTyped, AddQueueJob
<1>1. RowsTyped'
  <2>1. [row[j] EXCEPT !.status = "pending", !.due = due] \in RowType
    BY DEF RowType, Live, Final
  <2>2. QED
    BY <2>1
<1>2. TokenIsLastClaim'
  BY DEF RowType, TokenIsLastClaim
<1>3. OneLivePerKey'
  BY DEF RowType, OneLivePerKey, KeyTaken, Live
<1>4. QED
  BY <1>1, <1>2, <1>3

(* claim_pending_jobs issues the next token of the job. *)
LEMMA ClaimPreserves ==
    ASSUME RowInv, NEW j \in Jobs, ClaimPendingJob(j)
    PROVE  /\ RowInv'
           /\ claims'[j] = claims[j] + 1
           /\ \A k \in Jobs : claims[k] <= claims'[k]
<1> USE QueueAssumption DEF RowInv, RowsTyped, ClaimPendingJob
<1>0. /\ claims[j] \in 0..MaxAttempts /\ claims[j] < MaxAttempts
      /\ row[j].attempts = claims[j]
  BY DEF TokenIsLastClaim, RowType
<1>1. claims' \in [Jobs -> 0..MaxAttempts]
  BY <1>0
<1>2. row' \in [Jobs -> RowType]
  <2>1. claims'[j] \in Nat
    BY <1>1
  <2>2. [row[j] EXCEPT !.status = "processing", !.token = claims'[j],
                       !.stale = FALSE] \in RowType
    BY <2>1 DEF RowType, Live
  <2>3. QED
    BY <2>2
<1>3. TokenIsLastClaim'
  BY <1>0 DEF RowType, TokenIsLastClaim, NoToken
<1>4. OneLivePerKey'
  BY DEF RowType, OneLivePerKey, Live
<1>5. QED
  BY <1>1, <1>2, <1>3, <1>4

(* complete_queue_job is obeyed only under the token of the last claim. *)
LEMMA CompletePreserves ==
    ASSUME RowInv, NEW j \in Jobs, NEW tok \in Nat \ {0},
           CompleteQueueJob(j, tok)
    PROVE  RowInv' /\ claims' = claims
<1> USE DEF RowInv, RowsTyped, CompleteQueueJob
<1>1. CASE UNCHANGED row
  BY <1>1 DEF TokenIsLastClaim, OneLivePerKey
<1>2. CASE ~UNCHANGED row
  <2>1. RowsTyped'
    <3>1. [row[j] EXCEPT !.status = "completed", !.token = NoToken,
                         !.stale = FALSE] \in RowType
      BY DEF RowType, Live, Final, NoToken
    <3>2. QED
      BY <1>2, <3>1
  <2>2. TokenIsLastClaim'
    BY <1>2 DEF RowType, TokenIsLastClaim, NoToken
  <2>3. OneLivePerKey'
    BY <1>2 DEF RowType, OneLivePerKey, Live
  <2>4. QED
    BY <2>1, <2>2, <2>3
<1>3. QED
  BY <1>1, <1>2

(* A requeue pays for the claim and leaves one attempt at least. *)
LEMMA RequeuePreserves ==
    ASSUME RowInv, NEW j \in Jobs, row[j].token # NoToken,
           AttemptsRemain(j), ~KeyTaken(j) \/ row[j].status \in Live,
           row' = Requeued(j), UNCHANGED claims
    PROVE  RowInv'
<1> USE QueueAssumption DEF RowInv, RowsTyped, Requeued
<1>1. RowsTyped'
  <2>1. row[j] \in RowType /\ row[j].attempts + 1 \in 0..MaxAttempts
    BY DEF RowType, AttemptsRemain
  <2>2. [row[j] EXCEPT !.status = "pending", !.token = NoToken, !.attempts = @ + 1,
                       !.due = FALSE, !.stale = FALSE] \in RowType
    BY <2>1 DEF RowType, Live, NoToken
  <2>3. QED
    BY <2>2
<1>2. TokenIsLastClaim'
  BY DEF RowType, TokenIsLastClaim, NoToken, AttemptsRemain
<1>3. OneLivePerKey'
  BY DEF RowType, OneLivePerKey, Live, KeyTaken
<1>4. QED
  BY <1>1, <1>2, <1>3

(* So does the last failure. *)
LEMMA FailurePreserves ==
    ASSUME RowInv, NEW j \in Jobs, row[j].token # NoToken,
           row' = Failed(j), UNCHANGED claims
    PROVE  RowInv'
<1> USE QueueAssumption DEF RowInv, RowsTyped, Failed
<1>1. row[j].attempts + 1 \in 0..MaxAttempts
  BY DEF RowType, TokenIsLastClaim
<1>2. RowsTyped'
  <2>1. [row[j] EXCEPT !.status = "failed", !.token = NoToken, !.attempts = @ + 1,
                       !.stale = FALSE] \in RowType
    BY <1>1 DEF RowType, Final, NoToken
  <2>2. QED
    BY <2>1
<1>3. TokenIsLastClaim'
  BY DEF RowType, TokenIsLastClaim, NoToken
<1>4. OneLivePerKey'
  BY DEF RowType, OneLivePerKey, Live
<1>5. QED
  BY <1>2, <1>3, <1>4

(* fail_queue_job, whatever it is asked and whoever asks. *)
LEMMA FailPreserves ==
    ASSUME RowInv, NEW j \in Jobs, NEW tok \in Nat \ {0}, NEW retry,
           FailQueueJob(j, tok, retry)
    PROVE  RowInv' /\ claims' = claims
<1>1. CASE UNCHANGED row
  BY <1>1 DEF FailQueueJob, RowInv, RowsTyped, TokenIsLastClaim, OneLivePerKey
<1>2. CASE ~UNCHANGED row
  <2>1. row[j].token # NoToken /\ UNCHANGED claims
    BY <1>2 DEF FailQueueJob, Owns, NoToken
  <2>2. CASE AttemptsRemain(j) /\ ~KeyTaken(j) /\ row' = Requeued(j)
    BY <2>1, <2>2, RequeuePreserves
  <2>3. CASE row' = Failed(j)
    BY <2>1, <2>3, FailurePreserves
  <2>4. QED
    BY <1>2, <2>1, <2>2, <2>3 DEF FailQueueJob
<1>3. QED
  BY <1>1, <1>2

(* reset_stalled_jobs pays in the owner's place. *)
LEMMA ResetPreserves ==
    ASSUME RowInv, NEW j \in Jobs, ResetStalledJobs(j)
    PROVE  RowInv' /\ claims' = claims
<1>1. row[j].token # NoToken /\ row[j].status \in Live /\ UNCHANGED claims
  BY DEF ResetStalledJobs, RowInv, TokenIsLastClaim, Live
<1>2. CASE AttemptsRemain(j)
  BY <1>1, <1>2, RequeuePreserves DEF ResetStalledJobs
<1>3. CASE ~AttemptsRemain(j)
  BY <1>1, <1>3, FailurePreserves DEF ResetStalledJobs
<1>4. QED
  BY <1>1, <1>2, <1>3

(* A cancelled row keeps its token, and its claim stays unpaid. *)
LEMMA CancelPreserves ==
    ASSUME RowInv, NEW j \in Jobs, CancelJob(j)
    PROVE  RowInv' /\ claims' = claims
<1> USE DEF RowInv, RowsTyped, CancelJob
<1>1. RowsTyped'
  <2>1. [row[j] EXCEPT !.status = "cancelled", !.stale = FALSE] \in RowType
    BY DEF RowType, Live, Final
  <2>2. QED
    BY <2>1
<1>2. TokenIsLastClaim'
  BY DEF RowType, TokenIsLastClaim
<1>3. OneLivePerKey'
  BY DEF RowType, OneLivePerKey, Live
<1>4. QED
  BY <1>1, <1>2, <1>3

(* Time passes, a heartbeat is missed or arrives. *)
LEMMA AgeingPreserves ==
    ASSUME RowInv, NEW j \in Jobs, UNCHANGED claims,
           \/ row' = [row EXCEPT ![j].due = TRUE]
           \/ row' = [row EXCEPT ![j].stale = TRUE]
           \/ row' = [row EXCEPT ![j].stale = FALSE]
    PROVE  RowInv'
<1> USE DEF RowInv, RowsTyped
<1>1. RowsTyped'
  <2>1. /\ [row[j] EXCEPT !.due = TRUE] \in RowType
        /\ [row[j] EXCEPT !.stale = TRUE] \in RowType
        /\ [row[j] EXCEPT !.stale = FALSE] \in RowType
    BY DEF RowType
  <2>2. QED
    BY <2>1
<1>2. \A k \in Jobs : /\ row'[k].status = row[k].status
                       /\ row'[k].token = row[k].token
                       /\ row'[k].attempts = row[k].attempts
  BY DEF RowType
<1>3. TokenIsLastClaim'
  BY <1>2 DEF TokenIsLastClaim
<1>4. OneLivePerKey'
  BY <1>2 DEF OneLivePerKey
<1>5. QED
  BY <1>1, <1>3, <1>4

(* updateJobStatus revives a row only if its key is free. *)
LEMMA ReportPreserves ==
    ASSUME RowInv, NEW j \in Reporters, NEW tok \in Nat \ {0},
           NEW status \in {"processing", "completed", "failed"},
           UpdateJobStatus(j, tok, status)
    PROVE  RowInv' /\ claims' = claims
<1> USE QueueAssumption DEF RowInv, RowsTyped, UpdateJobStatus
<1>1. CASE UNCHANGED row
  BY <1>1 DEF TokenIsLastClaim, OneLivePerKey
<1>2. CASE ~UNCHANGED row
  <2>0. row[j].token # NoToken
    BY <1>2 DEF Owns, NoToken
  <2>1. RowsTyped'
    <3>1. [row[j] EXCEPT !.status = status, !.stale = FALSE] \in RowType
      BY DEF RowType, Live, Final
    <3>2. QED
      BY <1>2, <3>1
  <2>2. TokenIsLastClaim'
    BY <1>2, <2>0 DEF RowType, TokenIsLastClaim, NoToken
  <2>3. OneLivePerKey'
    BY <1>2 DEF RowType, OneLivePerKey, Live, KeyTaken
  <2>4. QED
    BY <2>1, <2>2, <2>3
<1>3. QED
  BY <1>1, <1>2

-----------------------------------------------------------------------------
(* The holders of tokens *)

Held(j, tok) ==
    \/ \E e \in Executions :
         exec[e].pc # "idle" /\ exec[e].job = j /\ exec[e].tok = tok
    \/ \E g \in ghosts : g.job = j /\ g.tok = tok
    \/ \E c \in late : c.job = j /\ c.tok = tok

(* A token handed on is a token that was held, or a new one. *)
LEMMA HoldersPreserved ==
    ASSUME QueueInv, RowInv', LocalTyped',
           \A k \in Jobs : claims[k] <= claims'[k],
           \A e \in Executions : exec'[e].pc # "idle" =>
              \/ Held(exec'[e].job, exec'[e].tok)
              \/ Issued(exec[e].job, exec[e].tok)',
           \A g \in ghosts' : Held(g.job, g.tok),
           \A c \in late' : Held(c.job, c.tok)
    PROVE  QueueInv'
<1>1. ASSUME NEW j, NEW tok, Held(j, tok)
      PROVE  j \in Jobs /\ tok \in 1..claims'[j]
  <2>1. Issued(j, tok)
    BY <1>1 DEF Held, QueueInv, TokensIssued
  <2>2. claims[j] \in Nat /\ claims'[j] \in Nat /\ claims[j] <= claims'[j]
    BY <2>1, QueueAssumption DEF Issued, QueueInv, RowInv, RowsTyped
  <2>3. QED
    BY <2>1, <2>2 DEF Issued
<1>2. TokensIssued'
  BY <1>1 DEF TokensIssued, Issued
<1>3. QED
  BY <1>2 DEF QueueInv

(* A step on the rows leaves all holders as they are. *)
LEMMA RowStepPreserves ==
    ASSUME QueueInv, RowInv', \A k \in Jobs : claims[k] <= claims'[k],
           UNCHANGED <<exec, ghosts, late>>
    PROVE  QueueInv'
<1>1. LocalTyped'
  BY DEF QueueInv, LocalTyped
<1>2. \A e \in Executions :
        exec'[e].pc # "idle" => Held(exec'[e].job, exec'[e].tok)
  BY DEF Held
<1>3. /\ \A g \in ghosts' : Held(g.job, g.tok)
      /\ \A c \in late' : Held(c.job, c.tok)
  BY DEF Held
<1>4. QED
  BY <1>1, <1>2, <1>3, HoldersPreserved

(* What a holder may rely on. *)
LEMMA HeldIsIssued ==
    ASSUME QueueInv, NEW j, NEW tok, Held(j, tok)
    PROVE  j \in Jobs /\ tok \in Nat \ {0}
<1>1. Issued(j, tok)
  BY DEF Held, QueueInv, TokensIssued
<1>2. QED
  BY <1>1, QueueAssumption DEF Issued, QueueInv, RowInv, RowsTyped

(* Counting is monotone where nothing is claimed. *)
LEMMA SameClaims ==
    ASSUME RowInv, claims' = claims
    PROVE  \A k \in Jobs : claims[k] <= claims'[k]
BY QueueAssumption DEF RowInv, RowsTyped

-----------------------------------------------------------------------------
(* The actions *)

(* Producers, the clock and the sweep touch the rows alone. *)
LEMMA RowActionsPreserve ==
    ASSUME QueueInv, NEW j \in Jobs,
           \/ Add(j) \/ Cancel(j) \/ BecomesDue(j) \/ HeartbeatLapses(j)
           \/ RecoverStalledJobs(j) \/ ClaimLost(j)
    PROVE  QueueInv'
<1>1. RowInv BY DEF QueueInv
<1>2. CASE Add(j)
  <2>1. RowInv' /\ claims' = claims
    BY <1>1, <1>2, AddPreserves DEF Add
  <2>2. QED
    BY <1>1, <1>2, <2>1, SameClaims, RowStepPreserves DEF Add, localVars, faultVars
<1>3. CASE Cancel(j)
  <2>1. RowInv' /\ claims' = claims
    BY <1>1, <1>3, CancelPreserves DEF Cancel
  <2>2. QED
    BY <1>1, <1>3, <2>1, SameClaims, RowStepPreserves DEF Cancel, localVars, faultVars
<1>4. CASE BecomesDue(j)
  <2>1. RowInv' /\ claims' = claims
    BY <1>1, <1>4, AgeingPreserves DEF BecomesDue
  <2>2. QED
    BY <1>1, <1>4, <2>1, SameClaims, RowStepPreserves DEF BecomesDue, localVars, faultVars
<1>5. CASE HeartbeatLapses(j)
  <2>1. RowInv' /\ claims' = claims
    BY <1>1, <1>5, AgeingPreserves DEF HeartbeatLapses
  <2>2. QED
    BY <1>1, <1>5, <2>1, SameClaims, RowStepPreserves DEF HeartbeatLapses, localVars, faultVars
<1>6. CASE RecoverStalledJobs(j)
  <2>1. RowInv' /\ claims' = claims
    BY <1>1, <1>6, ResetPreserves DEF RecoverStalledJobs
  <2>2. QED
    BY <1>1, <1>6, <2>1, SameClaims, RowStepPreserves DEF RecoverStalledJobs, localVars, faultVars
<1>7. CASE ClaimLost(j)
  <2>1. RowInv' /\ \A k \in Jobs : claims[k] <= claims'[k]
    BY <1>1, <1>7, ClaimPreserves DEF ClaimLost
  <2>2. QED
    BY <1>7, <2>1, RowStepPreserves DEF ClaimLost, localVars
<1>8. QED
  BY <1>2, <1>3, <1>4, <1>5, <1>6, <1>7

(* The token of a new execution is the one the claim has issued. *)
LEMMA StartPreserves ==
    ASSUME QueueInv, NEW e \in Executions, NEW j \in Jobs, Claim(e, j)
    PROVE  QueueInv'
<1> USE DEF Claim, faultVars
<1>1. /\ RowInv'
      /\ claims'[j] = claims[j] + 1
      /\ \A k \in Jobs : claims[k] <= claims'[k]
  BY ClaimPreserves DEF QueueInv
<1>2. claims'[j] \in Nat \ {0} /\ row[j].attempts \in 0..MaxAttempts
  BY <1>1, QueueAssumption DEF QueueInv, RowInv, RowsTyped, RowType
<1>3. LocalTyped'
  <2>1. exec \in [Executions -> ExecType]
    BY DEF QueueInv, LocalTyped
  <2>2. [exec[e] EXCEPT !.pc = "work", !.job = j, !.tok = claims'[j],
                        !.attempts = row[j].attempts] \in ExecType
    BY <1>2, <2>1 DEF ExecType
  <2>3. exec' \in [Executions -> ExecType]
    BY <2>1, <2>2
  <2>4. QED
    BY <2>3 DEF QueueInv, LocalTyped
<1>4. exec'[e].job = j /\ exec'[e].tok = claims'[j]
  BY DEF QueueInv, LocalTyped, ExecType
<1>5. ASSUME NEW o \in Executions, exec'[o].pc # "idle"
      PROVE  Held(exec'[o].job, exec'[o].tok) \/ Issued(exec[o].job, exec[o].tok)'
  <2>1. CASE o = e
    BY <1>2, <1>4, <2>1 DEF Issued
  <2>2. CASE o # e
    BY <1>5, <2>2 DEF QueueInv, LocalTyped, Held
  <2>3. QED
    BY <2>1, <2>2
<1>6. /\ \A g \in ghosts' : Held(g.job, g.tok)
      /\ \A c \in late' : Held(c.job, c.tok)
  BY DEF Held
<1>7. QED
  BY <1>1, <1>3, <1>5, <1>6, HoldersPreserved

(* The processor's own steps pass its token on, or leave it alone. *)
LEMMA WorkPreserves ==
    ASSUME QueueInv, NEW e \in Executions,
           Succeed(e) \/ Throw(e) \/ TimeOut(e)
    PROVE  QueueInv'
<1>1. /\ UNCHANGED rowVars /\ exec[e].pc = "work"
      /\ UNCHANGED late
  BY DEF Succeed, Throw, TimeOut, faultVars
<1>2. PICK pc \in {"complete", "fail"}, retry \in BOOLEAN :
        exec' = [exec EXCEPT ![e] = [@ EXCEPT !.pc = pc, !.retry = retry]]
  <2>0. exec \in [Executions -> ExecType] /\ exec[e].retry \in BOOLEAN
    BY DEF QueueInv, LocalTyped, ExecType
  <2>1. CASE Succeed(e)
    <3>1. exec' = [exec EXCEPT ![e] = [@ EXCEPT !.pc = "complete",
                                                !.retry = exec[e].retry]]
      BY <2>0, <2>1 DEF Succeed, ExecType
    <3>2. QED
      BY <2>0, <3>1
  <2>2. CASE Throw(e)
    <3>1. PICK transient \in BOOLEAN :
            ToFail(e, transient /\ HasAttemptsRemaining(e))
      BY <2>2 DEF Throw
    <3>2. (transient /\ HasAttemptsRemaining(e)) \in BOOLEAN
      BY Zenon
    <3>3. QED
      BY <3>1, <3>2, Zenon DEF ToFail
  <2>3. CASE TimeOut(e)
    <3>1. HasAttemptsRemaining(e) \in BOOLEAN
      BY DEF HasAttemptsRemaining
    <3>2. ToFail(e, HasAttemptsRemaining(e))
      BY <2>3 DEF TimeOut
    <3>3. QED
      BY <3>1, <3>2, Zenon DEF ToFail
  <2>4. QED
    BY <2>1, <2>2, <2>3
<1>3. exec' \in [Executions -> ExecType]
  <2>1. exec \in [Executions -> ExecType]
    BY DEF QueueInv, LocalTyped
  <2>2. [exec[e] EXCEPT !.pc = pc, !.retry = retry] \in ExecType
    BY <2>1 DEF ExecType
  <2>3. QED
    BY <1>2, <2>1, <2>2
<1>4. \A o \in Executions : exec'[o].pc # "idle" => Held(exec'[o].job, exec'[o].tok)
  BY <1>1, <1>2 DEF QueueInv, LocalTyped, ExecType, Held
<1>5. /\ ghosts' \subseteq GhostType
      /\ \A g \in ghosts' : Held(g.job, g.tok)
  <2>1. CASE UNCHANGED ghosts
    BY <2>1 DEF QueueInv, LocalTyped, Held
  <2>2. CASE TimeOut(e)
    <3> DEFINE new == [process |-> ProcessOf[e], job |-> exec[e].job,
                       tok |-> exec[e].tok, said |-> exec[e].said]
    <3>1. Held(new.job, new.tok)
      BY <1>1 DEF Held
    <3>2. new.job \in Jobs
      BY <3>1, HeldIsIssued
    <3>3. new \in GhostType
      BY <3>2, QueueAssumption DEF QueueInv, LocalTyped, ExecType, GhostType
    <3>4. ghosts' = ghosts \cup {new}
      BY <2>2 DEF TimeOut
    <3>5. QED
      BY <3>1, <3>3, <3>4 DEF QueueInv, LocalTyped, Held
  <2>3. QED
    BY <2>1, <2>2 DEF Succeed, Throw
<1>6. LocalTyped' /\ \A c \in late' : Held(c.job, c.tok)
  BY <1>1, <1>3, <1>5 DEF QueueInv, LocalTyped, Held
<1>7. RowInv' /\ \A k \in Jobs : claims[k] <= claims'[k]
  BY <1>1, SameClaims DEF QueueInv, RowInv, RowsTyped, TokenIsLastClaim, OneLivePerKey, rowVars
<1>8. QED
  BY <1>4, <1>5, <1>6, <1>7, HoldersPreserved

(* A report is written under the token its processor holds. *)
LEMMA ReportActionPreserves ==
    ASSUME QueueInv, NEW e \in Executions, NEW status \in Said, Report(e, status)
    PROVE  QueueInv'
<1> USE DEF Report, faultVars
<1>1. Held(exec[e].job, exec[e].tok)
  BY DEF Held
<1>2. status \in {"processing", "completed", "failed"}
  BY DEF MayReport
<1>3. RowInv' /\ claims' = claims
  BY <1>1, <1>2, HeldIsIssued, ReportPreserves DEF QueueInv
<1>4. \A k \in Jobs : claims[k] <= claims'[k]
  BY <1>3, SameClaims DEF QueueInv
<1>5. LocalTyped'
  BY DEF QueueInv, LocalTyped, ExecType
<1>6. \A o \in Executions : exec'[o].pc # "idle" => Held(exec'[o].job, exec'[o].tok)
  BY DEF QueueInv, LocalTyped, ExecType, Held
<1>7. /\ \A g \in ghosts' : Held(g.job, g.tok)
      /\ \A c \in late' : Held(c.job, c.tok)
  BY DEF Held
<1>8. QED
  BY <1>3, <1>4, <1>5, <1>6, <1>7, HoldersPreserved

(* The end of an execution: its slot is emptied, or its call tried again. *)
LEMMA EndPreserves ==
    ASSUME QueueInv, NEW e \in Executions, Complete(e) \/ Fail(e)
    PROVE  QueueInv'
<1> DEFINE j == exec[e].job
           tok == exec[e].tok
<1>1. exec[e].pc # "idle" /\ Held(j, tok)
  BY DEF Complete, Fail, Held
<1>2. j \in Jobs /\ tok \in Nat \ {0}
  BY <1>1, HeldIsIssued
<1>3. RowInv' /\ claims' = claims
  <2>1. CASE UNCHANGED rowVars
    BY <2>1 DEF QueueInv, RowInv, RowsTyped, TokenIsLastClaim, OneLivePerKey, rowVars
  <2>2. CASE CompleteQueueJob(j, tok)
    BY <1>2, <2>2, CompletePreserves DEF QueueInv
  <2>3. CASE FailQueueJob(j, tok, exec[e].retry)
    BY <1>2, <2>3, FailPreserves DEF QueueInv
  <2>4. QED
    BY <2>1, <2>2, <2>3 DEF Complete, Fail
<1>4. \A k \in Jobs : claims[k] <= claims'[k]
  BY <1>3, SameClaims DEF QueueInv
<1>5. /\ exec' \in [Executions -> ExecType]
      /\ \A o \in Executions :
           exec'[o].pc # "idle" => Held(exec'[o].job, exec'[o].tok)
  <2>0. exec \in [Executions -> ExecType] /\ Resting \in ExecType
    BY QueueAssumption
    DEF QueueInv, LocalTyped, Resting, ExecType, MaxTries, NoToken, Said
  <2>1. CASE exec' = [exec EXCEPT ![e] = Resting]
    BY <2>0, <2>1 DEF Held, Resting
  <2>2. CASE /\ exec[e].tries + 1 < MaxTries
             /\ exec' = [exec EXCEPT ![e].tries = @ + 1]
    <3>1. exec[e].tries + 1 \in 0..MaxTries
      BY <2>0, <2>2 DEF ExecType, MaxTries
    <3>2. [exec[e] EXCEPT !.tries = @ + 1] \in ExecType
      BY <2>0, <3>1 DEF ExecType
    <3>3. exec' \in [Executions -> ExecType]
      BY <2>0, <2>2, <3>2
    <3>4. \A o \in Executions : /\ exec'[o].pc = exec[o].pc
                                 /\ exec'[o].job = exec[o].job
                                 /\ exec'[o].tok = exec[o].tok
      BY <2>0, <2>2 DEF ExecType
    <3>5. QED
      BY <3>3, <3>4 DEF Held
  <2>3. QED
    BY <2>1, <2>2 DEF Complete, Fail, CompletionFails, Release
<1>6. /\ late' \subseteq CallType
      /\ \A c \in late' : Held(c.job, c.tok)
  <2>1. CASE UNCHANGED late
    BY <2>1 DEF QueueInv, LocalTyped, Held
  <2>2. ASSUME NEW name \in {"complete", "fail"}, GiveUp(e, name)
        PROVE  /\ late' \subseteq CallType
               /\ \A c \in late' : Held(c.job, c.tok)
    <3> DEFINE call == [name |-> name, job |-> j, tok |-> tok,
                        retry |-> exec[e].retry]
    <3>1. exec[e].retry \in BOOLEAN
      BY DEF QueueInv, LocalTyped, ExecType
    <3>2. call \in CallType
      BY <1>2, <3>1 DEF CallType
    <3>3. late' = late \cup {call}
      BY <2>2 DEF GiveUp
    <3>4. QED
      BY <1>1, <3>2, <3>3 DEF QueueInv, LocalTyped, Held
  <2>3. QED
    BY <2>1, <2>2 DEF Complete, Fail, faultVars
<1>7. /\ ghosts' \subseteq GhostType
      /\ \A g \in ghosts' : Held(g.job, g.tok)
  BY DEF Complete, Fail, QueueInv, LocalTyped, Held
<1>8. QED
  BY <1>3, <1>4, <1>5, <1>6, <1>7, HoldersPreserved DEF LocalTyped

(* A call that comes late comes with the token of its sender. *)
LEMMA LateCallPreserves ==
    ASSUME QueueInv, LateCall
    PROVE  QueueInv'
<1>1. PICK c \in late :
        /\ late' = late \ {c}
        /\ CompleteQueueJob(c.job, c.tok) \/ FailQueueJob(c.job, c.tok, c.retry)
        /\ UNCHANGED localVars
  BY DEF LateCall
<1>2. c.job \in Jobs /\ c.tok \in Nat \ {0}
  BY HeldIsIssued DEF Held
<1>3. RowInv' /\ claims' = claims
  BY <1>1, <1>2, CompletePreserves, FailPreserves DEF QueueInv
<1>4. \A k \in Jobs : claims[k] <= claims'[k]
  BY <1>3, SameClaims DEF QueueInv
<1>5. LocalTyped'
  BY <1>1 DEF QueueInv, LocalTyped, localVars
<1>6. /\ \A e \in Executions :
           exec'[e].pc # "idle" => Held(exec'[e].job, exec'[e].tok)
      /\ \A g \in ghosts' : Held(g.job, g.tok)
      /\ \A d \in late' : Held(d.job, d.tok)
  BY <1>1 DEF Held, localVars
<1>7. QED
  BY <1>3, <1>4, <1>5, <1>6, HoldersPreserved

(* An abandoned processor writes under its token, or ends. *)
LEMMA GhostPreserves ==
    ASSUME QueueInv, NEW g \in ghosts,
           \/ GhostProgresses(g)
           \/ \E status \in Said : GhostReports(g, status)
           \/ GhostEnds(g)
    PROVE  QueueInv'
<1>1. g \in GhostType /\ Held(g.job, g.tok)
  BY DEF QueueInv, LocalTyped, Held
<1>2. g.job \in Jobs /\ g.tok \in Nat \ {0}
  BY <1>1, HeldIsIssued
<1>3. UNCHANGED <<exec, late>>
  BY DEF GhostProgresses, GhostReports, GhostEnds, localVars, faultVars
<1>4. CASE GhostProgresses(g)
  <2>1. RowInv' /\ claims' = claims
    BY <1>2, <1>4, AgeingPreserves DEF GhostProgresses, QueueInv
  <2>2. \A k \in Jobs : claims[k] <= claims'[k]
    BY <2>1, SameClaims DEF QueueInv
  <2>3. QED
    BY <1>3, <1>4, <2>1, <2>2, RowStepPreserves DEF GhostProgresses, localVars
<1>5. ASSUME NEW status \in Said, GhostReports(g, status)
      PROVE  QueueInv'
  <2> DEFINE said == [g EXCEPT !.said = status]
  <2>1. status \in {"processing", "completed", "failed"} /\ g.job \in Reporters
    BY <1>5 DEF GhostReports, MayReport
  <2>2. RowInv' /\ claims' = claims
    BY <1>2, <1>5, <2>1, ReportPreserves DEF GhostReports, QueueInv
  <2>3. \A k \in Jobs : claims[k] <= claims'[k]
    BY <2>2, SameClaims DEF QueueInv
  <2>4. said \in GhostType /\ said.job = g.job /\ said.tok = g.tok
    BY <1>1 DEF GhostType
  <2>5. ghosts' = (ghosts \ {g}) \cup {said}
    BY <1>5 DEF GhostReports
  <2>6. LocalTyped'
    BY <1>3, <2>4, <2>5 DEF QueueInv, LocalTyped
  <2>7. \A h \in ghosts' : Held(h.job, h.tok)
    BY <1>1, <2>4, <2>5 DEF Held
  <2>8. /\ \A e \in Executions :
             exec'[e].pc # "idle" => Held(exec'[e].job, exec'[e].tok)
        /\ \A c \in late' : Held(c.job, c.tok)
    BY <1>3 DEF Held
  <2>9. QED
    BY <2>2, <2>3, <2>6, <2>7, <2>8, HoldersPreserved
<1>6. CASE GhostEnds(g)
  <2>1. RowInv' /\ claims' = claims
    BY <1>6 DEF GhostEnds, rowVars, QueueInv, RowInv, RowsTyped, TokenIsLastClaim, OneLivePerKey
  <2>2. \A k \in Jobs : claims[k] <= claims'[k]
    BY <2>1, SameClaims DEF QueueInv
  <2>3. LocalTyped' /\ \A h \in ghosts' : Held(h.job, h.tok)
    BY <1>3, <1>6 DEF GhostEnds, QueueInv, LocalTyped, Held
  <2>4. /\ \A e \in Executions :
             exec'[e].pc # "idle" => Held(exec'[e].job, exec'[e].tok)
        /\ \A c \in late' : Held(c.job, c.tok)
    BY <1>3 DEF Held
  <2>5. QED
    BY <2>1, <2>2, <2>3, <2>4, HoldersPreserved
<1>7. QED
  BY <1>4, <1>5, <1>6

(* A crash forgets the executions and processors of its process. *)
LEMMA CrashPreserves ==
    ASSUME QueueInv, NEW p \in Processes, Crash(p)
    PROVE  QueueInv'
<1> USE DEF Crash
<1>1. RowInv' /\ claims' = claims
  BY DEF rowVars, QueueInv, RowInv, RowsTyped, TokenIsLastClaim, OneLivePerKey
<1>2. \A k \in Jobs : claims[k] <= claims'[k]
  BY <1>1, SameClaims DEF QueueInv
<1>3. Resting \in ExecType
  BY QueueAssumption DEF Resting, ExecType, MaxTries, NoToken, Said
<1>4. LocalTyped'
  BY <1>3 DEF QueueInv, LocalTyped, faultVars
<1>5. /\ \A e \in Executions :
           exec'[e].pc # "idle" => Held(exec'[e].job, exec'[e].tok)
      /\ \A g \in ghosts' : Held(g.job, g.tok)
      /\ \A c \in late' : Held(c.job, c.tok)
  BY DEF Held, Resting, faultVars
<1>6. QED
  BY <1>1, <1>2, <1>4, <1>5, HoldersPreserved

-----------------------------------------------------------------------------
(* The theorems *)

(* The empty queue satisfies the invariant. *)
LEMMA InitEstablishes == Init => QueueInv
<1> SUFFICES ASSUME Init PROVE QueueInv
  OBVIOUS
<1> USE QueueAssumption DEF Init
<1>1. RowsTyped
  BY DEF RowsTyped, Absent, RowType, NoToken, Live, Final
<1>2. TokenIsLastClaim
  BY DEF TokenIsLastClaim, Absent, NoToken
<1>3. OneLivePerKey
  BY DEF OneLivePerKey, Absent, Live
<1>4. LocalTyped
  BY DEF LocalTyped, Resting, ExecType, MaxTries, NoToken, Said
<1>5. TokensIssued
  BY DEF TokensIssued, Resting
<1>6. QED
  BY <1>1, <1>2, <1>3, <1>4, <1>5 DEF QueueInv, RowInv

(* Every step keeps it. *)
LEMMA NextPreserves == QueueInv /\ [Next]_vars => QueueInv'
<1> SUFFICES ASSUME QueueInv, [Next]_vars PROVE QueueInv'
  OBVIOUS
<1>1. ASSUME NEW e \in Executions, Run(e) PROVE QueueInv'
  BY <1>1, StartPreserves, WorkPreserves, ReportActionPreserves, EndPreserves DEF Run
<1>2. ASSUME NEW j \in Jobs,
             \/ Add(j) \/ Cancel(j) \/ BecomesDue(j) \/ HeartbeatLapses(j)
             \/ RecoverStalledJobs(j) \/ ClaimLost(j)
      PROVE  QueueInv'
  BY <1>2, RowActionsPreserve
<1>3. CASE LateCall
  BY <1>3, LateCallPreserves
<1>4. ASSUME NEW g \in ghosts,
             \/ GhostProgresses(g)
             \/ \E status \in Said : GhostReports(g, status)
             \/ GhostEnds(g)
      PROVE  QueueInv'
  BY <1>4, GhostPreserves
<1>5. ASSUME NEW p \in Processes, Crash(p) PROVE QueueInv'
  BY <1>5, CrashPreserves
<1>6. CASE UNCHANGED vars
  BY <1>6 DEF vars, QueueInv, RowInv, RowsTyped, TokenIsLastClaim, OneLivePerKey,
              LocalTyped, TokensIssued, Issued
<1>7. QED
  BY <1>1, <1>2, <1>3, <1>4, <1>5, <1>6 DEF Next

(***************************************************************************)
(* The token in a row is the one of its last claim, which is not paid, and *)
(* every token in circulation was issued by a claim of its job.            *)
(***************************************************************************)
THEOREM QueueInvariant == Spec => []QueueInv
<1>1. QED
  BY InitEstablishes, NextPreserves, PTL DEF Spec

(***************************************************************************)
(* At most one live row per key: neither a requeue, nor the report of an   *)
(* abandoned processor, nor a late failure revives a row whose key is      *)
(* taken.                                                                  *)
(***************************************************************************)
THEOREM KeyIsUnique == Spec => []OneLivePerKey
<1>1. QueueInv => OneLivePerKey
  BY DEF QueueInv, RowInv
<1>2. QED
  BY <1>1, QueueInvariant, PTL

(***************************************************************************)
(* Each claim costs exactly one attempt, so no job is claimed more than    *)
(* max_attempts times.                                                     *)
(***************************************************************************)
THEOREM AttemptsPayForClaims == Spec => []ClaimsArePaid
<1>1. QueueInv => ClaimsArePaid
  BY QueueAssumption
  DEF QueueInv, RowInv, RowsTyped, RowType, TokenIsLastClaim, ClaimsArePaid, Live
<1>2. QED
  BY <1>1, QueueInvariant, PTL

-----------------------------------------------------------------------------
(* Outcomes *)

(* Completing takes the token: a second call finds none. *)
LEMMA CompleteKeepsOutcome ==
    ASSUME RowInv, NEW k \in Jobs, NEW tok \in Nat \ {0},
           CompleteQueueJob(k, tok)
    PROVE  KeepsOutcome
BY DEF RowInv, RowsTyped, RowType, TokenIsLastClaim, CompleteQueueJob, Owns,
       NoToken, KeepsOutcome, Final

(* So does failing, and a cancelled row is not failed. *)
LEMMA FailKeepsOutcome ==
    ASSUME RowInv, NEW k \in Jobs, NEW tok \in Nat \ {0}, NEW retry,
           FailQueueJob(k, tok, retry)
    PROVE  KeepsOutcome
<1>1. CASE UNCHANGED row
  BY <1>1 DEF KeepsOutcome
<1>2. CASE ~UNCHANGED row
  <2>1. /\ row[k].status \in {"processing", "failed"} /\ row[k].token # NoToken
        /\ row' = Requeued(k) \/ row' = Failed(k)
    BY <1>2 DEF FailQueueJob, Owns, NoToken
  <2>2. k \in Reporters \/ row[k].status \notin Final
    BY <2>1 DEF RowInv, TokenIsLastClaim, Final
  <2>3. \A j \in Jobs : j # k => row'[j] = row[j]
    BY <2>1 DEF Requeued, Failed, RowInv, RowsTyped
  <2>4. QED
    BY <2>2, <2>3 DEF KeepsOutcome
<1>3. QED
  BY <1>1, <1>2

(* No step of anyone changes the outcome of a finished job. *)
LEMMA StepKeepsOutcome == QueueInv /\ [Next]_vars => KeepsOutcome
<1> SUFFICES ASSUME QueueInv, [Next]_vars PROVE KeepsOutcome
  OBVIOUS
<1>0. RowInv /\ RowsTyped
  BY DEF QueueInv, RowInv
<1>1. CASE UNCHANGED row
  BY <1>1 DEF KeepsOutcome
<1>2. ASSUME NEW k \in Jobs, NEW tok, Held(k, tok),
             \/ CompleteQueueJob(k, tok)
             \/ \E retry \in BOOLEAN : FailQueueJob(k, tok, retry)
      PROVE  KeepsOutcome
  BY <1>0, <1>2, HeldIsIssued, CompleteKeepsOutcome, FailKeepsOutcome
<1>3. ASSUME NEW k \in Reporters, NEW tok, NEW status, UpdateJobStatus(k, tok, status)
      PROVE  KeepsOutcome
  BY <1>0, <1>3 DEF KeepsOutcome, UpdateJobStatus, RowsTyped, RowType
<1>4. ASSUME NEW e \in Executions, Run(e) PROVE KeepsOutcome
  <2>1. CASE \E j \in Jobs : Claim(e, j)
    BY <1>0, <2>1 DEF Claim, ClaimPendingJob, KeepsOutcome, RowsTyped, RowType, Final
  <2>2. CASE \E status \in Said : Report(e, status)
    BY <1>3, <2>2 DEF Report
  <2>3. CASE Succeed(e) \/ Throw(e) \/ TimeOut(e)
    BY <1>1, <2>3 DEF Succeed, Throw, TimeOut, rowVars
  <2>4. CASE Complete(e) \/ Fail(e)
    <3>1. exec[e].pc # "idle" /\ Held(exec[e].job, exec[e].tok)
      BY <2>4 DEF Complete, Fail, Held
    <3>2. exec[e].retry \in BOOLEAN
      BY DEF QueueInv, LocalTyped, ExecType
    <3>3. exec[e].job \in Jobs
      BY <3>1, HeldIsIssued
    <3>4. QED
      BY <1>1, <1>2, <2>4, <3>1, <3>2, <3>3 DEF Complete, Fail, rowVars
  <2>5. QED
    BY <1>4, <2>1, <2>2, <2>3, <2>4 DEF Run
<1>5. ASSUME NEW j \in Jobs,
             \/ Add(j) \/ Cancel(j) \/ BecomesDue(j) \/ HeartbeatLapses(j)
             \/ RecoverStalledJobs(j) \/ ClaimLost(j)
      PROVE  KeepsOutcome
  <2>1. CASE Add(j)
    BY <1>0, <2>1 DEF Add, AddQueueJob, KeepsOutcome, RowsTyped, RowType, Final
  <2>2. CASE Cancel(j)
    BY <1>0, <2>2 DEF Cancel, CancelJob, KeepsOutcome, RowsTyped, RowType, Live, Final
  <2>3. CASE BecomesDue(j) \/ HeartbeatLapses(j)
    BY <1>0, <2>3 DEF BecomesDue, HeartbeatLapses, KeepsOutcome, RowsTyped, RowType
  <2>4. CASE RecoverStalledJobs(j)
    BY <1>0, <2>4 DEF RecoverStalledJobs, ResetStalledJobs, Requeued, Failed,
                      KeepsOutcome, RowsTyped, RowType, Final
  <2>5. CASE ClaimLost(j)
    BY <1>0, <2>5 DEF ClaimLost, ClaimPendingJob, KeepsOutcome, RowsTyped, RowType, Final
  <2>6. QED
    BY <1>5, <2>1, <2>2, <2>3, <2>4, <2>5
<1>6. CASE LateCall
  <2>1. PICK c \in late : \/ CompleteQueueJob(c.job, c.tok)
                          \/ FailQueueJob(c.job, c.tok, c.retry)
    BY <1>6 DEF LateCall
  <2>2. Held(c.job, c.tok) /\ c.retry \in BOOLEAN
    BY DEF Held, QueueInv, LocalTyped, CallType
  <2>3. QED
    BY <1>2, <2>1, <2>2, HeldIsIssued
<1>7. ASSUME NEW g \in ghosts,
             \/ GhostProgresses(g)
             \/ \E status \in Said : GhostReports(g, status)
             \/ GhostEnds(g)
      PROVE  KeepsOutcome
  <2>1. g.job \in Jobs
    BY DEF QueueInv, LocalTyped, GhostType
  <2>2. CASE GhostProgresses(g)
    BY <1>0, <2>1, <2>2 DEF GhostProgresses, KeepsOutcome, RowsTyped, RowType
  <2>3. CASE \E status \in Said : GhostReports(g, status)
    BY <1>3, <2>3 DEF GhostReports
  <2>4. CASE GhostEnds(g)
    BY <1>1, <2>4 DEF GhostEnds, rowVars
  <2>5. QED
    BY <1>7, <2>2, <2>3, <2>4
<1>8. CASE \E p \in Processes : Crash(p)
  BY <1>1, <1>8 DEF Crash, rowVars
<1>9. QED
  BY <1>1, <1>4, <1>5, <1>6, <1>7, <1>8 DEF Next, vars

(***************************************************************************)
(* A job that has ended keeps its outcome, whatever call of whatever owner *)
(* arrives and however late, unless its processor reports for itself.      *)
(***************************************************************************)
THEOREM OutcomesAreKept == Spec => FinalIsFinal
<1>1. QED
  BY StepKeepsOutcome, QueueInvariant, PTL DEF Spec, FinalIsFinal

-----------------------------------------------------------------------------
(* Who holds a claim, and in which role *)

(* The claim t of the job j is in the slot e. *)
Holds(e, j, t) == exec[e].pc # "idle" /\ exec[e].job = j /\ exec[e].tok = t

(* Its processor works, or has returned in time. *)
Working(e) == exec[e].pc \in {"work", "complete"}

(* Its processor failed or was abandoned: only failures are reported for it. *)
GivenUp(j, t) ==
    \/ \E e \in Executions : exec[e].pc = "fail" /\ Holds(e, j, t)
    \/ \E g \in ghosts : g.job = j /\ g.tok = t
    \/ \E c \in late : c.name = "fail" /\ c.job = j /\ c.tok = t

OneHolder ==
    \A e, o \in Executions :
        exec[e].pc # "idle" /\ Holds(o, exec[e].job, exec[e].tok) => e = o

WorkingIsNotGivenUp ==
    \A e \in Executions : Working(e) => ~GivenUp(exec[e].job, exec[e].tok)

(* A claim whose processor returned in time is only ever completed. *)
FinishedIsNotGivenUp ==
    \A j \in Jobs : \A t \in finished[j] :
        /\ t \in 1..claims[j]
        /\ ~GivenUp(j, t)
        /\ \A e \in Executions : Holds(e, j, t) => exec[e].pc = "complete"

CompletionsAreDue ==
    /\ \A e \in Executions :
         exec[e].pc = "complete" => exec[e].tok \in finished[exec[e].job]
    /\ \A c \in late : c.name = "complete" => c.tok \in finished[c.job]

(* A completion call is tried again because one was given up on. *)
TriesAreFaults == \A e \in Executions : exec[e].tries <= faults

CountersTyped ==
    /\ active \in [Processes -> SUBSET Jobs]
    /\ finished \in [Jobs -> SUBSET Nat]
    /\ faults \in 0..MaxFaults
    /\ crashes \in 0..MaxCrashes

HoldersInv ==
    /\ CountersTyped
    /\ OneHolder
    /\ WorkingIsNotGivenUp
    /\ FinishedIsNotGivenUp
    /\ CompletionsAreDue
    /\ TriesAreFaults

-----------------------------------------------------------------------------
(* What heartbeats that arrive are good for *)

(* Nobody else has claimed a job that is worked on, or may do so. *)
WorkingOwns ==
    \A e \in Executions : Working(e) =>
        /\ exec[e].tok = claims[exec[e].job]
        /\ row[exec[e].job].status \notin {"absent", "pending"}

StaleIsUnattended ==
    \A j \in Jobs :
        row[j].status = "processing" /\ row[j].stale => ~Attended(j, row[j].token)

Few == faults < MaxTries /\ crashes = 0

(* As long as little goes wrong, a success is followed by its completion. *)
FinishedIsFollowed ==
    Few => \A j \in Jobs : \A t \in finished[j] :
        /\ claims[j] = t
        /\ row[j].status \notin {"absent", "pending"}
        /\ row[j].status = "processing" =>
             \E e \in Executions : exec[e].pc = "complete" /\ Holds(e, j, t)

AttendedInv ==
    ~HeartbeatsMayFail => WorkingOwns /\ StaleIsUnattended /\ FinishedIsFollowed

Known == QueueInv /\ HoldersInv /\ CompletedByLastClaim /\ AttendedInv

-----------------------------------------------------------------------------
(* What may become of a row in one step, and by whom *)

(* It stands as it is; it only goes stale when nobody attends to the job. *)
Stands(j) ==
    /\ row'[j].status = row[j].status /\ row'[j].token = row[j].token
    /\ row'[j].stale /\ row[j].status = "processing" =>
         row[j].stale \/ HeartbeatsMayFail \/ ~Attended(j, row[j].token)

Taken(j) ==
    /\ row[j].status = "pending" /\ claims'[j] = claims[j] + 1
    /\ row'[j].status = "processing" /\ ~row'[j].stale

Closed(j) ==
    \/ row'[j].status = "cancelled"
    \/ /\ row[j].token # NoToken /\ row[j].token \in finished[j]
       /\ row'[j].status = "completed"

Reported(j) ==
    /\ j \in Reporters
    /\ row[j].token # NoToken /\ row'[j].token = row[j].token
    /\ row'[j].status \in {"processing", "completed", "failed"} /\ ~row'[j].stale
    /\ \/ GivenUp(j, row[j].token)
       \/ \E e \in Executions : exec[e].pc = "work" /\ Holds(e, j, row[j].token)

PutBack(j) ==
    /\ row'[j].status \in {"pending", "failed"}
    /\ \/ row[j].token # NoToken /\ GivenUp(j, row[j].token)
       \/ row[j].status = "processing" /\ row[j].stale

RowChange(j) ==
    \/ Taken(j)
    \/ /\ claims'[j] = claims[j]
       /\ \/ Stands(j)
          \/ row[j].status = "absent" /\ row'[j].status = "pending"
          \/ Closed(j)
          \/ Reported(j)
          \/ PutBack(j)

RowsChange == \A j \in Jobs : RowChange(j)

-----------------------------------------------------------------------------
(* What may become of a slot *)

GoesOn(e) ==
    /\ exec[e].pc # "idle" /\ exec'[e].job = exec[e].job /\ exec'[e].tok = exec[e].tok
    /\ exec'[e].pc = exec[e].pc \/ exec[e].pc = "work"
    /\ exec[e].pc = "work" /\ exec'[e].pc = "complete" =>
         exec[e].tok \in finished'[exec[e].job]

Starts(e) ==
    /\ exec[e].pc = "idle" /\ exec'[e].pc = "work"
    /\ exec'[e].job \in Jobs
    /\ exec'[e].tok = claims[exec'[e].job] + 1
    /\ Taken(exec'[e].job)

(* A completion is dropped only when it was refused, or too much went wrong. *)
Leaves(e) ==
    /\ exec'[e].pc = "idle"
    /\ exec[e].pc = "complete" =>
         \/ ~Few'
         \/ ~(row'[exec[e].job].status = "processing"
              /\ row'[exec[e].job].token = exec[e].tok)

SlotsChange ==
    /\ \A e \in Executions : GoesOn(e) \/ Starts(e) \/ Leaves(e)
    /\ \A e, o \in Executions : Starts(e) /\ Starts(o) => e = o

(* A processor is abandoned by the execution that fails the job, a call is *)
(* given up on by the execution that makes it.                             *)
HoldersChange ==
    /\ \A g \in ghosts' :
         \/ \E h \in ghosts : h.job = g.job /\ h.tok = g.tok
         \/ \E e \in Executions :
              exec[e].pc = "work" /\ exec'[e].pc = "fail" /\ Holds(e, g.job, g.tok)
    /\ \A c \in late' :
         \/ c \in late
         \/ \E e \in Executions :
              /\ exec[e].pc = c.name /\ Holds(e, c.job, c.tok)
              /\ c.name = "fail" => exec'[e].pc = "idle"
    /\ \A j \in Jobs : \A t \in finished'[j] :
         \/ t \in finished[j]
         \/ \E e \in Executions :
              exec[e].pc = "work" /\ exec'[e].pc = "complete" /\ Holds(e, j, t)
    /\ \A j \in Jobs : finished[j] \subseteq finished'[j]

CountersChange ==
    /\ CountersTyped'
    /\ faults <= faults' /\ crashes <= crashes'
    /\ \A e \in Executions : exec'[e].tries <= faults'

Changes == RowsChange /\ SlotsChange /\ HoldersChange /\ CountersChange

-----------------------------------------------------------------------------
(* Such a step keeps what is known *)

(* What the steps below take from the invariant of the rows. *)
LEMMA TypesKnown ==
    ASSUME QueueInv
    PROVE  /\ RowInv /\ RowsTyped
           /\ row \in [Jobs -> RowType] /\ claims \in [Jobs -> 0..MaxAttempts]
           /\ MaxAttempts \in Nat
           /\ \A j \in Jobs : claims[j] \in Nat /\ row[j].token \in Nat
           /\ exec \in [Executions -> ExecType]
           /\ ghosts \subseteq GhostType /\ late \subseteq CallType
           /\ \A e \in Executions : exec[e].pc # "idle" =>
                exec[e].job \in Jobs /\ exec[e].tok \in 1..claims[exec[e].job]
           /\ \A g \in ghosts : g.job \in Jobs /\ g.tok \in 1..claims[g.job]
           /\ \A c \in late : c.job \in Jobs /\ c.tok \in 1..claims[c.job]
BY QueueAssumption DEF QueueInv, RowInv, RowsTyped, LocalTyped, TokensIssued, Issued, RowType

(* A token in a row is the last claim's; a live claim has one. *)
LEMMA TokensKnown ==
    ASSUME QueueInv, NEW j \in Jobs
    PROVE  /\ row[j].token # NoToken =>
                /\ row[j].token = claims[j]
                /\ row[j].status \notin {"absent", "pending"}
           /\ row[j].status = "processing" => row[j].token # NoToken
BY DEF QueueInv, RowInv, TokenIsLastClaim

(* Counting never goes back. *)
LEMMA ClaimsGrow ==
    ASSUME QueueInv, RowsChange, NEW j \in Jobs
    PROVE  claims'[j] = claims[j] \/ claims'[j] = claims[j] + 1
BY DEF RowsChange, RowChange, Taken

(* A new claim is nobody's yet. *)
LEMMA StartIsFresh ==
    ASSUME QueueInv, HoldersInv, NEW e \in Executions, Starts(e)
    PROVE  LET j == exec'[e].job  t == exec'[e].tok
           IN  /\ j \in Jobs /\ t = claims'[j]
               /\ \A o \in Executions : ~Holds(o, j, t)
               /\ ~GivenUp(j, t)
               /\ t \notin finished[j]
<1> DEFINE j == exec'[e].job
           t == exec'[e].tok
<1>1. j \in Jobs /\ t = claims[j] + 1 /\ t = claims'[j] /\ t \notin 1..claims[j]
  BY TypesKnown DEF Starts, Taken
<1>2. t \notin finished[j]
  BY <1>1 DEF HoldersInv, FinishedIsNotGivenUp
<1>3. QED
  BY <1>1, <1>2, TypesKnown DEF Holds, GivenUp

(* A claim is held by the slot it was given to and by no other. *)
LEMMA OneHolderKept ==
    ASSUME QueueInv, HoldersInv, Changes
    PROVE  OneHolder'
<1> SUFFICES ASSUME NEW e \in Executions, NEW o \in Executions,
                    exec'[e].pc # "idle", Holds(o, exec[e].job, exec[e].tok)'
             PROVE  e = o
  BY DEF OneHolder
<1>1. /\ GoesOn(e) \/ Starts(e)
      /\ GoesOn(o) \/ Starts(o)
  BY DEF Changes, SlotsChange, Leaves, Holds
<1>2. CASE GoesOn(e) /\ GoesOn(o)
  BY <1>2 DEF GoesOn, Holds, HoldersInv, OneHolder
<1>3. CASE GoesOn(e) /\ Starts(o)
  BY <1>3, StartIsFresh DEF GoesOn, Holds
<1>4. CASE Starts(e) /\ GoesOn(o)
  BY <1>4, StartIsFresh DEF GoesOn, Holds
<1>5. CASE Starts(e) /\ Starts(o)
  BY <1>5 DEF Changes, SlotsChange
<1>6. QED
  BY <1>1, <1>2, <1>3, <1>4, <1>5

(* A claim is given up by an execution that worked on it and goes on to fail. *)
LEMMA GivingUp ==
    ASSUME QueueInv, HoldersInv, Changes, NEW j, NEW t, GivenUp(j, t)'
    PROVE  \/ GivenUp(j, t)
           \/ \E e \in Executions :
                /\ exec[e].pc = "work" /\ Holds(e, j, t)
                /\ exec'[e].pc = "fail"
<1>1. CASE \E e \in Executions : exec'[e].pc = "fail" /\ Holds(e, j, t)'
  <2>1. PICK e \in Executions : exec'[e].pc = "fail" /\ Holds(e, j, t)'
    BY <1>1
  <2>2. GoesOn(e)
    BY <2>1 DEF Changes, SlotsChange, Starts, Leaves
  <2>3. Holds(e, j, t) /\ exec[e].pc \in {"fail", "work"}
    BY <2>1, <2>2 DEF GoesOn, Holds
  <2>4. QED
    BY <2>1, <2>3 DEF GivenUp
<1>2. CASE \E g \in ghosts' : g.job = j /\ g.tok = t
  BY <1>2 DEF Changes, HoldersChange, GivenUp
<1>3. CASE \E c \in late' : c.name = "fail" /\ c.job = j /\ c.tok = t
  BY <1>3 DEF Changes, HoldersChange, GivenUp
<1>4. QED
  BY <1>1, <1>2, <1>3 DEF GivenUp

(* A claim is given up on only by the slot that stops working on it. *)
LEMMA WorkingKept ==
    ASSUME QueueInv, HoldersInv, Changes
    PROVE  WorkingIsNotGivenUp'
<1> SUFFICES ASSUME NEW e \in Executions, Working(e)', GivenUp(exec[e].job, exec[e].tok)'
             PROVE  FALSE
  BY DEF WorkingIsNotGivenUp
<1> DEFINE j == exec'[e].job
           t == exec'[e].tok
<1>1. \/ GivenUp(j, t)
      \/ \E o \in Executions :
           exec[o].pc = "work" /\ Holds(o, j, t) /\ exec'[o].pc = "fail"
  BY GivingUp
<1>2. CASE GoesOn(e)
  BY <1>1, <1>2 DEF GoesOn, Working, Holds, HoldersInv, WorkingIsNotGivenUp, OneHolder
<1>3. CASE Starts(e)
  BY <1>1, <1>3, StartIsFresh
<1>4. QED
  BY <1>2, <1>3 DEF Changes, SlotsChange, Leaves, Working

(* A claim that finished in time is not reported as failed afterwards. *)
LEMMA FinishedKept ==
    ASSUME QueueInv, QueueInv', HoldersInv, Changes
    PROVE  FinishedIsNotGivenUp'
<1> SUFFICES ASSUME NEW j \in Jobs, NEW t \in finished'[j]
             PROVE  /\ t \in 1..claims'[j]
                    /\ ~GivenUp(j, t)'
                    /\ \A e \in Executions : Holds(e, j, t)' => exec'[e].pc = "complete"
  BY DEF FinishedIsNotGivenUp
<1>1. \/ t \in finished[j]
      \/ \E e \in Executions :
           exec[e].pc = "work" /\ exec'[e].pc = "complete" /\ Holds(e, j, t)
  BY DEF Changes, HoldersChange
<1>2. t \in 1..claims[j]
  BY <1>1, TypesKnown DEF HoldersInv, FinishedIsNotGivenUp, Holds
<1>3. t \in 1..claims'[j]
  BY <1>2, TypesKnown, ClaimsGrow DEF Changes
<1>4. ~GivenUp(j, t)
  BY <1>1 DEF HoldersInv, FinishedIsNotGivenUp, WorkingIsNotGivenUp, Working, Holds
<1>5. \A e \in Executions : Holds(e, j, t) =>
        exec[e].pc = "complete" \/ exec'[e].pc = "complete"
  BY <1>1 DEF HoldersInv, FinishedIsNotGivenUp, OneHolder, Holds
<1>6. ~GivenUp(j, t)'
  BY <1>4, <1>5, GivingUp
<1>7. ASSUME NEW e \in Executions, Holds(e, j, t)'
      PROVE  exec'[e].pc = "complete"
  <2>1. GoesOn(e) \/ Starts(e)
    BY <1>7 DEF Changes, SlotsChange, Leaves, Holds
  <2>2. ~Starts(e)
    BY <1>2, <1>7, TypesKnown DEF Starts, Holds
  <2>3. QED
    BY <1>5, <1>7, <2>1, <2>2 DEF GoesOn, Holds
<1>8. QED
  BY <1>3, <1>6, <1>7

(* Together: a step of that kind keeps HoldersInv. *)
LEMMA HoldersKept ==
    ASSUME QueueInv, QueueInv', HoldersInv, Changes
    PROVE  HoldersInv'
<1>1. CompletionsAreDue'
  <2>1. ASSUME NEW e \in Executions, exec'[e].pc = "complete"
        PROVE  exec'[e].tok \in finished'[exec'[e].job]
    <3>1. GoesOn(e)
      BY <2>1 DEF Changes, SlotsChange, Starts, Leaves
    <3>2. exec[e].job \in Jobs
      BY <3>1, TypesKnown DEF GoesOn
    <3>3. QED
      BY <2>1, <3>1, <3>2
         DEF GoesOn, HoldersInv, CompletionsAreDue, Changes, HoldersChange
  <2>2. ASSUME NEW c \in late', c.name = "complete"
        PROVE  c.tok \in finished'[c.job]
    <3>1. c.job \in Jobs
      BY TypesKnown DEF Changes, HoldersChange, Holds
    <3>2. c.tok \in finished[c.job]
      BY <2>2 DEF Changes, HoldersChange, HoldersInv, CompletionsAreDue, Holds
    <3>3. QED
      BY <3>1, <3>2 DEF Changes, HoldersChange
  <2>3. QED
    BY <2>1, <2>2 DEF CompletionsAreDue
<1>2. CountersTyped' /\ TriesAreFaults'
  BY DEF Changes, CountersChange, TriesAreFaults
<1>3. QED
  BY <1>1, <1>2, OneHolderKept, WorkingKept, FinishedKept DEF HoldersInv

(* Only the processor of the last claim completes a job. *)
LEMMA CompletedKept ==
    ASSUME QueueInv, CompletedByLastClaim, Changes
    PROVE  CompletedByLastClaim'
<1> SUFFICES ASSUME NEW j \in Jobs \ Reporters, row'[j].status = "completed"
             PROVE  claims'[j] \in finished'[j]
  BY DEF CompletedByLastClaim
<1>1. RowChange(j) /\ finished[j] \subseteq finished'[j]
  BY DEF Changes, RowsChange, HoldersChange
<1>2. claims'[j] = claims[j] /\ (Stands(j) \/ Closed(j))
  BY <1>1 DEF RowChange, Taken, Reported, PutBack
<1>3. QED
  BY <1>1, <1>2, TokensKnown DEF Stands, Closed, CompletedByLastClaim

-----------------------------------------------------------------------------
(* What heartbeats are good for is kept *)

(* A job that is worked on, or whose work was done, is not put back. *)
LEMMA WorkingOwnsKept ==
    ASSUME Known, QueueInv', Changes, ~HeartbeatsMayFail
    PROVE  WorkingOwns'
<1> SUFFICES ASSUME NEW e \in Executions, Working(e)'
             PROVE  /\ exec'[e].tok = claims'[exec'[e].job]
                    /\ row'[exec'[e].job].status \notin {"absent", "pending"}
  BY DEF WorkingOwns
<1> DEFINE j == exec'[e].job
           t == exec'[e].tok
<1> USE DEF Known
<1>1. CASE Starts(e)
  BY <1>1, StartIsFresh DEF Starts, Taken
<1>2. CASE GoesOn(e)
  <2>1. Working(e) /\ Holds(e, j, t) /\ j \in Jobs
    BY <1>2, TypesKnown DEF GoesOn, Working, Holds
  <2>2. t = claims[j] /\ row[j].status \notin {"absent", "pending"}
    BY <2>1 DEF AttendedInv, WorkingOwns, Holds
  <2>3. row[j].token # NoToken => ~GivenUp(j, row[j].token)
    BY <2>1, <2>2, TokensKnown DEF HoldersInv, WorkingIsNotGivenUp, Holds
  <2>4. row[j].status = "processing" => ~row[j].stale
    BY <2>1, <2>2, TokensKnown DEF AttendedInv, StaleIsUnattended, Attended, Holds
  <2>5. RowChange(j)
    BY <2>1 DEF Changes, RowsChange
  <2>6. QED
    BY <2>2, <2>3, <2>4, <2>5 DEF RowChange, Taken, Stands, Closed, Reported, PutBack
<1>3. QED
  BY <1>1, <1>2 DEF Changes, SlotsChange, Leaves, Working

(* A row goes stale only when no execution attends to its job. *)
LEMMA StaleKept ==
    ASSUME Known, QueueInv', Changes, ~HeartbeatsMayFail
    PROVE  StaleIsUnattended'
<1> SUFFICES ASSUME NEW j \in Jobs, row'[j].status = "processing", row'[j].stale
             PROVE  ~Attended(j, row[j].token)'
  BY DEF StaleIsUnattended
<1> USE DEF Known
<1>1. RowChange(j)
  BY DEF Changes, RowsChange
<1>2. claims'[j] = claims[j] /\ Stands(j)
  BY <1>1 DEF RowChange, Taken, Closed, Reported, PutBack
<1>3. ~Attended(j, row[j].token)
  BY <1>2 DEF Stands, AttendedInv, StaleIsUnattended
<1>4. \A e \in Executions : Starts(e) => exec'[e].job # j
  BY <1>2, TypesKnown DEF Starts, Taken
<1>5. \A e \in Executions :
        ~(exec'[e].pc # "idle" /\ exec'[e].job = j /\ exec'[e].tok = row[j].token)
  BY <1>3, <1>4 DEF Attended, Changes, SlotsChange, GoesOn, Leaves
<1>6. QED
  BY <1>2, <1>5 DEF Attended, Stands

(* While few calls were lost, the slot of a success still completes its job. *)
LEMMA FollowedKept ==
    ASSUME Known, QueueInv', Changes, ~HeartbeatsMayFail
    PROVE  FinishedIsFollowed'
<1> SUFFICES ASSUME Few', NEW j \in Jobs, NEW t \in finished'[j]
             PROVE  /\ claims'[j] = t
                    /\ row'[j].status \notin {"absent", "pending"}
                    /\ row'[j].status = "processing" =>
                         \E e \in Executions : exec'[e].pc = "complete" /\ Holds(e, j, t)'
  BY DEF FinishedIsFollowed
<1> USE DEF Known
<1>1. CASE t \in finished[j]
  <2>1. Few
    BY DEF Changes, CountersChange, CountersTyped, HoldersInv, Few, MaxTries
  <2>2. /\ claims[j] = t /\ row[j].status \notin {"absent", "pending"}
        /\ row[j].status = "processing" =>
             \E e \in Executions : exec[e].pc = "complete" /\ Holds(e, j, t)
    BY <1>1, <2>1 DEF AttendedInv, FinishedIsFollowed
  <2>3. row[j].token # NoToken => row[j].token = t
    BY <2>2, TokensKnown
  <2>4. /\ ~GivenUp(j, t)
        /\ \A e \in Executions : Holds(e, j, t) => exec[e].pc = "complete"
    BY <1>1 DEF HoldersInv, FinishedIsNotGivenUp
  <2>5. row[j].status = "processing" => ~row[j].stale
    BY <2>2, <2>3, TokensKnown
       DEF AttendedInv, StaleIsUnattended, Attended, Holds
  <2>6. RowChange(j)
    BY DEF Changes, RowsChange
  <2>7. claims'[j] = claims[j] /\ (Stands(j) \/ Closed(j))
    BY <2>2, <2>3, <2>4, <2>5, <2>6 DEF RowChange, Taken, Reported, PutBack
  <2>8. ASSUME row'[j].status = "processing"
        PROVE  \E e \in Executions : exec'[e].pc = "complete" /\ Holds(e, j, t)'
    <3>1. row[j].status = "processing" /\ row'[j].token = t
      BY <2>3, <2>7, <2>8, TokensKnown DEF Stands, Closed
    <3>2. PICK e \in Executions : exec[e].pc = "complete" /\ Holds(e, j, t)
      BY <2>2, <3>1
    <3>3. ~Leaves(e) /\ ~Starts(e)
      BY <2>8, <3>1, <3>2 DEF Leaves, Starts, Holds
    <3>4. GoesOn(e)
      BY <3>3 DEF Changes, SlotsChange
    <3>5. exec'[e].pc = "complete" /\ Holds(e, j, t)'
      BY <3>2, <3>4 DEF GoesOn, Holds
    <3>6. QED
      BY <3>5
  <2>9. QED
    BY <2>2, <2>7, <2>8 DEF Stands, Closed
<1>2. CASE t \notin finished[j]
  <2>1. PICK e \in Executions :
          exec[e].pc = "work" /\ exec'[e].pc = "complete" /\ Holds(e, j, t)
    BY <1>2 DEF Changes, HoldersChange
  <2>2. GoesOn(e)
    BY <2>1 DEF Changes, SlotsChange, Starts, Leaves
  <2>3. Working(e)' /\ Holds(e, j, t)'
    BY <2>1, <2>2 DEF GoesOn, Working, Holds
  <2>4. QED
    BY <2>1, <2>3, WorkingOwnsKept DEF WorkingOwns, Holds
<1>3. QED
  BY <1>1, <1>2

(* All of it is kept by any step that changes things in these ways. *)
LEMMA ChangesKeep ==
    ASSUME Known, QueueInv', Changes
    PROVE  Known'
<1>1. HoldersInv' /\ CompletedByLastClaim'
  BY HoldersKept, CompletedKept DEF Known
<1>2. AttendedInv'
  BY WorkingOwnsKept, StaleKept, FollowedKept DEF AttendedInv
<1>3. QED
  BY <1>1, <1>2 DEF Known

-----------------------------------------------------------------------------
(* Every step of the rows is one of these *)

(* A row nobody writes stands. *)
LEMMA UnwrittenStands ==
    ASSUME NEW j \in Jobs, row'[j] = row[j], claims'[j] = claims[j]
    PROVE  RowChange(j)
BY DEF RowChange, Stands

(* complete_queue_job, for a claim that finished in time. *)
LEMMA CompleteChanges ==
    ASSUME QueueInv, NEW j \in Jobs, NEW t \in Nat \ {0}, t \in finished[j],
           CompleteQueueJob(j, t)
    PROVE  RowsChange
<1>1. \A k \in Jobs \ {j} : row'[k] = row[k] /\ claims'[k] = claims[k]
  BY TypesKnown DEF CompleteQueueJob
<1>2. RowChange(j)
  <2>1. CASE UNCHANGED row
    BY <2>1, UnwrittenStands DEF CompleteQueueJob
  <2>2. CASE ~UNCHANGED row
    BY <2>2, TypesKnown DEF CompleteQueueJob, RowChange, Closed, Owns, RowType, NoToken
  <2>3. QED
    BY <2>1, <2>2
<1>3. QED
  BY <1>1, <1>2, UnwrittenStands DEF RowsChange

(* fail_queue_job, for a claim that was given up on. *)
LEMMA FailChanges ==
    ASSUME QueueInv, NEW j \in Jobs, NEW t \in Nat \ {0}, GivenUp(j, t), NEW retry,
           FailQueueJob(j, t, retry)
    PROVE  RowsChange
<1>1. \A k \in Jobs \ {j} : row'[k] = row[k] /\ claims'[k] = claims[k]
  BY TypesKnown DEF FailQueueJob, Requeued, Failed
<1>2. RowChange(j)
  <2>1. CASE UNCHANGED row
    BY <2>1, UnwrittenStands DEF FailQueueJob
  <2>2. CASE ~UNCHANGED row
    <3>1. /\ Owns(j, t) /\ claims'[j] = claims[j]
          /\ row' = Requeued(j) \/ row' = Failed(j)
      BY <2>2 DEF FailQueueJob
    <3>2. row'[j].status \in {"pending", "failed"}
      BY <3>1, TypesKnown DEF Requeued, Failed, RowType
    <3>3. QED
      BY <3>1, <3>2 DEF RowChange, PutBack, Owns, NoToken
  <2>3. QED
    BY <2>1, <2>2
<1>3. QED
  BY <1>1, <1>2, UnwrittenStands DEF RowsChange

(* updateJobStatus, from a processor at work or from one that was abandoned. *)
LEMMA ReportChanges ==
    ASSUME QueueInv, NEW j \in Reporters, NEW t \in Nat \ {0},
           \/ GivenUp(j, t)
           \/ \E e \in Executions : exec[e].pc = "work" /\ Holds(e, j, t),
           NEW status \in {"processing", "completed", "failed"},
           UpdateJobStatus(j, t, status)
    PROVE  RowsChange
<1>1. j \in Jobs /\ \A k \in Jobs \ {j} : row'[k] = row[k] /\ claims'[k] = claims[k]
  BY TypesKnown, QueueAssumption DEF UpdateJobStatus
<1>2. RowChange(j)
  <2>1. CASE UNCHANGED row
    BY <1>1, <2>1, UnwrittenStands DEF UpdateJobStatus
  <2>2. CASE ~UNCHANGED row
    <3>1. /\ row[j].token = t /\ row'[j].token = t
          /\ row'[j].status = status /\ ~row'[j].stale
          /\ claims'[j] = claims[j]
      BY <1>1, <2>2, TypesKnown DEF UpdateJobStatus, Owns, RowType
    <3>2. QED
      BY <3>1 DEF RowChange, Reported, NoToken
  <2>3. QED
    BY <2>1, <2>2
<1>3. QED
  BY <1>1, <1>2, UnwrittenStands DEF RowsChange

(* Producers, the clock, the sweep and the polls. *)
LEMMA RowActionsChange ==
    ASSUME QueueInv, NEW j \in Jobs,
           \/ Add(j) \/ Cancel(j) \/ BecomesDue(j) \/ HeartbeatLapses(j)
           \/ RecoverStalledJobs(j) \/ ClaimPendingJob(j)
    PROVE  RowsChange
<1> USE TypesKnown DEF RowType, RowsChange, NoToken
<1>1. \A k \in Jobs \ {j} : row'[k] = row[k] /\ claims'[k] = claims[k]
  BY DEF Add, AddQueueJob, Cancel, CancelJob, BecomesDue, HeartbeatLapses,
     RecoverStalledJobs, ResetStalledJobs, Requeued, Failed, ClaimPendingJob
<1>2. RowChange(j)
  <2>1. CASE Add(j)
    <3>1. PICK due \in BOOLEAN : AddQueueJob(j, due)
      BY <2>1 DEF Add
    <3>2. row'[j].status = "pending"
      BY <3>1 DEF AddQueueJob
    <3>3. QED
      BY <3>1, <3>2 DEF AddQueueJob, RowChange
  <2>2. CASE Cancel(j)
    BY <2>2 DEF Cancel, CancelJob, RowChange, Closed
  <2>3. CASE BecomesDue(j)
    BY <2>3 DEF BecomesDue, RowChange, Stands
  <2>4. CASE HeartbeatLapses(j)
    BY <2>4 DEF HeartbeatLapses, RowChange, Stands
  <2>5. CASE RecoverStalledJobs(j)
    BY <2>5 DEF RecoverStalledJobs, ResetStalledJobs, Requeued, Failed, RowChange, PutBack
  <2>6. CASE ClaimPendingJob(j)
    BY <2>6 DEF ClaimPendingJob, RowChange, Taken
  <2>7. QED
    BY <2>1, <2>2, <2>3, <2>4, <2>5, <2>6
<1>3. QED
  BY <1>1, <1>2, UnwrittenStands

(* No row is written. *)
LEMMA NoRowChanges == ASSUME UNCHANGED rowVars PROVE RowsChange
BY UnwrittenStands DEF rowVars, RowsChange

-----------------------------------------------------------------------------
(* Every step of the slots and the holders is one of these *)

(* Nothing is executed. *)
LEMMA SlotsStand == ASSUME UNCHANGED exec PROVE SlotsChange
BY DEF SlotsChange, GoesOn, Starts, Leaves

(* One slot goes on or is left. *)
LEMMA OneSlotChanges ==
    ASSUME NEW e \in Executions, \A o \in Executions \ {e} : exec'[o] = exec[o],
           GoesOn(e) \/ Leaves(e)
    PROVE  SlotsChange
<1>1. \A o \in Executions : ~Starts(o)
  BY DEF Starts, GoesOn, Leaves
<1>2. \A o \in Executions \ {e} : GoesOn(o) \/ Leaves(o)
  BY DEF GoesOn, Leaves
<1>3. QED
  BY <1>1, <1>2 DEF SlotsChange

(* Nobody new holds anything. *)
LEMMA HoldersStand ==
    ASSUME ghosts' \subseteq ghosts, late' \subseteq late, UNCHANGED finished
    PROVE  HoldersChange
BY DEF HoldersChange

(* Steps that report, lose and finish nothing. *)
LEMMA CountersStand ==
    ASSUME HoldersInv, UNCHANGED <<active, finished, faults, crashes>>,
           \A e \in Executions : exec'[e].tries = exec[e].tries
    PROVE  CountersChange
BY QueueAssumption DEF HoldersInv, CountersTyped, TriesAreFaults, CountersChange

(* Steps that touch the rows alone. *)
LEMMA RowActionsAreChanges ==
    ASSUME Known, NEW j \in Jobs,
           \/ Add(j) \/ Cancel(j) \/ BecomesDue(j) \/ HeartbeatLapses(j)
           \/ RecoverStalledJobs(j) \/ ClaimLost(j)
    PROVE  Changes
<1>1. RowsChange
  BY RowActionsChange DEF Known, ClaimLost
<1>2. UNCHANGED <<exec, active, ghosts, late, finished, crashes>>
  BY DEF Add, Cancel, BecomesDue, HeartbeatLapses, RecoverStalledJobs, ClaimLost,
     localVars, faultVars
<1>3. faults' \in 0..MaxFaults /\ faults <= faults'
  BY QueueAssumption DEF Known, HoldersInv, CountersTyped, Add, Cancel, BecomesDue,
     HeartbeatLapses, RecoverStalledJobs, ClaimLost, faultVars
<1>4. CountersChange
  <2>1. \A e \in Executions : exec[e].tries <= faults /\ exec[e].tries \in Nat
    BY TypesKnown DEF Known, HoldersInv, TriesAreFaults, ExecType, MaxTries
  <2>2. QED
    BY <1>2, <1>3, <2>1, QueueAssumption
       DEF Known, HoldersInv, CountersTyped, CountersChange
<1>5. QED
  BY <1>1, <1>2, <1>4, SlotsStand, HoldersStand DEF Changes

(* An execution starts on the job it has claimed. *)
LEMMA ClaimIsChange ==
    ASSUME Known, NEW e \in Executions, NEW j \in Jobs, Claim(e, j)
    PROVE  Changes
<1>0. /\ exec \in [Executions -> ExecType] /\ claims \in [Jobs -> 0..MaxAttempts]
      /\ UNCHANGED <<ghosts, late, faults, finished, crashes>>
  BY TypesKnown DEF Known, Claim, faultVars
<1>1. RowsChange
  BY RowActionsChange DEF Known, Claim
<1>2. claims'[j] = claims[j] + 1 /\ Taken(j)
  BY TypesKnown DEF Known, Claim, ClaimPendingJob, Taken, RowType
<1>3. /\ exec[e].pc = "idle" /\ exec'[e].pc = "work" /\ exec'[e].job = j
      /\ exec'[e].tok = claims'[j]
      /\ \A o \in Executions : o # e => exec'[o] = exec[o]
      /\ \A o \in Executions : exec'[o].tries = exec[o].tries
  BY <1>0 DEF Claim, ExecType
<1>4. SlotsChange
  <2>1. Starts(e)
    BY <1>2, <1>3 DEF Starts
  <2>2. \A o \in Executions : o # e => (GoesOn(o) \/ Leaves(o)) /\ ~Starts(o)
    BY <1>3 DEF GoesOn, Leaves, Starts
  <2>3. QED
    BY <2>1, <2>2 DEF SlotsChange
<1>5. CountersChange
  <2>1. active' \in [Processes -> SUBSET Jobs]
    BY QueueAssumption DEF Known, HoldersInv, CountersTyped, Claim
  <2>2. QED
    BY <1>0, <1>3, <2>1, QueueAssumption
       DEF Known, HoldersInv, CountersTyped, TriesAreFaults, CountersChange
<1>6. QED
  BY <1>0, <1>1, <1>4, <1>5, HoldersStand DEF Changes

(* The processor returns, throws, or outlives its timeout. *)
LEMMA WorkIsChange ==
    ASSUME Known, NEW e \in Executions, Succeed(e) \/ Throw(e) \/ TimeOut(e)
    PROVE  Changes
<1> DEFINE j == exec[e].job
           t == exec[e].tok
<1>0. /\ exec \in [Executions -> ExecType] /\ exec[e].pc = "work"
      /\ UNCHANGED <<active, late, faults, crashes>> /\ UNCHANGED rowVars
  BY TypesKnown DEF Known, Succeed, Throw, TimeOut, faultVars
<1>1. j \in Jobs /\ t \in Nat /\ Holds(e, j, t)
  BY <1>0, TypesKnown DEF Known, Holds
<1>2. /\ \A o \in Executions \ {e} : exec'[o] = exec[o]
      /\ exec'[e].job = j /\ exec'[e].tok = t
      /\ \A o \in Executions : exec'[o].tries = exec[o].tries
      /\ exec'[e].pc = IF Succeed(e) THEN "complete" ELSE "fail"
  <2>1. CASE Succeed(e)
    BY <1>0, <2>1 DEF Succeed, ExecType
  <2>2. CASE ~Succeed(e) /\ \E retry : ToFail(e, retry)
    BY <1>0, <2>2 DEF ToFail, ExecType
  <2>3. QED
    BY <2>1, <2>2 DEF Throw, TimeOut
<1>3. finished' = IF Succeed(e) THEN [finished EXCEPT ![j] = @ \cup {t}] ELSE finished
  BY DEF Succeed, Throw, TimeOut
<1>4. /\ finished' \in [Jobs -> SUBSET Nat]
      /\ Succeed(e) => t \in finished'[j]
      /\ \A k \in Jobs : finished[k] \subseteq finished'[k]
      /\ \A k \in Jobs : \A u \in finished'[k] :
           u \in finished[k] \/ (Succeed(e) /\ k = j /\ u = t)
  BY <1>1, <1>3 DEF Known, HoldersInv, CountersTyped
<1>5. GoesOn(e)
  BY <1>0, <1>2, <1>4 DEF GoesOn
<1>6. \A g \in ghosts' : g \in ghosts \/ (exec'[e].pc = "fail" /\ Holds(e, g.job, g.tok))
  <2>1. CASE Succeed(e) \/ Throw(e)
    BY <2>1 DEF Succeed, Throw
  <2>2. CASE ~Succeed(e) /\ TimeOut(e)
    BY <1>1, <1>2, <2>2 DEF TimeOut
  <2>3. QED
    BY <2>1, <2>2
<1>7. HoldersChange
  BY <1>0, <1>1, <1>2, <1>4, <1>6 DEF HoldersChange
<1>8. CountersChange
  BY <1>0, <1>2, <1>4, QueueAssumption
     DEF Known, HoldersInv, CountersTyped, TriesAreFaults, CountersChange
<1>9. QED
  BY <1>0, <1>2, <1>5, <1>7, <1>8, OneSlotChanges, NoRowChanges DEF Changes

(* The processor reports. *)
LEMMA ReportIsChange ==
    ASSUME Known, NEW e \in Executions, NEW status \in Said, Report(e, status)
    PROVE  Changes
<1> DEFINE j == exec[e].job
           t == exec[e].tok
<1>0. /\ exec \in [Executions -> ExecType] /\ exec[e].pc = "work"
      /\ UNCHANGED <<active, ghosts, late, faults, finished, crashes>>
  BY TypesKnown DEF Known, Report, faultVars
<1>1. j \in Reporters /\ t \in Nat \ {0} /\ Holds(e, j, t)
  BY <1>0, TypesKnown, HeldIsIssued DEF Known, Holds, Held, Report
<1>2. status \in {"processing", "completed", "failed"} /\ UpdateJobStatus(j, t, status)
  BY DEF Report, MayReport
<1>3. RowsChange
  BY <1>0, <1>1, <1>2, ReportChanges DEF Known
<1>4. /\ \A o \in Executions \ {e} : exec'[o] = exec[o]
      /\ GoesOn(e)
      /\ \A o \in Executions : exec'[o].tries = exec[o].tries
  BY <1>0 DEF Report, GoesOn, ExecType
<1>5. QED
  BY <1>0, <1>3, <1>4, OneSlotChanges, HoldersStand, CountersStand DEF Changes, Known

(* A slot is emptied, its job leaves the map. *)
LEMMA ReleaseEmpties ==
    ASSUME Known, NEW e \in Executions, Release(e), faults' \in 0..MaxFaults,
           faults <= faults', UNCHANGED <<finished, crashes>>
    PROVE  /\ exec'[e].pc = "idle"
           /\ \A o \in Executions \ {e} : exec'[o] = exec[o]
           /\ CountersChange
<1>0. /\ exec \in [Executions -> ExecType] /\ active \in [Processes -> SUBSET Jobs]
      /\ finished \in [Jobs -> SUBSET Nat] /\ faults \in Nat
      /\ crashes \in 0..MaxCrashes
      /\ \A o \in Executions : exec[o].tries <= faults /\ exec[o].tries \in Nat
  BY TypesKnown, QueueAssumption
     DEF Known, HoldersInv, CountersTyped, TriesAreFaults, ExecType, MaxTries
<1>1. /\ exec'[e] = Resting
      /\ \A o \in Executions \ {e} : exec'[o] = exec[o]
      /\ active' \in [Processes -> SUBSET Jobs]
  BY <1>0 DEF Release
<1>2. \A o \in Executions : exec'[o].tries <= faults'
  BY <1>0, <1>1 DEF Resting
<1>3. QED
  BY <1>0, <1>1, <1>2, QueueAssumption DEF CountersChange, CountersTyped, Resting

(* A call given up on carries the claim of the execution that made it. *)
LEMMA GivenUpCalls ==
    ASSUME Known, NEW e \in Executions, NEW name, exec[e].pc = name, name # "idle",
           GiveUp(e, name), UNCHANGED <<ghosts, finished>>,
           name = "fail" => exec'[e].pc = "idle"
    PROVE  HoldersChange /\ faults' \in 0..MaxFaults /\ faults' = faults + 1
<1>1. \A c \in late' : c \in late \/ (c.name = name /\ Holds(e, c.job, c.tok))
  BY DEF GiveUp, Holds
<1>2. faults' \in 0..MaxFaults /\ faults' = faults + 1
  BY QueueAssumption DEF GiveUp, Known, HoldersInv, CountersTyped
<1>3. QED
  BY <1>1, <1>2 DEF HoldersChange

(* A completion call is answered, or given up on and tried again. *)
LEMMA CompletionIsChange ==
    ASSUME Known, NEW e \in Executions, Complete(e)
    PROVE  Changes
<1> DEFINE j == exec[e].job
           t == exec[e].tok
<1>0. /\ exec \in [Executions -> ExecType] /\ exec[e].pc = "complete"
      /\ row \in [Jobs -> RowType] /\ faults \in Nat /\ faults \in 0..MaxFaults
      /\ exec[e].tries <= faults /\ exec[e].tries \in Nat
      /\ UNCHANGED <<ghosts, finished, crashes>>
  BY TypesKnown, QueueAssumption
     DEF Known, Complete, HoldersInv, CountersTyped, TriesAreFaults, ExecType, MaxTries
<1>1. j \in Jobs /\ t \in Nat \ {0} /\ Holds(e, j, t) /\ t \in finished[j]
  BY <1>0, TypesKnown, HeldIsIssued DEF Known, Holds, Held, HoldersInv, CompletionsAreDue
<1>2. CASE CompleteQueueJob(j, t) /\ Release(e) /\ UNCHANGED faultVars
  <2>1. RowsChange
    BY <1>1, <1>2, CompleteChanges DEF Known
  <2>2. ~(row'[j].status = "processing" /\ row'[j].token = t)
    BY <1>0, <1>1, <1>2 DEF CompleteQueueJob, Owns, RowType, NoToken
  <2>3. /\ exec'[e].pc = "idle" /\ \A o \in Executions \ {e} : exec'[o] = exec[o]
        /\ CountersChange
    BY <1>0, <1>2, ReleaseEmpties DEF faultVars
  <2>4. SlotsChange
    BY <2>2, <2>3, OneSlotChanges DEF Leaves
  <2>5. QED
    BY <1>0, <1>2, <2>1, <2>3, <2>4, HoldersStand DEF Changes, faultVars
<1>3. CASE GiveUp(e, "complete") /\ CompletionFails(e) /\ UNCHANGED rowVars
  <2>1. RowsChange
    BY <1>3, NoRowChanges
  <2>2. HoldersChange /\ faults' \in 0..MaxFaults /\ faults' = faults + 1
    BY <1>0, <1>3, GivenUpCalls
  <2>3. CASE exec[e].tries + 1 = MaxTries /\ Release(e)
    <3>1. /\ exec'[e].pc = "idle" /\ \A o \in Executions \ {e} : exec'[o] = exec[o]
          /\ CountersChange
      BY <1>0, <2>2, <2>3, ReleaseEmpties
    <3>2. ~Few'
      BY <1>0, <2>2, <2>3 DEF Few, MaxTries
    <3>3. SlotsChange
      BY <3>1, <3>2, OneSlotChanges DEF Leaves
    <3>4. QED
      BY <2>1, <2>2, <3>1, <3>3 DEF Changes
  <2>4. CASE /\ exec[e].tries + 1 < MaxTries
             /\ exec' = [exec EXCEPT ![e].tries = @ + 1] /\ UNCHANGED active
    <3>1. /\ exec'[e].pc = exec[e].pc /\ exec'[e].job = j /\ exec'[e].tok = t
          /\ exec'[e].tries = exec[e].tries + 1
          /\ \A o \in Executions \ {e} : exec'[o] = exec[o]
      BY <1>0, <2>4 DEF ExecType
    <3>2. GoesOn(e)
      BY <1>0, <3>1 DEF GoesOn
    <3>3. \A o \in Executions : exec'[o].tries <= faults'
      <4>1. \A o \in Executions : exec[o].tries <= faults /\ exec[o].tries \in Nat
        BY TypesKnown DEF Known, HoldersInv, TriesAreFaults, ExecType, MaxTries
      <4>2. QED
        BY <1>0, <2>2, <3>1, <4>1
    <3>4. CountersChange
      BY <1>0, <2>2, <2>4, <3>3, QueueAssumption
         DEF Known, HoldersInv, CountersTyped, CountersChange
    <3>5. QED
      BY <2>1, <2>2, <3>1, <3>2, <3>4, OneSlotChanges DEF Changes
  <2>5. QED
    BY <1>3, <2>3, <2>4 DEF CompletionFails
<1>4. QED
  BY <1>2, <1>3 DEF Complete

(* A failure is reported, or its call given up on. *)
LEMMA FailureIsChange ==
    ASSUME Known, NEW e \in Executions, Fail(e)
    PROVE  Changes
<1> DEFINE j == exec[e].job
           t == exec[e].tok
<1>0. /\ exec[e].pc = "fail" /\ Release(e) /\ UNCHANGED <<ghosts, finished, crashes>>
      /\ faults \in Nat /\ faults \in 0..MaxFaults
  BY QueueAssumption DEF Fail, Known, HoldersInv, CountersTyped
<1>1. j \in Jobs /\ t \in Nat \ {0} /\ Holds(e, j, t) /\ GivenUp(j, t)
  BY <1>0, TypesKnown, HeldIsIssued DEF Known, Holds, Held, GivenUp
<1>2. exec'[e].pc = "idle"
  BY <1>0, TypesKnown DEF Known, Release, Resting
<1>3. CASE FailQueueJob(j, t, exec[e].retry) /\ UNCHANGED faultVars
  <2>1. RowsChange
    BY <1>1, <1>3, FailChanges DEF Known
  <2>2. HoldersChange /\ faults' \in 0..MaxFaults /\ faults <= faults'
    BY <1>0, <1>3, HoldersStand DEF faultVars
  <2>3. QED
    BY <1>0, <2>1, <2>2, ReleaseEmpties, OneSlotChanges DEF Changes, Leaves
<1>4. CASE GiveUp(e, "fail") /\ UNCHANGED rowVars
  <2>1. HoldersChange /\ faults' \in 0..MaxFaults /\ faults <= faults'
    BY <1>0, <1>2, <1>4, GivenUpCalls
  <2>2. QED
    BY <1>0, <1>4, <2>1, NoRowChanges, ReleaseEmpties, OneSlotChanges DEF Changes, Leaves
<1>5. QED
  BY <1>3, <1>4 DEF Fail

(* A call arrives late. *)
LEMMA LateCallIsChange ==
    ASSUME Known, LateCall
    PROVE  Changes
<1>1. PICK c \in late :
        /\ late' = late \ {c}
        /\ \/ c.name = "complete" /\ CompleteQueueJob(c.job, c.tok)
           \/ c.name = "fail" /\ FailQueueJob(c.job, c.tok, c.retry)
        /\ UNCHANGED <<localVars, faults, finished, crashes>>
  BY DEF LateCall
<1>2. c.job \in Jobs /\ c.tok \in Nat \ {0}
  BY HeldIsIssued DEF Known, Held
<1>3. RowsChange
  <2>1. CASE c.name = "complete" /\ CompleteQueueJob(c.job, c.tok)
    BY <1>2, <2>1, CompleteChanges DEF Known, HoldersInv, CompletionsAreDue
  <2>2. CASE c.name = "fail" /\ FailQueueJob(c.job, c.tok, c.retry)
    <3>1. GivenUp(c.job, c.tok)
      BY <2>2 DEF GivenUp
    <3>2. QED
      BY <1>2, <2>2, <3>1, FailChanges DEF Known
  <2>3. QED
    BY <1>1, <2>1, <2>2
<1>4. UNCHANGED <<exec, active, ghosts, faults, finished, crashes>>
  BY <1>1 DEF localVars
<1>5. QED
  BY <1>1, <1>3, <1>4, SlotsStand, HoldersStand, CountersStand DEF Changes, Known

(* An abandoned processor writes, reports, or ends. *)
LEMMA GhostIsChange ==
    ASSUME Known, NEW g \in ghosts,
           \/ GhostProgresses(g)
           \/ \E status \in Said : GhostReports(g, status)
           \/ GhostEnds(g)
    PROVE  Changes
<1>0. /\ UNCHANGED <<exec, active, late, faults, finished, crashes>>
      /\ \A h \in ghosts' : \E i \in ghosts : i.job = h.job /\ i.tok = h.tok
  <2>1. \A status : LET h == [g EXCEPT !.said = status] IN h.job = g.job /\ h.tok = g.tok
    BY TypesKnown DEF Known, GhostType
  <2>2. QED
    BY <2>1 DEF GhostProgresses, GhostReports, GhostEnds, localVars, faultVars
<1>1. g.job \in Jobs /\ g.tok \in Nat \ {0} /\ GivenUp(g.job, g.tok)
  BY HeldIsIssued DEF Known, Held, GivenUp
<1>2. CASE GhostProgresses(g)
  <2>1. \A k \in Jobs \ {g.job} : row'[k] = row[k] /\ claims'[k] = claims[k]
    BY <1>2, TypesKnown DEF Known, GhostProgresses
  <2>2. RowChange(g.job)
    BY <1>1, <1>2, TypesKnown DEF Known, GhostProgresses, RowType, RowChange, Stands
  <2>3. RowsChange
    BY <2>1, <2>2, UnwrittenStands DEF RowsChange
  <2>4. QED
    BY <1>0, <2>3, SlotsStand, CountersStand DEF Changes, HoldersChange, Known
<1>3. ASSUME NEW status \in Said, GhostReports(g, status)
      PROVE  Changes
  <2>1. status \in {"processing", "completed", "failed"} /\ g.job \in Reporters
    BY <1>3 DEF GhostReports, MayReport
  <2>2. RowsChange
    BY <1>1, <1>3, <2>1, ReportChanges DEF Known, GhostReports
  <2>3. QED
    BY <1>0, <2>2, SlotsStand, CountersStand DEF Changes, HoldersChange, Known
<1>4. CASE GhostEnds(g)
  BY <1>0, <1>4, NoRowChanges, SlotsStand, CountersStand
     DEF GhostEnds, Changes, HoldersChange, Known
<1>5. QED
  BY <1>2, <1>3, <1>4

(* A process dies: its slots are emptied, and something has gone wrong. *)
LEMMA CrashIsChange ==
    ASSUME Known, NEW p \in Processes, Crash(p)
    PROVE  Changes
<1>0. /\ crashes \in Nat /\ crashes' = crashes + 1 /\ crashes' \in 0..MaxCrashes
      /\ UNCHANGED rowVars /\ UNCHANGED <<late, faults, finished>> /\ ghosts' \subseteq ghosts
      /\ active' \in [Processes -> SUBSET Jobs]
  BY QueueAssumption DEF Crash, faultVars, Known, HoldersInv, CountersTyped
<1>1. ~Few'
  BY <1>0 DEF Few
<1>2. \A o \in Executions : GoesOn(o) \/ Leaves(o)
  BY <1>1 DEF Crash, Resting, GoesOn, Leaves
<1>3. SlotsChange
  BY <1>2 DEF SlotsChange, Starts, GoesOn, Leaves
<1>4. \A o \in Executions : exec'[o].tries <= faults
  BY QueueAssumption DEF Crash, Resting, Known, HoldersInv, TriesAreFaults, CountersTyped
<1>5. CountersChange
  BY <1>0, <1>4, QueueAssumption DEF Known, HoldersInv, CountersTyped, CountersChange
<1>6. QED
  BY <1>0, <1>3, <1>5, NoRowChanges, HoldersStand DEF Changes

(* Every step of the queue is such a change. *)
LEMMA NextChanges ==
    ASSUME Known, [Next]_vars
    PROVE  Changes
<1>1. CASE UNCHANGED vars
  BY <1>1, NoRowChanges, SlotsStand, HoldersStand, CountersStand
     DEF vars, rowVars, Changes, Known
<1>2. ASSUME NEW e \in Executions, Run(e)
      PROVE  Changes
  BY <1>2, ClaimIsChange, WorkIsChange, ReportIsChange, CompletionIsChange, FailureIsChange
     DEF Run
<1>3. QED
  BY <1>1, <1>2, RowActionsAreChanges, LateCallIsChange, GhostIsChange, CrashIsChange
     DEF Next

-----------------------------------------------------------------------------
(* The theorems about executions *)

(* An empty queue has no holders. *)
LEMMA InitIsKnown == Init => Known
<1> SUFFICES ASSUME Init PROVE Known
  OBVIOUS
<1> USE QueueAssumption DEF Init, Absent, Resting
<1>1. HoldersInv
  BY DEF HoldersInv, CountersTyped, OneHolder, WorkingIsNotGivenUp, Working,
     FinishedIsNotGivenUp, CompletionsAreDue, TriesAreFaults
<1>2. CompletedByLastClaim /\ AttendedInv
  BY DEF CompletedByLastClaim, AttendedInv, WorkingOwns, Working, StaleIsUnattended,
     FinishedIsFollowed
<1>3. QED
  BY <1>1, <1>2, InitEstablishes DEF Known

(***************************************************************************)
(* The inductive invariant: who holds a claim, in which role, and what     *)
(* heartbeats that arrive are good for.                                    *)
(***************************************************************************)
THEOREM HoldersInvariant == Spec => []Known
<1>1. Known /\ [Next]_vars => Known'
  BY NextPreserves, NextChanges, ChangesKeep DEF Known
<1>2. QED
  BY <1>1, InitIsKnown, PTL DEF Spec

(* Every variable of the queue has its type. *)
THEOREM QueueTypeCorrect == Spec => []QueueTypeOK
<1>1. Known => QueueTypeOK
  <2> SUFFICES ASSUME Known PROVE QueueTypeOK
    OBVIOUS
  <2>1. \A j \in Jobs : finished[j] \subseteq 1..MaxAttempts
    <3>1. ASSUME NEW j \in Jobs, NEW t \in finished[j]
          PROVE  t \in 1..MaxAttempts
      <4>1. t \in 1..claims[j] /\ claims[j] \in 0..MaxAttempts
        BY <3>1, TypesKnown DEF Known, HoldersInv, FinishedIsNotGivenUp
      <4>2. QED
        BY <4>1, QueueAssumption
    <3>2. QED
      BY <3>1
  <2>2. finished \in [Jobs -> SUBSET (1..MaxAttempts)]
    BY <2>1 DEF Known, HoldersInv, CountersTyped
  <2>3. QED
    BY <2>2, TypesKnown DEF Known, HoldersInv, CountersTyped, QueueTypeOK
<1>2. QED
  BY <1>1, HoldersInvariant, PTL

(***************************************************************************)
(* A job is completed by the processor of its last claim: completions of   *)
(* older owners are refused, however late they come.                       *)
(***************************************************************************)
THEOREM LastClaimCompletes == Spec => []CompletedByLastClaim
<1>1. Known => CompletedByLastClaim
  BY DEF Known
<1>2. QED
  BY <1>1, HoldersInvariant, PTL

(***************************************************************************)
(* As long as the heartbeats of attended jobs arrive, no job is executed   *)
(* twice at a time.                                                        *)
(***************************************************************************)
THEOREM ExecutionsAreExclusive ==
    ASSUME HeartbeatsMayFail = FALSE
    PROVE  Spec => []OneExecutionPerJob
<1>1. Known => OneExecutionPerJob
  <2> SUFFICES ASSUME Known, NEW e \in Executions, NEW o \in Executions,
                      Working(e), Working(o), exec[e].job = exec[o].job
               PROVE  e = o
    BY DEF OneExecutionPerJob, Working
  <2>1. exec[e].tok = exec[o].tok
    BY DEF Known, AttendedInv, WorkingOwns
  <2>2. QED
    BY <2>1 DEF Known, HoldersInv, OneHolder, Holds, Working
<1>2. QED
  BY <1>1, HoldersInvariant, PTL

(***************************************************************************)
(* As long as they arrive, work that succeeded returns to the queue only   *)
(* after three lost completion calls or a crash.                           *)
(***************************************************************************)
THEOREM SuccessIsNotRepeated ==
    ASSUME HeartbeatsMayFail = FALSE
    PROVE  Spec => []SuccessIsKept
<1>1. Known => SuccessIsKept
  <2> SUFFICES ASSUME Known, NEW j \in Jobs, row[j].status = "pending",
                      NEW t \in finished[j]
               PROVE  faults >= MaxTries \/ crashes > 0
    BY DEF SuccessIsKept
  <2>1. ~Few
    BY DEF Known, AttendedInv, FinishedIsFollowed
  <2>2. faults \in Nat /\ crashes \in Nat
    BY QueueAssumption DEF Known, HoldersInv, CountersTyped
  <2>3. QED
    BY <2>1, <2>2 DEF Few, MaxTries
<1>2. QED
  BY <1>1, HoldersInvariant, PTL
=============================================================================
