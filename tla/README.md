# BuildOS platform: TLA+ models of the worker

This directory holds TLA+ models of the parts of BuildOS where several
processes, a database and a provider that cannot be undone have to agree:
the durable Agentic Chat turn (`apps/worker/src/workers/agentic-chat`, with its
stored procedures in `supabase/migrations`), the stream that carries its text to
the browser (`streamPublisher.ts` to
`apps/web/src/lib/services/agentic-chat-v2/worker-realtime-*.ts`) and the generic job queue
(`apps/worker/src/lib/supabaseQueue.ts`, with its procedures in
`packages/shared-types/src/functions`). TLC checks the models on small
instances; TLAPS proves every invariant, action property and refinement among them,
of the turn store, of the whole turn, of the queue and of the stream with its
reader, for every instance. Liveness is TLC's alone.

`PROJECT.json` maps every definition to the lines it models, and lists the
runs, the mutants, the hazards and the findings.

```
tlc -workers 2 -config ChatTurnWorkers.cfg MCChatTurn     # a run
tlapm TurnStoreProofs.tla                                    # the proofs
```

## 1. Inventory

### Durable turn control (stored procedures): `TurnStore`, modelled

State: one `chat_turn_runs` row (status, execution generation, start fence,
mutation boundaries, accepted cancellation, queue deadline), its `queue_jobs`
row (status, processing token, attempts) and its `chat_turn_effects` rows.
Operations: `claim_pending_jobs`, `claim_agentic_chat_turn`,
`begin_agentic_chat_turn_execution`, `recover_agentic_chat_turn`,
`finalize_agentic_chat_turn`, `request_agentic_chat_turn_cancel`,
`complete_queue_job`, and reserve/begin/reconcile of an effect. Each is one
transaction that locks the job row and then the turn row, so each is one atomic
action and one turn can be modelled alone. Hard: the outcome depends on five
columns of three tables at once, and callers retry, die and return with old
tokens. Correct: the rows never contradict each other, a requeued turn has left
no trace, attempts bound claims, an accepted cancellation wins, what is final
stays final.

### Worker RPC boundary: `ControlPlane`, partly

A call answers, or its caller gives up on it (deadline, lost response) and it
takes effect later or never. Parsing of receipts is left out: a receipt that
does not parse is a call given up on after it took effect.

### Executor and mutation executor: `TurnExecutor`, partly

State: one record per execution: where it is, the token and generation it
holds, the effect it is working on, its abort signal. An execution claims,
registers with the cancellation observer, begins (the start fence), opens the
provider stream, executes mutating tools through the effect ledger, finalizes or
hands over to recovery, and settles the queue row. Every `await` is a step of
its own. Hard: after the worker timeout the queue goes on and the promise does
too (a *zombie*); the signal is read only between awaits.

### Chat consumer: polling, slot, timeout, drain: in `TurnExecutor` and `ChatTurn`, partly

One slot per process; heartbeat while attended; `stop` refuses new work, waits,
aborts survivors and exits. Health snapshots are left out.

### Cancellation observer: in `TurnExecutor`, partly

One registered turn per process; polls for accepted cancellations of the
registered generation and aborts it. Poll batching and backoff are left out: a
poll may come at any time.

### Stalled-turn sweep: `StalledSweep`, modelled

Reads a candidate, borrows the token in its row, and runs claim, recover,
snapshot and finalize as separate transactions, for at most four rounds. Hard:
it runs beside the zombie that owns the token and beside other processes' sweeps,
and finalizes from a snapshot that may be stale. What is stale about its decision is
in `StalledSweep`; what is stale about the text is in `TurnStream`, where the
snapshot and the finalize are two steps as well (`SweepReads`, `SweepCloses`).

### Generic job queue: `JobQueue`, partly

State: the `queue_jobs` rows; per consumer the `activeJobs` map and the running
processors. Operations: add with a deduplication key, claim, complete (three
tries), fail with retry, heartbeat, worker timeout, `reset_stalled_jobs`,
cancellation, and the status writes that the brief, SMS, chat-classification and
capture processors make on their own (`updateJobStatus`). Left out: priority
order and the length of backoffs (a requeued job becomes due at some time), the
read-modify-write of metadata, retention, direct rescheduling, statistics.

### Stream procedures: `StreamStore`, modelled

State: the turn's row, its `chat_turn_stream_state` (text, last text batch,
`reconcile_required`) and what every sequence number stands for. Operations:
write a text batch, write a semantic event, acknowledge a delivery, finalize with
up to two events before `done`, reconcile; with the claim, start, requeue and
cancel that decide whether they may. Hard: writes are repeated, arrive late, and
meet a turn that has ended, or that a sweep is about to end with the text it read
before them. The row's trigger (`validate_agentic_chat_stream_state_write`) refuses a
text that does not extend the stored one, so that such a finalize raises. Correct:
every chunk and transition is stored once, in order, no stored text is taken back,
and the flag is cleared only when nothing has to be reconciled.

### Stream publisher: `StreamPublisher`, partly

State: per turn the text, the durable sequence, a queue of operations, and the
modes `reconcileOnly`, blocked, abandoned. Operations: register, append text,
publish a semantic event, flush, persist / broadcast / acknowledge the head of the
queue, publish what the terminal transaction committed, unregister, abandon. Hard:
three calls per event, each of which can fail with its effect done or not. Left
out: the round robin over turns and the batch of several turns' texts, sizes
and ages (a flush or an overload may come at any time), metrics.

### Web realtime client: `RealtimeInbox`, partly

State: the inbox's cursor and buffer, the coordinator's queued and running request
and its one timer, and the chunks the window shows. Operations: adopt, a live
event, a hint, a channel notice, an answer, a failed request, a timer. Hard: events
are lost, repeated, reordered, and overtaken by answers of the server. Correct: the
window shows a durable prefix, a completed turn whole, and learns of the end. Left
out: stop and start of the coordinator, release by discovery or by closing the
surface, protocol errors, byte limits, several turns.

### Not modelled

| Component | Why |
|---|---|
| Admission RPC | only its committed result (`StoreInit`); planned as `Admission` |
| Supervisor checkpoint and resume | planned, extends `TurnExecutor` |
| Read tools and their ledger | no outside change; their errors are failures of the stream |
| Provider capacity | planned |
| Agent-run worker and its stranded sweep | planned |
| Scheduler, daily briefs | cron-driven enqueueing; candidates for pure operators |
| Web application, sync, notifications, billing | request/response over the database |

### Interactions

```
 user --cancel--+                                +-- cancellation observer
                v                                v        (abort signal)
  TurnStore <--RPC (ControlPlane)-- TurnExecutor (per execution slot)
     ^                                   ^
     +------RPC-- StalledSweep           +-- queue: poll, timeout, drain, crash
```

```
 TurnStream:  executor --> StreamPublisher --RPC--> StreamStore <--reconcile--+
                                |                                            |
                                +--broadcast--> channel --> RealtimeInbox ---+
                                                (loses, repeats, reorders)
```

`TurnStream` composes the stream, with the executor reduced to what it does to
text: it knows the control of a turn only through the claim, start, requeue, cancel
and finalize of `StreamStore`, which abstract those of `TurnStore`. `ChatTurn`
composes all of the control and adds the user, the operator, late calls, the
clock, drain and crash. It implements `TurnLifecycle`, what the user sees. `JobQueue` is a system of its own: `reset_stalled_jobs` excludes
`agentic_chat_turn`, whose jobs have processor-managed life cycles.

## 2. Modules

| Module | Role | Code |
|---|---|---|
| `TurnStore` | rows and stored procedures; `StoreSpec` lets anybody call them | migrations `2026080[12]*` |
| `TurnStoreProofs` | TLAPS proofs about `StoreSpec` | |
| `ControlPlane` | answered, given-up and late calls | `executionControl.ts`, `effectControl.ts` |
| `TurnExecutor` | executions | `fixtureTurnExecutor.ts`, `fixtureMutationExecutor.ts`, `cancellationObserver.ts` |
| `StalledSweep` | sweeps | `stalledRecovery.ts`, `recoverySnapshot.ts` |
| `ChatTurn` | composition, fairness, system properties | with `consumerRuntime.ts`, `supabaseQueue.ts` |
| `ChatTurnProtocolProofs` | one lemma per step of `ChatTurn`; what is presented to the store was issued by it | |
| `ChatTurnFenceProofs` | the start fence and the effect ledger | |
| `ChatTurnOutcomeProofs` | how a turn may end; refinement of `TurnLifecycle`; stalled jobs | |
| `TurnLifecycle` | abstract specification | |
| `StreamStore` | rows and procedures of the stream | migrations `202608020332*`, `...0340*`, `...0370*`, `202608040*` |
| `StreamPublisher` | the publisher of one turn, and the channel | `streamPublisher.ts` |
| `RealtimeInbox` | the browser | `worker-realtime-inbox.ts`, `-coordinator.ts`, `worker-turn-adoption.ts`, UI adapter |
| `TurnStream` | composition with the executor, sweep, user, crash; fairness; properties | with `fixtureTurnExecutor.ts` |
| `Transcript` | abstract specification of the stream | |
| `StreamProofs` | what is durable and what was sent; the browser never forgets a turn | |
| `StreamLogProofs` | the log is exact, writes do not conflict, how far the text gets | |
| `StreamReaderProofs` | what the window shows; refinement of `Transcript`; types | |
| `JobQueue` | generic queue | `supabaseQueue.ts`, `queueUtils.ts`, `*_queue_job.sql`, ... |
| `JobQueueProofs` | theorems about `JobQueue` | |
| `MCChatTurn`, `MCJobQueue` | instances for TLC | |

Conventions. A stored procedure is an operator whose last parameter is its
outcome (`"raised"` leaves every row alone). `Name_variant` definitions are
plausible bugs of the definition `Name`: no specification uses them, and with
one in place of `Name` the property that PROJECT.json names is violated.
Tokens are numbered in the order of issue (`gen_random_uuid` never repeats) and
`NoToken` is NULL.

What the abstractions do. In the stream, the text is the number of chunks it
consists of: the provider only appends, so the shorter of two texts is a prefix of
the longer, and a prefix check is a comparison. A batch is known by where it starts,
which no two batches of a turn share. The channel is the set of what it was
given, any of which may arrive at any time, any number of times. In `ChatTurn`, text, prompts, projections and token counts do not
influence any modelled decision. The adapter's bounded retries share one
idempotency key and count as one invocation; they happen only for adapters that
declare that key. One provider *stream* stands for the whole conversation with
the provider in a turn: continuation rounds with tool results belong to it.
Effects are reserved with one canonical argument hash each; conflicting reuse of
an effect id is not modelled.

## 3. Runs

| Run | Instance | Shows |
|---|---|---|
| `workers` | worker 100 s, stalled 200 s, residence 300 s; 2 slots of one process, 1 late call, 1 crash or drain, 2 attempts | provider opened once, adapter invoked once per effect, truthful ledger, one execution answers although stalled turns are requeued beside zombies |
| `two_sweeps` | production timeouts (360/420/300 s), 1 slot, sweeps of 2 processes, 1 late call | the guarantees of the store, the refinement of `TurnLifecycle`, the workers' calls are steps of `StoreSpec`, stalled jobs are never requeued |
| `liveness` | 1 slot, 1 crash, 1 late call, fairness | turns end, cancellations are carried out unless an effect may have happened unnoticed, the queue row follows |
| `job_owners` | 2 jobs with one key (one reports its own status), 2 consumers, heartbeats may be lost | old owners change nothing, claims are paid once, one live row per key |
| `job_heartbeat` | 1 job, 3 attempts, 2 consumers, 4 lost calls, 1 crash, fairness | one execution per job, success is kept, jobs end |
| `stream` | 2 chunks, 1 semantic event, 0 to 2 terminal events, 1 claim, 1 fault, inbox of 1 event | everything in section 6.1, and the refinement of `Transcript` |
| `stream_liveness` | 1 chunk, 2 claims, 2 faults of the worker or the sweep, fairness | a started turn ends, the browser learns of it |
| `crash_during_effect`, `job_cancelled`, `queued_cancel`, `stale_cursor`, `done_not_live` | smallest | documented statements the code contradicts (section 6.2) |

Bounds, all constants of a cfg, and why they are enough:

- `MaxAttempts` 2 (3 in `job_heartbeat`): the first and the last attempt differ, and
  timeouts are retried once only, so 2 reaches every branch.
- `MaxFaults` (calls given up on) 1 or 2; 4 in `job_heartbeat`, one more than
  the three tries of a completion. A call given up on frees its caller at once
  and can be served at any later time or never, so one is enough to interleave
  with everything; two combine a lost claim with a lost begin.
- `MaxCrashes` 1: a crash forgets everything local, so a second one meets
  states that the first already produced.
- `Executions` 2: a zombie and its successor. More zombies hold older tokens
  and generations still and are refused by the same comparisons.
- `MaxConvergence` 4 is the code's own constant. `MaxGhosts` 1 in `JobQueue`:
  abandoned processors that are remembered at one time.
- `MaxText` 2, `MaxSemantic` 1 (`stream`): two batches of text, one batch of two
  chunks, and an event before, between or after them, are all the shapes a
  comparison of neighbours can tell apart; the proofs have no bound.
- `MaxGenerations` 1 in `stream`, 2 in `stream_liveness`: nothing is written before
  the start fence, and a started turn is never requeued, so a second claim starts
  from an empty log; what it adds is the cursor that moves to another generation.
- `MaxFaults` 1 in `stream`, 2 in `stream_liveness`: a call that fails before or
  after its effect, a late call, a crash, or a failed request of the browser. One
  crash leaves a write on its way that may arrive between a sweep's snapshot and its
  finalize; with two faults the sweep that follows it fails once as well. `MaxBuffered` 1 makes the
  inbox overflow at the second event.
- Timeouts other than production's are real configurations: the environment
  sets them within `validateAgenticChatConsumerConfig`
  (`phase3Config.ts:135-144`).

`CHECK_DEADLOCK FALSE` everywhere: a turn, or the finite set of jobs, is done
in the end, and the model stops there. Slots of one process are interchangeable
(`SYMMETRY` in the safety runs).

## 4. Fairness

`FairSpec` of `ChatTurn`: weak fairness of the poll of an idle slot, of each
execution's next step (promises settle: RPCs and finalization have deadlines
of their own, the stream has its signal; adapters are assumed to settle), of
the worker timeout, the observer's poll, the sweep's timer and steps, the end of a
drain and the passing of time. Not fair: the user, the operator, crash, drain,
late calls. `TurnEnds` therefore excepts turns that wait for an operator on an
open effect, and only those. `CancelIsCarriedOut` excepts turns with an effect that
was begun and may have happened; the code cancels those too (section 6.3).

`FairSpec` of `TurnStream`: weak fairness of the executor's steps and of the
publisher's write loop while the process lives (each call has a time limit, so it
succeeds or fails: `awaitOverhead`, `awaitTerminal`, the persistence adapter's
deadline), of the sweep (`Sweep`, `SweepReads`, `SweepCloses`: its timer runs on, and a
round that finds the turn changed is repeated), and of the browser's timers and requests (`#schedule`,
`requestTimeout`). The channel owes nothing: everything it was given may be lost.
Not fair: the user, the channel, crash, faults. In `stream_liveness` the browser's
own requests do not fail (`FetchMayFail`), because with one failed request
`EndIsLearnt` is false: that is the finding `stale_cursor`.

`FairSpec` of `JobQueue`: consumers poll, processors end (the worker timeout
sees to it), calls end, the sweep runs every minute, time passes, and an
abandoned processor ends too (it can otherwise keep the row of a lost failure
call fresh by progress reports). Producers, cancellation, crash and late calls
are not fair.

## 5. Proofs

`TurnStoreProofs` proves, for every set of effects and every `MaxAttempts`
(only `MaxAttempts \in Nat \ {0}` is assumed):

- `StoreInvariant`: `StoreSpec => []StoreInv`, where `StoreInv` is the
  conjunction of its types and the five invariants of the store that `two_sweeps` checks. It is inductive as a
  whole and in no part: that a requeue keeps `QueuedIsPristine` needs the
  boundaries to agree with the effects, that a late completion keeps
  `QueueAgreesWithTurn` needs tokens to be bounded by claims, and so on. One
  lemma per stored procedure; `NextPreserves` combines them.
- `StoreTypeCorrect` (part of what `workers` checks as `TypeOK`), `QueueAgreement`,
  `RequeuedIsPristine`, `BoundariesAgree`, `ClaimBudget`, `CancellationWins`: its parts.
- `Finality`: `StoreSpec => TerminalIsFinal`, an action property, from the
  invariant.

`StoreSpec` is the most general client. `complete_queue_job` alone needs a
condition on its caller (it never looks at the turn): it is called for completed
turns only. That the workers are such clients is the first theorem about them.

The proofs about `ChatTurn` hold for every set of effects, executions and processes,
every bound on attempts, faults and crashes, and all timeouts the configuration
admits. Each of
the three modules rests on the one before it, and so do their invariants:

- `ChatTurnProtocolProofs`: `ProtocolInv` says that every token and generation an
  execution, a sweep or a call on its way holds was issued, with an argument the
  procedure takes, and that a job is completed for completed turns only. It is
  inductive together with `StoreInv`, because the store takes nothing back
  (`Progress`). Hence `WorkersKeepToTheStore` (`StoreProtocol`: every step of the
  system is a step of `StoreSpec` or a stutter), and through it everything proved
  about the store (`StoreGuaranteesHold`, `FinalityHolds`); `ChatTurnTypeCorrect`.
- `ChatTurnFenceProofs`: `ProviderInvokedOnce`, `AdapterInvokedOnce`,
  `LedgerTellsTruth`, `OneAnswering` and `RequeuedLeavesNoTrace` are not inductive,
  singly or together. `FenceInv` adds that a token has one holder, that one execution
  at most is past the start fence and has the turn's generation, that the only open
  effect is the one it works on and stands where the execution stands, and that an
  effect call somebody gave up on told the truth, while nobody answers any more.
- `ChatTurnOutcomeProofs`: `OutcomeKnownAtEnd` is about a decision and the call that
  carries it out later. `OutcomeInv` says what a decision still knows then: to
  complete, that all is settled and nobody is left to open anything; to fail, that
  nothing begun is unsettled and that whoever shares the token has seen its signal
  aborted. The last part is where a sweep relies on the heartbeat: what it takes over is
  abandoned, that is, held by zombies only (`SweptIsAbandoned`).
  The module also has `LifecycleIsImplemented` (`ImplementsLifecycle`), initial
  states to initial states and each step to a step or a stutter, by the three invariants.
  `StalledJobIsFinalized` (`StalledJobNeverRequeued`) assumes
  `StalledTimeout > QueueResidence`, which `two_sweeps` instantiates with production's
  values and `workers` does not: there the property is false.

`JobQueueProofs` proves, for any jobs, keys, consumers, slots, attempts and bounds
on faults (from `QueueAssumption` alone):

- `QueueInvariant`: `Spec => []QueueInv`. It says what the invariants of the runs
  leave unsaid: a token in a row is the one of the last claim, and that claim is
  not paid yet; every token an execution, an abandoned processor or a late call
  holds was issued by a claim of its job. Lemmas per stored procedure, then one
  lemma (`HoldersPreserved`) that tokens are only handed on, then the actions.
- `KeyIsUnique` (`OneLivePerKey`), `AttemptsPayForClaims` (`ClaimsArePaid`) and
  `OutcomesAreKept` (the action property `FinalIsFinal`).

  `HeartbeatsMayFail` plays no part in them.
- `HoldersInvariant`: `Spec => []Known`, which adds `HoldersInv` and `AttendedInv`.
  `HoldersInv`: a token has one holder, what is worked on was not given up on, a token
  that finished was not given up on either, completions are called for processors
  that succeeded. `AttendedInv`, while heartbeats do not fail: what is worked on was
  not claimed by anybody else, a stale row is attended to by nobody, and a success is
  followed by its completion unless calls are lost or a process dies.
- `QueueTypeCorrect` (`QueueTypeOK`) and `LastClaimCompletes`
  (`CompletedByLastClaim`) without further assumptions; `ExecutionsAreExclusive`
  (`OneExecutionPerJob`) and `SuccessIsNotRepeated` (`SuccessIsKept`) for
  `HeartbeatsMayFail = FALSE`, as in `job_heartbeat`: a consumer that loses its
  heartbeats loses its job to another while it works on it.

`StreamProofs` proves about `TurnStream`, for every number of chunks, events,
claims, faults and buffer places (`StreamAssumption`, `InboxAssumption`):

- `StreamInvariant`: `Spec => []StreamInv`. Neither property below is inductive:
  that an acknowledgement of the last sequence number may clear the flag rests on
  every earlier event having been sent, which holds only while the publisher is not
  in reconcile-only mode; that it cannot leave this mode with the flag cleared rests
  on who may hold an unanswered write. `StreamInv` says so part by part: types;
  nothing is under way in an execution that has not begun (`Fenced`); a write under
  way is the head of the queue (`HeadIsBusy`); `done` is the last entry
  (`EndIsLast`); answers on their way name entries of the log (`AnswersAreDurable`);
  the channel holds no later generation (`SentIsOfThisTurn`); while the publisher is
  live, all it made durable was sent (`LiveMeansSent`); acknowledgements, late ones
  included, are true (`AcksAreTrue`). One lemma per group of actions.
- `DurableBeforeSent` (`SentIsDurable`) and `ClearedOnlyIfSent` (`ClearedMeansSent`).

- `BrowserNeverForgets` (`NeverForgotten`), by `InboxInv`: a reconciliation that is
  marked as requested is under way or queued, an answer belongs to a request under
  way, and a request is under way or a timer armed. Nothing of the worker matters to
  it, so it holds for any channel.

A step that changes several fields of one entry of a function is written
`[f EXCEPT ![i] = [@ EXCEPT !.a = x, !.b = y]]` throughout: the provers do not
treat the equivalent list of updates `![i].a = x, ![i].b = y` reliably when the
fields are of different kinds. That no lemma is vacuous was tested by taking
the mutants of PROJECT.json into the modules: the proofs fail.

`StreamLogProofs` and `StreamReaderProofs` go on from `StreamInv`, under the same
assumptions; each invariant contains the one before it:

- `LogInvariant`: `Spec => []LogInv`. A write can be under way, given up on, tried
  again and late at the same time, so that the log is exact (`LogIsExactAlways`) and
  writes do not conflict (`NoWriteConflicts`) depend on each other and on what is on
  its way. `LogInv` says of each write that it is in the log already (`Past`) or is
  the one entry the log goes on with (`Fresh`), and that two that are `Fresh` are the
  same; of the publisher, that it has one operation at most, which is the write under
  way (`HeadOK`), and with none agrees with the store about the text (`RestOK`).
  That is where the executor's awaiting of each delivery comes in. Of a sweep between
  snapshot and finalize it says that what it read is a prefix of what is stored
  (`SweepsOK`); the trigger admits no shorter text, so what it writes is exactly the
  stored text. `LogInv` also bounds the log, since each entry brings text or a transition of its own.
- `TextInvariant`: `Spec => []TextInv` adds how far the text can get. What an
  execution has (`Reach`) bounds what is stored and what is on its way, so that a
  decision to complete finds all its text stored (`AnswerOK`) and a completed turn has
  the text of its whole log (`WholeOK`).
- `ReaderInvariant`: `Spec => []ReaderInv`. The window shows the text up to the last
  applied event, what is buffered is durable, and an answer of the server was true when
  it was given. Hence `PrefixIsShown` (`ShownIsPrefix`) and `CompletedIsShownWhole`
  (`CompletedIsWhole`). What a run of live events appends is a concatenation over the
  run (`ApplyLive`, by `FlattenSeq`). The induction over it is by hand: the equation of
  the recursion has one solution (`FlattenIs`), because a first place where two differ
  would have a predecessor (`LeastExists`, from the well-foundedness of finite sets).
- `TranscriptIsImplemented` (`ImplementsTranscript`): initial states to initial states
  and each step to a step or a stutter, under `stored <- stream.text`,
  `read <- Len(client.shown)` and the two ends (see `TurnStream`).
- `StreamTypeCorrect` (`TypeOK` of `TurnStream`), which contains bounds that are not
  matters of form: at most one request queued and one under way, a buffer of
  `MaxBuffered`, a log of `MaxLog`.

Only model-checked: liveness (`QueueFollowsTurn`, `TurnEnds`, `CancelIsCarriedOut`,
`JobsEnd`, `StartedEnds`, `EndIsLearnt`), which is out of the prover's reach, and the
disagreements of section 6.2, which are counterexamples. Everything else a run checks
is stated by a theorem. The theorems assume of the constants only what the modules'
`ASSUME`s say, except where a hypothesis is named above (`StalledTimeout >
QueueResidence`; `HeartbeatsMayFail = FALSE`).

## 6. What the models showed

### 6.1 The stream

What holds, whatever fails: the log has each chunk and transition once and in order
(`LogIsExact`); an event is durable before it is sent (`SentIsDurable`); the flag
`reconcile_required` is cleared only if nothing went unsent (`ClearedMeansSent`); the
window shows a durable prefix (`ShownIsPrefix`), a completed turn whole
(`CompletedIsWhole`), and is never left without a request or a timer
(`NeverForgotten`). `NoSelfConflict` holds because of the executor and not of the
publisher: `deferRetry` reopens a batch the store may already know, and a chunk
merged into it would be refused as a conflict (mutant `Awaited_not`). `execute`
awaits each delivery, so no chunk can arrive there.

### 6.2 Findings

1. `crash_during_effect`: no code marks an effect uncertain when its process
   died after begin; it stays started, and its turn waits unless somebody
   cancels it. Nor does anything in the repository call reconcile for an
   uncertain effect; `OperatorResolves` exists because the procedure permits it.
2. `job_cancelled`: a job cancelled after its claim is revived by the first
   status write of its processor, which compares the token only.
3. `queued_cancel`: a turn cancelled before its first claim ends at generation 0.
   The reconcile procedure raises for it, the coordinator repeats its request for
   ever, and the window shows "Stopping response..." until it is closed or another
   discovery finds the turn no longer active.
4. `stale_cursor`: after one failed request the coordinator may keep a request for
   an outdated generation, whose every answer the inbox refuses, and put it back
   each time.
5. `done_not_live`: with timing, three events are committed at once; the first
   acknowledgement finds a newer snapshot and `done` is never broadcast. The reader
   learns of the end from a hint or from the watchdog.

### 6.3 Observations

Two disagreements with a plan that no run shows. Recovery answers an accepted
cancellation before it looks at open effects (`20260802031000_agentic_chat_worker_execution_recovery.sql:441`), so a turn with an
uncertain effect is finalized as cancelled. The phase 2D slice 6 plan (lines 46-53) has uncertainty
outrank cancellation, a comment of `fixtureTurnExecutor.ts` (3002-3003) expects the
turn to be handed over without being finalized, and the slice 5 plan has the code's
order. `CancelIsCarriedOut` takes no side: it speaks of turns whose effects are
reserved or settled, on which all of them agree, and not of an effect that may have
happened. And a consumer that lost its heartbeats can
claim its own running job, when `activeJobs` counts two executions as one and
`batchSize` is exceeded.

Observations that contradict no document:

- With the production timeouts a stalled turn is never requeued
  (`StalledJobNeverRequeued`): 420 s without heartbeat exceed the 300 s of
  queue residence. The slice 6 plan's "safe pre-start interruption can requeue"
  is left to interruptions an execution reports itself.
- A failed turn may keep an effect reserved by a call that arrived late; nothing
  can begin it any more (`OutcomeKnownAtEnd`).
- A processor that writes `failed` into its row and then dies, or loses its
  `fail_queue_job`, loses the retries it had left: the stalled reset looks at
  processing rows only.
- A row its processor marked failed gives up its deduplication key; if the key is
  taken before the retry is scheduled, the unique index refuses the retry.

- A chunk that was accepted and then rejected (a batch refused, an overload) is in
  the terminal text although no batch carried it. Where `done` is applied live, the
  window of a failed or cancelled turn then misses that tail until it is loaded
  again; hence `CompletedIsWhole` speaks of completed turns.
- An answer of the server may be older than what was applied live since (its request
  was repeated after a failure): the window is set back and then catches up. Hence
  `Transcript` lets `read` fall.

Limits of the models. The sweep of `TurnStream` acts when no execution and no request
of the publisher is left (late writes may be): sweeps beside a zombie are in `ChatTurn`,
which has no text. Its rounds are not counted there, and the projection of the terminal
transaction is left out. Heartbeats of zombies and the `updated_at` of other RPCs
are not modelled as refreshing the chat job (the sweep may therefore come earlier
than in the code, never later). A claim in flight when a drain starts is a claim
before the drain. Status writes of `updateJobStatus` that are lost are covered
(a processor may skip them), those that arrive late are not. Later migrations that
only rewrite texts inside the claim and finalize procedures leave their control as
modelled.

## 7. Plan

1. `Admission`: deduplicated admission of a turn with its job, lost responses,
   leases and supersession; composes with `StoreInit`.
2. Several turns of one publisher: round robin, the batch of texts of several turns,
   fairness between them. Discovery, and the coordinator's stop and start.
3. `Supervisor`: the checkpoint step, a turn that stops to ask and its resume.
4. `ProviderCapacity` and the agent-run stranded sweep.
5. `JobQueue`: retention and direct rescheduling.
6. Proofs: the same for the modules above as they are written. For what exists, the
   safety half of the liveness properties: from every state the fair actions that lead
   on are enabled, stated without `ENABLED` by their guards.
