# TavernHeadless in TLA+

This directory holds a verification development for the TavernHeadless server
(`apps/api`, `packages/core`): TLA+ modules translated from the source, TLC
configurations that check them on small instances, and TLAPS proofs that some of
the properties hold on every instance. Paths are relative to the repository root;
`services/` abbreviates `apps/api/src/services/`.

## 1. The system

TavernHeadless is a headless backend for interactive fiction. A *session* has
*branches* of *floors* (turns); a floor has message *pages*. A turn assembles a
prompt, runs one or more model calls, and commits its output, variables, session
state and memory work in one SQLite transaction. What need not be in the turn is
put in a durable job queue. One Node.js process serves requests on one thread
over one SQLite connection, so a synchronous transaction is atomic and every
`await` is a point where other handlers run. Worker processes share the database.

### Inventory

| Part | State | Operations | Hard behaviour | What makes it correct |
|---|---|---|---|---|
| **Background Job Runtime** `services/runtime-worker.ts`, `runtime-scope-state-repository.ts`, `runtime-revision-guard.ts` | rows `runtime_job` (status, attempts, lease) and `runtime_scope_state` (revision, lease); in memory `activeJobs`, `pumping`, the copy of a row an execution took | lease, mark running, heartbeat, progress, commit, recover, fail | leases that expire under a live execution, several workers, crashes, executions of one worker that overlap | a job takes effect once; no lost update of a scope; a scope is serial; every job ends |
| **Scheduler and job API** `runtime-job-scheduler.ts`, `runtime-job-query-service.ts` | the same rows | enqueue, cancel, retry | race with a lease | terminal is final |
| **Generation coordinator** `generation-guard-service.ts` | per branch: active flag, queue, timers, abort listeners | execute in modes reject and queue | abort and timeout racing the hand-over | one generation per branch, no lost wake-up, no leak, FIFO |
| **Chat service** `services/chat/chat-service.ts`, `services/chat/` | none of its own | respond, regenerate, retry a floor, retry a step, dry run | failure at each of a dozen awaits, best-effort clean-up | the floor, its run row and the superseded source end consistent |
| **Floor state machine** `packages/core/src/floor` | `floor.state` | start, commit, fail, reopen, restore by compare-and-swap | two handlers on one floor | committed output survives a failed retry |
| **Floor run service** `floor-run-service.ts` | one row per floor: run id, type, attempt, phase, status | initialise, advance, verify, complete, fail, cancel, reconcile on poll | read-await-update by floor id only; polls that repair | a finished run is not reopened; a live one not killed |
| **Turn commit** `turn-commit-service.ts` | floors, pages, variables, session state, jobs | one transaction and its follow-up | an attempt that is no longer current | all or nothing, once |
| **Turn orchestrator** `packages/core/src/orchestration` | none | director, generation, verifier with retry | retries, aborts, timeouts | one output, one attempt number |
| **Realtime run log and resume** `apps/api/src/realtime` | a counter, a buffer entry and two map entries per run; subscriptions with cursor, queue and mode; calls of `handleResume` that await the database | ingest, evict, sweep, resume, acknowledge, close | resume while events arrive, two resumes of one connection, eviction of a run in use, a floor taken over by a newer run | no gap, no duplicate, nobody waits in vain, nothing leaks |
| **Session state** `apps/api/src/session-state` | mutations staged for a floor, live heads per branch, snapshots per floor | stage, apply at commit, discard, write directly, resolve | turns of several branches, direct writes beside them, crashes and failed discards, retries in place | a write takes effect with its turn; branches stay apart; snapshots agree with what is read |
| **Variables** `services/variables`, `packages/core/src/variables` | values by scope and branch | resolve, stage, promote, snapshot at branch creation | staged and durable views | a read sees the nearest layer |
| **Memory** `services/memory`, `packages/core/src/memory` | items, proposals, scope states | extract, compact, apply a proposal, maintain | jobs that race manual edits | revision guard |
| **Tool runtime** `services/tooling`, `packages/core/src/tools` | buffers per run, execution records, deferred jobs | inline, buffer, defer, replay | replay of side effects after a crash | an irreversible call is not replayed |
| **Mutation runtime** `services/mutation-runtime.ts` | batches | apply inline or by job | one step of several failing | all or nothing |
| **Temporary conversations** `temporary-conversation-service.ts`, `temporary-conversation-retention-service.ts` | a session with a status and an expiry, its floors and messages | append, respond, stream, retry, finalize, discard, cancel, expire, clean up | every request has half a dozen awaits between its checks and its writes | one open floor, one turn on it; an ended conversation stays ended |
| **Graph-assistant confirmation** `graph-assistant-tool-confirmation-service.ts` | one row per tool call that asks | register, approve, reject, resume, mark executed | decisions that race, turns that fail after the tool ran, calls a turn denies or passes over | no run without approval, one run per approval, no "executed" without a run |
| **Node-graph runtime** `services/node-graph-runtime` | runs, checkpoints, waits | start, resume, cancel | resume after restart | a node's effect once per run |
| **Agent runtime**, **MCP connections** | tasks and budgets; connections | run, connect | timeouts racing answers | each answered once |
| **Project events and inbox** | append-only events with cursors | append, stream, read | a poll between two appends | no skipped event |
| Prompt assembly, SillyTavern adapters, LLM profiles, workspaces, backups, routes, frontends, integration kit | documents and rows | CRUD, conversion, UI | little | conversion fidelity |

Interactions: routes call the chat service; the chat service takes the branch
from the generation coordinator, writes the floor and the run row, calls the
orchestrator (through `packages/core` ports) and then the turn commit; the turn
commit enqueues jobs through the scheduler in its own transaction; workers lease
them and call the processors of memory, tools, mutations, backups, transfers,
agents and node graphs; services emit on the core event bus, which the run log and
the WebSocket bridge subscribe to.

`PROJECT.json` lists every component with its sources and status, and under
`hazards` the places where this code is hard to test, each with the properties
that watch it or the reason why none does yet.

## 2. The modules

| Module | Contents |
|---|---|
| `JobLedger` | abstract: what the job runtime promises, with no worker or clock |
| `JobRuntime` | the job runtime, scheduler and job API; properties; refinement mapping to `JobLedger` |
| `MCJobRuntime` | constants and symmetry for TLC |
| `JobRuntimeProofs` | TLAPS proofs about `JobRuntime`: rows, commits, refinement |
| `JobRuntimeLeaseProofs` | on top of it: attempts and the mutual exclusion of leases |
| `GenerationCoordinator` | the coordinator; properties |
| `MCGenerationCoordinator` | constants and symmetry for TLC |
| `GenerationCoordinatorProofs` | TLAPS proofs about `GenerationCoordinator` |
| `FloorTurn` | turns on one branch: chat service, floor, run row, commit, polls; properties |
| `MCFloorTurn` | constants and symmetry for TLC |
| `FloorTurnProofs` | TLAPS proofs about `FloorTurn`: types, the run row, floor numbers |
| `FloorTurnOutcomeProofs` | on top of it: output versions, refused commits, answers |
| `RunLog` | sequencer, event buffer and run log, with the floor-run writes that feed them |
| `RunFeed` | abstract: who follows a run stands at the head of its feed |
| `RunStreams` | the resume coordinator and its connections on top of `RunLog`; properties; refinement mapping to `RunFeed` |
| `MCRunStreams` | constants and symmetry for TLC |
| `RunStreamsProofs` | TLAPS proofs about `RunLog` and `RunStreams` |
| `SessionState` | staged and direct writes, live heads and snapshots under the turns of one session; properties |
| `MCSessionState` | symmetry for TLC |
| `SessionStateProofs` | TLAPS proofs about `SessionState` |
| `TemporaryConversation` | the requests of one temporary conversation, its turns, tool calls and retention; properties |
| `MCTemporaryConversation` | symmetry for TLC |
| `TemporaryConversationProofs` | TLAPS proofs about `TemporaryConversation` |

`FloorTurn` composes with `GenerationCoordinator` through one assumption, that a branch has
one turn at a time. That is `OneTaskPerKey`, proved of the coordinator; `SessionState` and
`TemporaryConversation` rest on it too (the latter as the guard `Free`). `RunStreams` extends `RunLog`
and shares its variables. The last two models keep of a turn only what their component depends
on and take the rest, such as the ways a turn may end, from `FloorTurn`.

Operators whose name starts with `Bad` are not part of a model: each is the
operator after it with a plausible bug, and `PROJECT.json` pairs it with the
property that must then fail.

### JobRuntime

State. `job` and `scope` are the two tables. Leases and `availableAt` are kept as
time left, so `leaseUntil <= now` is `left = 0`, and `Tick` subtracts one from every
row. `exec[w][x]` is one call of `processLeasedJob` of worker `w`: where it is and
what it keeps in memory across awaits (the attempt count and `basedOnRevision` of
the lease). `active[w]` is the `activeJobs` map, a set of job ids because the map is
keyed by job id; it can therefore be smaller than the number of executions.
`commits`, `wrote` and `expired` are history variables for the properties.

Actions. `Enqueue`, `Cancel` and `Retry` are the scheduler and the API. `Lease` is the
transaction in `pump`. After it the code awaits an emit; the next synchronous
stretch is `MarkRunning` (or `MarkRunningLost`, `BeginRecovery`), with
`activeJobs.set`. `Heartbeat` covers the timer, progress updates and step updates,
which run the same conditional updates; `HeartbeatLost` is their failure.
`Commit` is the transaction with the revision guard and the two conditional updates;
`CommitLost` is its rollback, `ProcessorFails` an error of the processor, fatal or
not. `AfterCommitFails` is what may fail after the commit, `HandleFailure` the catch block with
its transaction; `Settle` is the end of the promise, after a success or a failure, which takes the
job from `activeJobs`. `Crash` ends a process; a new one has a new worker id
(`runtime-worker.ts:134`), which is why it need not come back under its old name: a
second worker stands for it.

Abstractions. Payloads, progress, metadata, events and dedupe keys are left out (an
insert that hits a dedupe key changes nothing). Every worker serves every job
type. A job is due when it is enqueued. Which due job is leased first is left
open, the code orders by `availableAt`, `createdAt` and id. A lookup of the catalogue
or of a processor that fails, before the job is marked running, is left out.

### GenerationCoordinator

State. One entry per key of `states`: `entries`, `active`, `queue`. Per call: whether its
timer is armed and its listener registered, whether it was cancelled, whether its
signal fired, where its task is and how its promise settled. An action is a
stretch of code without an await. `Refuse`, `StartNow`, `Conflict` and `Enqueue` are the four
outcomes of `execute`; `Abort` and `Timeout` run the listener and the timer; `TaskEnds` is
the `finally` of a task, which walks over the queue, starts the next call and
cleans up.

### FloorTurn

State. `floor`, `run` and `output` are the rows of the tables `floor`, `floor_run_state` and
`message_page` (how many versions of the output page, and which one is active).
`live` is `superseded_at IS NULL`. `turn` is what the one turn on the branch keeps in memory: how
far it is, its source floor and source page, the attempt identity it will present
at the commit, and how it failed. `silent` holds the floors whose run wrote nothing for
longer than `staleRunMaxAgeMs`; every write to a run removes its floor. `answered` is a
history variable.

Actions. `Respond`, `Regenerate` and `RetryFloor` are what the three requests do up to the run row;
`InitializeRun` is the run row. `ResolveAttempt` reads run id and attempt number for the commit.
`EnsureGenerating` is the start of `executeTurn`, `Generate` one round of the model, `CandidateAccepted` the
verifier's yes. `ExecutionFails` is the catch of `executeTurn`, `ExecutionErrorCaught` that of
`executeNarratorTurn`, `GateBlocks` and `CommitFails` the other ways not to commit. `Commit` is the
transaction, `CommitStale` its refusal of an attempt that is no longer current. `Complete` ends a
good turn; `NoteOutcome` and `Unwind` are the two halves of `handlePreparedFloorGenerationFailure`, `GiveUp` its early
return. Between any two of them `Poll` may run `reconcileStaleRunRow` (every read of a run
does), a user may activate another page, or the process may die. SQLite answers
synchronously here, so a poll is one action although it is written with awaits.

Abstractions. `edit_and_regenerate` is a respond on a branch of its own, `retry_step` a retry.
The prepared draft floors of temporary sessions are in `TemporaryConversation`; deleting floors
and resetting branches are left out. Best-effort writes succeed. Busy retries of the commit are part of
`CommitFails`. The hooks that run after the commit are taken not to throw. The
numbers of a branch start at 0.

### RunLog and RunStreams

State. `counters`, `buffer`, `floorToRun` and `runToFloor` are the maps of the sequencer, the buffer
and the log; `floorRun` is what the database has as the run of each floor. The events of
an entry are consecutive, so it is kept as `minSeq .. maxSeq`. `subs` and `socketRuns` are the two
indexes of the coordinator, `handler` the calls of `handleResume` that await a row. `base` counts the
events of a run that were numbered and forgotten, `owed` the resumes a connection still
waits an answer for; both are history, as are the last three fields of a subscription.

Actions. `RunStarts`, `RunMoves` and `RunGenerates` publish an event: the log numbers it, makes room (`Evictions`),
appends it, and the coordinator routes it, all synchronously. `SweepTimer` releases ended runs.
A resume frame is one action up to its first await: `ResumeFromBuffer` (replay, flush, live),
`ResumeRejected`, or `ResumeAwaits`; then `ReadRecord`, `ResumeReadsAgain` (an admin's second read) and
`ResumeContinues`, between which anything may happen. `HandleAck` and `Close` have no await.

Abstractions. Time: `sweep` may find any set of ended runs expired, and any run of the class
`evictOne` prefers may be the oldest. Frames that cannot be parsed change nothing and are
left out, as are `start`, `stop` and `dispose`. An event has no content but its number.

### SessionState

State. `batch` is the table of mutations; what one stretch of code writes for several slots is
one batch, and a value is the number of the batch it comes from. `liveHead` and `snapshot` are the two
collections, with the time of each value, because `materializeFloorSnapshotForSlot` compares
times. `floor` and `turn` keep of the turns which floor they write and how it ends. `lost`, `kept`,
`rewritten`, `early` and the `path` of a floor are history.

Actions. `Respond`, `Regenerate` and `Retry` start a turn on a branch, `Stage` writes its staged rows, `Commit` is
the transaction that applies every staged row of the floor, variables rerouted to slots
included, and materialises the snapshots. `TurnFails` discards, or fails to. `DirectWrite` is
`writeDirectValue`. `Crash` forgets the turns; `Reap` is the poll that fails their floors.

Abstractions. Deleting a value is one more value. Slots are all `fork_on_branch`: registry and
namespace template know no other, so `session_shared` and its lock are left out.
Budgets, replay safety, definitions of namespaces and `restoreFloorSnapshot`, which only tests
call, are not modelled.

### TemporaryConversation

State. `conv` is the row in `sessions`; `floor` a floor with its output page and its run; `said` the messages
of its input page; `call` the rows of pending tool calls. `request[r].at` is where a request stands between
two awaits, its other fields are its local variables.

Actions. A request begins with the check that the conversation is active (`Append`, `Respond`, `Retry`,
`Resolve`, `End`); one that decides a call awaits the check and then decides without another
(`Approve`, `Reject`, `NotPending`). It goes on through `Guide`, `Look`, `Create`, `ReadSeq` and `Insert` (a message),
`Prepare`, `Promote` and `InitializeRun` (a turn) to `Enter`, where the coordinator lets one request in. The
task is `Resume` (find an approved call), `RunTool`, `Commit`, `MarkExecuted`, `Finish`, with
`CommitStale`, `TurnFails`, `NotRun` and `CancelledInQueue` as the ways it ends early. Beside them run `Expire`,
`Cleanup`, `Poll` and `Crash`.

`RunTool` has three outcomes for the call it resumes. The agent loop, which is called once in a turn and
outside the rounds of the verifier, gives the call to the executor: it is run, or queued as a deferred
tool whose job comes with the `Commit` and counts as a run there, or denied (disabled, not found, no permission, too
many calls), which the loop does not mind. Where the transport allows no tools the turn takes the plain
generation, which does not look at the call. `MarkExecuted` follows the commit in every case.

Abstractions. The conversation exists and belongs to the graph assistant (another one never
takes `Guide`'s second branch and has no calls). The branch is the one the routes fix. The
unique index on live floor numbers makes the number the floor. `stream` is respond;
`retryStep` is retry, except that it refuses while an approved call waits. Retention policies
and grace only delay `Cleanup`. Creation, export and the transcript reads are left out.

## 3. The runs

| Run | Instance | Shows |
|---|---|---|
| `jobs_shared_scope` | 2 jobs, 1 scope, 1 worker, 2 slots, 1 retry by hand, leases that run out at any time | `TypeOK`, `CommitSeesLatest`, `AttemptsNeverLost`, refinement `LedgerSpec` |
| `jobs_live` | 2 jobs, 1 scope, 2 workers, 1 slot each, one late heartbeat, a crash, fairness | `CommitOnce`, `SerialScope`, `EveryJobEnds` |
| `jobs_replay` | 1 job | **violation** of `NeverReplayed` |
| `coordinator` | 5 calls, 2 branches, fairness | `TypeOK`, `OneTaskPerKey`, `NobodyWaitsForNothing`, `ToldNoMeansNo`, `NothingLeaks`, `NoOvertaking`, `EveryCallAnswered` |
| `turn_safety` | 4 floors, 5 turns of all kinds, one verifier round, polls | `TypeOK`, `AnswersSurvive`, `OneLiveFloorPerNumber`, `AcceptedIsCommitted` |
| `turn_live` | 2 floors, 3 turns, 1 crash, silence, 2 rounds, 3 versions, fairness | `CurrentMeansCommittable`, `SwipeSurvivesRetry`, `StaleRunsEnd`, `GeneratingEnds` |
| `turn_destroyed` | 2 floors, 3 turns | **violation** of `RetryIsNonDestructive` |
| `turn_rounds` | 2 floors, 2 rounds | **violation** of `AcceptedIsCommitted` |
| `run_streams` | 2 runs of one floor, room for one run of 2 events, 3 connections, 2 handlers, 3 events, 3 frames | `TypeOK`, `NothingLeaks`, `CaughtUp`, `ReconnectCovered`, `NobodyForgotten`, refinement `FeedSpec` |
| `session_state` | 3 floors, 2 branches, 1 slot, 4 turns, 2 batches, 1 crash | `TypeOK`, `OnlyCommittedTurnsWrite`, `SnapshotsKeepHistory`, `CommitShowsWrites`, `SnapshotIsCurrent` |
| `temp_conversation` | 2 requests at a time, 2 floors, 1 call, 3 turns, 1 crash | `TypeOK`, `OneOpenFloor`, `OneTurnPerFloor`, `DecisionStands`, `RunsOnce`, `CleanedStaysClean`, `QuietAfterEnd` |
| `temp_executed` | 1 request, 2 floors, 1 call, 2 turns | **violation** of `ExecutedMeansRan` |

Bounds. Two jobs of one scope are the least that contend for a scope lease; two
workers the least for a take-over; a second slot lets the same worker take its own
expired job. `LeaseTtl` is 1 or 2 units: an expiry needs one tick, and a lease of two units tells
a renewed lease from a stale one. `AttemptCap` stops leasing at `MaxAttempts` plus one or two so that
a replay by crash still fits; `ManualRetries` bounds the retry endpoint. Slots are
reused, so executions are unbounded in number and bounded only in how many are
alive together. Three queueing callers are the least for which order in
the queue matters after one was withdrawn from its middle.

Of turns: a chain of regenerations with a failure in between needs three floors, a
fourth lets another failure or a further respond follow. Two output versions are the
least for a swipe, so three are needed for a swipe that falls into a retry;
`turn_safety` allows two, because a retry refused after a swipe is meant to be refused,
and one round, because of `turn_rounds`.
One crash suffices: a second finds rows that a first left, the turn in between being
arbitrary.

Of the run log: two runs of one floor are the least for a take-over, and room for one of
them makes every new run an eviction. Three connections of different standing cover the
three ways through the authorisation; two handlers are the least for two resumes of one connection
that both wait. Three events overflow an entry of two.

Of session state: a chain of two floors and one beside it, on a branch that forks from the
chain or not, is the least for a value to appear where it should not; two batches are the
least that compete for a slot. The clock moves by one at each write; equal times
are left to the proofs.

Of a conversation: two requests at a time are the least for every race it has, three turns let a
failed turn be followed by a retry and by one more, two floors let a second
floor be opened too early.

Symmetry. Jobs, calls, floors, runs, handlers, requests and endings are names no code compares, and no
liveness property is checked in a run with symmetry.

Deadlock is not checked: once all jobs are terminal, all calls were made and
answered, all turns have ended, the events and frames of the bound are used, or a conversation
has ended, these systems stop.

Fairness. `JobRuntime!Fairness`: `pump` runs from `setInterval` and after each settled job
(`runtime-worker.ts:151`, `:214`), so a job that stays leasable is leased; every stage
of an execution ends, since the processors' model and tool calls carry
timeouts; time passes. No error, expiry, crash, cancellation or retry is forced.
`TimelyHeartbeats` restricts `Tick` so that live executions lose their leases at most `MaxLate`
times: the heartbeat interval is a third of the lease (`computeHeartbeatIntervalMs`), so a late one is
the exception, and a worker that always lost its lease would never end a job. `EveryJobEnds` is
claimed under it only; the proofs of the safety properties, and `jobs_shared_scope`, do without it. `GenerationCoordinator!FairSpec`: a running generation ends.
`FloorTurn!FairSpec`: a turn takes its next step (model calls carry timeouts), time passes
(`Silence`), and somebody reads the run of each floor now and then (`Poll`), which clients do
by polling the active run; the code has no timer of its own for it. `GeneratingEnds` is claimed
for behaviours without a crash and without a turn that is silent for the stale window.

### What the violations show

* `jobs_replay`: the recovery policy of a job whose running lease expired is
  decided from the status at this lease. The take-over itself writes `leased`; if
  it is interrupted, the next lease sees `leased` and calls `prepare` again, although
  the first run may have had its effect (deferred irreversible tool calls).
* `turn_destroyed`: `executeTurn` marks the floor failed before the error leaves it, so the
  restoration of a retry, which looks for a generating floor, does nothing.
* `turn_rounds`: the verifier's second round writes attempt 2 to the run row; the commit
  still presents attempt 1 and is refused.
* `temp_executed`: a turn that resumes an approved call marks it executed once it has committed, whether
  the call was run, denied, or passed over because the turn has no tools; "executed" is documented as
  really run (`graph-assistant-tool-confirmation-service.ts:14`). The user's approval is used up, and no later
  turn finds the call.

Some gaps met on the way have no property, because the code has no repair for them
(`hazards` names the lines). A worker that leases its own expired job again overwrites its
entry in `activeJobs`, which the first of the two executions to end then removes, so that more
than `maxConcurrentJobs` run. A crash between marking a run and failing its floor leaves a
generating floor whose run is finished, which no read touches again. A crash while
the floor is a draft leaves a run that is running for ever. After a refusal as in `turn_rounds` the
source of a regenerate stays superseded with no floor in its place. A worker with
`maxConcurrentJobs` above one prepares two jobs of a scope with equal `createdAt` at once; the revision
guard refuses the second commit (`jobs_shared_scope`), at the price of a failed attempt.

Of the run log: a run that is evicted while it goes on starts again at number 1, and its
live followers miss what comes below their cursors. Of session state: a retry of a floor that others
have grown on makes its snapshot again from today's live head, so `SnapshotsKeepHistory` excludes floors on such
a path; when both the discard and the failure of a floor are lost, a later retry applies the
rows of the failed turn. Of conversations: the checks are made at the start of a request,
so a turn in flight at a discard still commits its answer; a tool whose turn fails after it ran is
run again by the next turn; a crash between promotion and run row leaves a floor that
generates for ever. The properties exclude these by history variables, each named in its comment.

### Hazards no property covers

`PROJECT.json` lists what the properties are about. These the code has as well; it has no repair
for them, or nothing promises another behaviour, so there is nothing to state.
"Reached" means the model has the behaviour.

| Where | What | Model |
|---|---|---|
| `runtime-worker.ts:218` | `activeJobs` is keyed by job, so an execution beside its own expired predecessor is not counted and `maxConcurrentJobs` is exceeded | reached |
| `runtime-worker.ts:265` | an older job of a type no running worker serves blocks its scope | no job types |
| `runtime-worker.ts:158` | `stop` while `pump` awaits a lease: the execution starts after `stop` returned | no `stop` |
| `chat-service.ts:2576` | an attempt found stale returns before the hidden source of a regenerate is shown again | reached |
| `floor-run-service.ts:671` | a process dies on a draft: its run stays running | reached |
| `run-log.ts:224` | a cancelled or replaced run is never marked ended, and stays until the log is full | reached |
| `run-log.ts:231` | late tokens of an old run count as events of the run that took its floor | reached |
| `resume-coordinator.ts:400` | a second resume from a lower number keeps the earlier acknowledgement | reached |
| `turn-session-state-service.ts:73` | a discard that fails leaves values an in-place retry applies | reached (`kept`) |
| `session-state-service.ts:630` | values of a superseded floor stay current in the live head | reached |
| `session-state-service.ts:1093` | a write to a branch without floors, before the floor it starts from was committed, is not in its first snapshot | reached (`early`) |
| `session-state-service.ts:537` | the blocked mark of an unsafe mutation is rolled back with the error that follows | no replay safety |
| `temporary-conversation-service.ts:506` | a process dies, or the coordinator refuses, between promotion and run row: the floor generates for ever | reached |
| `temporary-conversation-service.ts:625` | the respond after an approval is refused: a later, unrelated turn runs the call | reached |
| `temporary-conversation-service.ts:1480` | a turn in flight at a discard answers into the ended conversation | reached (`late`) |
| `temporary-conversation-service.ts:1362` | a message appended after the window was read joins a floor whose answer never saw it | reached |
| `chat-service.ts:1711` | a crash between the commit at a confirmation and the record of the call loses the question | reached |

## 4. The proofs

Every safety invariant and action property the runs check is a theorem, for every value of
the constants but where a hypothesis is named below. Each inductive invariant was an
invariant of a TLC run before it was proved.

`JobRuntimeProofs` (from `ConstantsAssumption` alone):

* `TypeCorrect`. With it `BusyHasJob`: an execution that is not idle has a job.
* `CommitAtMostOnce`, `TerminalJobsAreFinal` by the inductive invariant `RowInv`: a row has an owner
  exactly while it is leased or running, and `commits[j]` is 1 exactly for a succeeded row.
  `CommitOnce` alone is not inductive: nothing in it says that a committed job has no
  owner, which is what makes the conditional updates of a late execution fail.
* `CommitsSeeLatest` by `WriteInv`: the history `wrote[s]` of changes of a scope grows, the
  revision is at least its size and grows with it, and an execution whose
  `basedOnRevision` equals the current revision has seen the current set.
* `ImplementsLedger`: the initial state maps to the ledger's, every action to a ledger
  step or a stutter.

`JobRuntimeLeaseProofs` adds to `RowInv`:

* `AttemptsCounted`, without a hypothesis, by `LeasedCopy`: the copy of the row an execution took at its lease
  agrees with the row's attempts for as long as the worker owns the row as leased. A worker may lease
  its own expired job again, so that two executions hold a copy; that they agree is
  what makes the increment of either right.
* `ScopesAreSerial`, under `MaxConcurrentJobs = 1`, by three invariants: a worker has one execution in
  flight and its `activeJobs` has the job (`OneAtATime`); a row whose owner is up is worked on by it
  (`RowsWorked`); an unexpired row lease lies within the lease of its scope under the same owner (`LeasesNest`).
  `SerialScope` speaks of executions, the code excludes by rows: `LeasesNest` is the link, and it needs
  the other two because nothing else says that the owner of a scope is not about to lease it
  once more. The hypothesis is needed: `ScopeIsFree` lets a worker pass its own scope lease.

`GenerationCoordinatorProofs` (from `CoordinatorAssumption` alone): `TypeCorrect`, `MutualExclusion`,
`NoLostWakeup`, `NoIsFinal`, `NoLeak`, `FirstComeFirstServed` from one inductive invariant `Inv`, which
relates the queue of a key to the calls that wait for it (each exactly once, in
the order of `ahead`) and `active` to the one running task. It is needed because none of
the five says that the queue holds the waiting calls, and each depends on it at the hand-over.

`FloorTurnProofs` (from `TurnAssumption` alone; crashes, silence, rounds, swipes and polls included):

* `TypeCorrect`, from lemmas about what each helper does to the rows.
* `CurrentAttemptsCommit` by the inductive invariant `GeneratingOrEnded`: from the start of the execution the
  floor is generating or the run has ended. `CurrentMeansCommittable` alone speaks only of the moment
  before the commit and is not inductive.
* `LiveNumbersUnique` by `Numbered`, which adds to `OneLiveFloorPerNumber` that a regenerate and its source
  share a number, that one of the two is live until the commit, and that no third floor
  has replaced the source; without it the restoration of the source could not be
  shown to meet an empty place.

`FloorTurnOutcomeProofs` goes on from these:

* `SwipesSurvive`, without a hypothesis, by `OutputInv`: a committed floor shows one of its versions, and until
  its commit a turn that is no retry works on a floor without output. `SwipeSurvivesRetry` is about steps;
  without the second part the commit of a regenerate might add a version to a floor that has one.
* `RefusalsExplained`, under `~SlowTurns`, which no run checks: a commit is refused only after a
  further verifier round or after a swipe. Its invariant `TurnFollows` says what the floor and the run row hold
  at each stage of the turn, against every poll between two stages.
* `AcceptedTurnsCommit`, with these two reasons ruled out (`MaxAttempts = 1`, `MaxPages <= 2`), and
  `AnswersNeverLost`, with `MaxAttempts = 1` and `MaxCrashes = 0`. The latter needs `AnswersKept`: an
  answered number is kept by a live floor with output or by the source of the running turn, which its failure
  restores. The hypotheses are the ones the code needs: after a crash, a poll that ends a
  silent run, or a refusal as in `turn_rounds`, nothing shows the source again.

`RunStreamsProofs` (from `LogConstants` and `StreamConstants`): all properties of the run, and two that only the
proofs state, `SocketsInStep` and `EventsReachNewest`. The inductive invariant is
`LogInv`, about the log alone (counter, entry and maps of a run exist together; an entry
is a window that ends at the counter), and `StreamInv`, about the subscriptions. Its key is that
`since` is at most `base[r]`, and that forgetting a run raises `base[r]` by a counter that is not 0: a
subscription that is live and has `since = base[r]` therefore follows the run as it is now, and for it the
cursor, the queue and what was sent fit the counter. None of the properties says this of
a subscription whose run was forgotten in between. `StreamsImplementFeed` maps each action to `Advance`, `Join`, `Leave` or
a stutter.

`SessionStateProofs` (from `StateConstants` alone: crashes, failed discards, equal times and direct writes
included): all properties of the run, and `BranchesStayApart`, which no run checks.

* Type correctness, `OnlyCommittedTurnsWrite`, `CommitShowsWrites` and `BranchesStayApart` by `StateInv`: the path of a
  floor contains the path of its parent (`RowsSound`), which floor a turn and a batch belong to (`TurnsSound`,
  `BatchesSound`), every stored value comes from an applied batch (`ValuesSound`), a batch left by
  a crash is dead (`LostIsDead`), and a kept one is older than what its floor stages now (`KeptIsOlder`).
* `HistoryIsKept` by `HistoryInv`. A floor *stands* if it is shown and committed, runs, or would be shown again if
  the turn that replaces it failed. The floors of a branch that stand are on one path, and only a
  floor and its running replacement share a number (`Chain`); a floor that stands no longer never stands
  again. So what a snapshot took from the live head was written on the path of its floor, directly, or
  by a floor that is gone for good (`PastKept`). `SnapshotsKeepHistory` says "not live"
  for the last, which is not inductive: the source of a regenerate is not live either, and may
  come back.
* `SnapshotsAreCurrent` by `CurrentInv`: `materializeFloorSnapshotForSlot` prefers the live head to the parent's
  snapshot by comparing times, and is right because a head older than a snapshot of a floor
  of its branch holds the same value (`Sync`), and no head is older than the snapshot of the floor of another
  branch its branch grew out of (`Outside`).

`TemporaryConversationProofs` (from `ConversationConstants`): all properties of the run, and `EndIsFinal`. `StateInv` adds to them
what a request may be where it stands (`RequestsSound`), that one about to create a floor saw the one below closed
(`PlacesSound`), that a request past the promotion has a generating or failed floor and is alone in the
coordinator's task (`TurnsSound`), and the account of each call: its runs are the
excused ones (of turns that ran it and were given up), one more while the turn that ran it holds it, and at most
one more once it is marked executed (`CallsSound`). "At most" is all there is to say: that an executed call ran is
`ExecutedMeansRan`, which is false. A turn that ran or queued its call stands between its tool step and
`MarkExecuted` and holds a call (`InPlace`); the call stays approved as long as a turn holds it.

Model-checked only: `EveryJobEnds`, `EveryCallAnswered`, `StaleRunsEnd` and `GeneratingEnds`, because liveness under
fairness is beyond the proof system, and the four violations.

## 5. Plan

1. Job runtime and coordinator (done, above).
2. `FloorTurn` (done). Open: deletion of floors and reset of branches.
3. `RunStreams` (done). Open: an epoch per run would be needed to state more of evicted runs.
4. `SessionState` (done). Open: replay safety and the confirmation of uncertain mutations.
5. `TemporaryConversation` (done). Open: export while requests run.
6. `NodeGraphRun`: checkpoints, waits, resume after a restart.
7. Extensions of `JobRuntime`: job types and workers that serve some of them, the
   candidate scan limit, `createdAt` in the past, `stop`.
8. Proofs: every safety property of the runs is proved. Open: `AnswersSurvive` with crashes, for the
   numbers no crashed turn replaced.

## 6. Not modelled, and why

Model providers, MCP servers and the file system are external. Text conversions
(SillyTavern import, macros, regex, prompt rendering), CRUD services, routes and
frontends have no protocol of their own. SQLite is taken to be
serialisable, and a crash to lose what was not committed.
