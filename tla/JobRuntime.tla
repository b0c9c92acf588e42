----------------------------- MODULE JobRuntime -----------------------------
(***************************************************************************)
(* The Background Job Runtime of the API server: durable jobs              *)
(* (runtime_job), one revisioned and leased row per scope                  *)
(* (runtime_scope_state), and workers that poll, lease, prepare and commit *)
(* them (apps/api/src/services/runtime-worker.ts and its repositories).    *)
(*                                                                         *)
(* Every SQLite transaction is one action.  Between two transactions of    *)
(* the same execution anything else may happen: other executions of the    *)
(* same worker process, other worker processes, the management API, the    *)
(* clock.                                                                  *)
(*                                                                         *)
(* Time is kept as time LEFT.  leaseUntil <= now is "left = 0",            *)
(* availableAt <= now is "avail = 0"; Tick lets one unit pass.  createdAt  *)
(* is only ever compared, so it is a rank.                                 *)
(***************************************************************************)
EXTENDS Integers, FiniteSets

CONSTANTS
  Jobs,               \* job ids
  Scopes,             \* (accountId, scopeType, scopeKey) triples
  ScopeOf,            \* the scope of each job, fixed when it is enqueued
  MarkUncertain,      \* jobs whose expiredRunningPolicy is "mark_uncertain"
  Workers,            \* worker ids; a restarted process gets a new one
  Slots,              \* names for the concurrent executions of one worker
  MaxConcurrentJobs,  \* RuntimeWorkerOptions.maxConcurrentJobs
  MaxAttempts,        \* maxAttempts of every job
  LeaseTtl,           \* leaseTtlMs, in clock units
  RetryDelays,        \* values computeRetryDelayMs may return, in clock units
  Ranks,              \* values of createdAt
  AttemptCap,         \* model bound: a job is not leased again beyond it
  ManualRetries,      \* model bound: calls of the retry endpoint
  TimelyHeartbeats,   \* TRUE: live executions let leases expire MaxLate times only
  MaxLate,            \* model bound: expiries counted under TimelyHeartbeats
  NoWorker, NoJob     \* SQL NULL of lease_owner; the job of an idle slot

ASSUME ConstantsAssumption ==
  /\ ScopeOf \in [Jobs -> Scopes]
  /\ MarkUncertain \subseteq Jobs
  /\ IsFiniteSet(Jobs)
  /\ MaxConcurrentJobs \in Nat \ {0}
  /\ MaxAttempts \in Nat \ {0}
  /\ LeaseTtl \in Nat \ {0}
  /\ RetryDelays \subseteq Nat
  /\ RetryDelays # {}
  /\ Ranks \subseteq Nat
  /\ AttemptCap \in Nat
  /\ ManualRetries \in Nat
  /\ TimelyHeartbeats \in BOOLEAN
  /\ MaxLate \in Nat
  /\ NoWorker \notin Workers
  /\ NoJob \notin Jobs

VARIABLES
  job,      \* the runtime_job table
  scope,    \* the runtime_scope_state table
  exec,     \* the executions (processLeasedJob calls) of every worker
  active,   \* activeJobs of every worker: a Map keyed by job id
  up,       \* the worker processes that are running
  retries,  \* calls of the retry endpoint so far (bounded by ManualRetries)
  commits,  \* history: how often the commit transaction of a job succeeded
  wrote,    \* history: per scope, the jobs whose commit changed the scope
  expired,  \* history: mark_uncertain jobs taken over while they were running
  late      \* leases a live execution let expire (bounded by MaxLate)

tables == <<job, scope>>
procs  == <<exec, active, up>>
hist   == <<commits, wrote, expired, late>>
vars   == <<job, scope, exec, active, up, retries, commits, wrote, expired, late>>

-----------------------------------------------------------------------------
(* Rows and executions.                                                    *)

Terminal  == {"succeeded", "dead_letter", "cancelled"}
Waiting   == {"pending", "retry_waiting"}
Held      == {"leased", "running"}
Candidate == Waiting \cup Held
Statuses  == {"absent"} \cup Candidate \cup Terminal

JobRow   == [status : Statuses, attempts : Nat, avail : Nat, created : Ranks \cup {0},
             owner : Workers \cup {NoWorker}, left : Nat]
ScopeRow == [rev : Nat, owner : Workers \cup {NoWorker}, left : Nat]

(* What processLeasedJob keeps in memory: its copy of the row as of the    *)
(* lease (attempts, basedOnRevision), and where it is.  "leased": awaiting *)
(* the emit of job_leased inside pump; "running": in processor.prepare;    *)
(* "recovering": about to commit recoverExpiredRunning; "after": awaiting  *)
(* afterCommit; "failing": in handleJobFailure; "failed": its transaction  *)
(* is done, the emit of the failure is not.                                *)
Phases == {"idle", "leased", "running", "recovering", "after", "failing", "failed"}
Exec   == [pc : Phases, job : Jobs \cup {NoJob}, attempts : Nat, based : Nat,
           recover : BOOLEAN, fatal : BOOLEAN, seen : SUBSET Jobs]
Idle   == [pc |-> "idle", job |-> NoJob, attempts |-> 0, based |-> 0,
           recover |-> FALSE, fatal |-> FALSE, seen |-> {}]

TypeOK ==
  /\ job \in [Jobs -> JobRow]
  /\ scope \in [Scopes -> ScopeRow]
  /\ exec \in [Workers -> [Slots -> Exec]]
  /\ active \in [Workers -> SUBSET Jobs]
  /\ up \subseteq Workers
  /\ retries \in Nat
  /\ commits \in [Jobs -> Nat]
  /\ wrote \in [Scopes -> SUBSET Jobs]
  /\ expired \subseteq Jobs
  /\ late \in Nat

Init ==
  /\ job = [j \in Jobs |-> [status |-> "absent", attempts |-> 0, avail |-> 0, created |-> 0,
                            owner |-> NoWorker, left |-> 0]]
  /\ scope = [s \in Scopes |-> [rev |-> 0, owner |-> NoWorker, left |-> 0]]
  /\ exec = [w \in Workers |-> [x \in Slots |-> Idle]]
  /\ active = [w \in Workers |-> {}]
  /\ up = Workers
  /\ retries = 0
  /\ commits = [j \in Jobs |-> 0]
  /\ wrote = [s \in Scopes |-> {}]
  /\ expired = {}
  /\ late = 0

-----------------------------------------------------------------------------
(* Conditions of the WHERE clauses and of the guards.  The operators named *)
(* Bad... are the same conditions as a plausible bug would leave them: the *)
(* mutation runs put one in the place of the operator it precedes.         *)

BadIsDue(j) == job[j].status \in Waiting /\ job[j].avail = 0

IsDue(j) == job[j].status \in Candidate /\ job[j].avail = 0 /\ job[j].left = 0

IsBlocked(j) ==
  \E k \in Jobs : /\ ScopeOf[k] = ScopeOf[j]
                  /\ job[k].status \notin Terminal \cup {"absent"}
                  /\ job[k].created < job[j].created

BadScopeIsFree(s, w) == TRUE

ScopeIsFree(s, w) == scope[s].left = 0 \/ scope[s].owner = w

OwnsScope(s, w) == scope[s].owner = w

OwnsRow(j, w, status) == job[j].owner = w /\ job[j].status = status

RevisionMatches(e) == e.based = scope[ScopeOf[e.job]].rev

(* UPDATE ... WHERE lease_owner = workerId in handleJobFailure.            *)
BadStillOwns(j, w) == TRUE

StillOwns(j, w) == job[j].owner = w

BadNextRevision(rev, changed) == rev

NextRevision(rev, changed) == IF changed THEN rev + 1 ELSE rev

CanRetry(e) == ~e.fatal /\ e.attempts < MaxAttempts

(* pump is not re-entered while it awaits the emit of job_leased.          *)
BadPumping(w) == FALSE

Pumping(w) == \E x \in Slots : exec[w][x].pc = "leased"

(* scopeStates.releaseLease: only the owner's own lease is cleared.        *)
Released(s, w) ==
  IF OwnsScope(s, w) THEN [scope[s] EXCEPT !.owner = NoWorker, !.left = 0] ELSE scope[s]

Renewed(row) == [row EXCEPT !.left = LeaseTtl]

BadEnded(row, status, delay) == [row EXCEPT !.status = status, !.avail = delay]

Ended(row, status, delay) ==
  [row EXCEPT !.status = status, !.owner = NoWorker, !.left = 0, !.avail = delay]

(* The promise of a job settles: finally removes it from activeJobs.       *)
Finish(w, x) ==
  /\ exec' = [exec EXCEPT ![w][x] = Idle]
  /\ active' = [active EXCEPT ![w] = @ \ {exec[w][x].job}]
  /\ UNCHANGED up

Goto(w, x, e) ==
  /\ exec' = [exec EXCEPT ![w][x] = e]
  /\ UNCHANGED <<active, up>>

-----------------------------------------------------------------------------
(* The scheduler and the management API.                                   *)

Enqueue(j) ==
  /\ job[j].status = "absent"
  /\ \E c \in Ranks : job' = [job EXCEPT ![j] = [@ EXCEPT !.status = "pending", !.created = c]]
  /\ UNCHANGED <<scope, procs, retries, hist>>

Cancel(j) ==
  /\ job[j].status \in Waiting
  /\ job' = [job EXCEPT ![j] = Ended(@, "cancelled", @.avail)]
  /\ UNCHANGED <<scope, procs, retries, hist>>

Retry(j) ==
  /\ job[j].status \in {"dead_letter", "cancelled"}
  /\ retries < ManualRetries
  /\ job' = [job EXCEPT ![j] = [Ended(@, "retry_waiting", 0) EXCEPT !.attempts = 0]]
  /\ retries' = retries + 1
  /\ expired' = expired \ {j}
  /\ UNCHANGED <<scope, procs, commits, wrote, late>>

-----------------------------------------------------------------------------
(* One worker.                                                             *)

(* tryLeaseNextJob and tryLeaseCandidate.  The candidate scan is ordered   *)
(* by availableAt; which due job comes first is left open.                 *)
Lease(w, x, j) ==
  LET s == ScopeOf[j]
      recovers == job[j].status = "running" /\ j \in MarkUncertain
  IN  /\ w \in up
      /\ exec[w][x] = Idle
      /\ ~Pumping(w)
      /\ Cardinality(active[w]) < MaxConcurrentJobs
      /\ IsDue(j)
      /\ ~IsBlocked(j)
      /\ ScopeIsFree(s, w)
      /\ job[j].attempts < AttemptCap
      /\ job' = [job EXCEPT ![j] = [@ EXCEPT !.status = "leased", !.owner = w, !.left = LeaseTtl]]
      /\ scope' = [scope EXCEPT ![s] = [@ EXCEPT !.owner = w, !.left = LeaseTtl]]
      /\ exec' = [exec EXCEPT ![w][x] =
                    [pc |-> "leased", job |-> j, attempts |-> job[j].attempts,
                     based |-> scope[s].rev, recover |-> recovers, fatal |-> FALSE,
                     seen |-> wrote[s]]]
      /\ expired' = IF recovers THEN expired \cup {j} ELSE expired
      /\ UNCHANGED <<active, up, retries, commits, wrote, late>>

(* activeJobs.set, done in the same synchronous run as the first           *)
(* transaction of processLeasedJob.                                        *)
Begin(w, x, e) ==
  /\ exec' = [exec EXCEPT ![w][x] = e]
  /\ active' = [active EXCEPT ![w] = @ \cup {e.job}]
  /\ UNCHANGED up

MarkRunning(w, x) ==
  LET e == exec[w][x]
      s == ScopeOf[e.job]
  IN  /\ e.pc = "leased" /\ ~e.recover
      /\ OwnsScope(s, w)
      /\ OwnsRow(e.job, w, "leased")
      /\ scope' = [scope EXCEPT ![s] = Renewed(@)]
      /\ job' = [job EXCEPT ![e.job] =
                   [Renewed(@) EXCEPT !.status = "running", !.attempts = e.attempts + 1]]
      /\ Begin(w, x, [e EXCEPT !.pc = "running", !.attempts = @ + 1])
      /\ UNCHANGED <<retries, hist>>

MarkRunningLost(w, x) ==
  LET e == exec[w][x]
  IN  /\ e.pc = "leased" /\ ~e.recover
      /\ ~(OwnsScope(ScopeOf[e.job], w) /\ OwnsRow(e.job, w, "leased"))
      /\ Begin(w, x, [e EXCEPT !.pc = "failing"])
      /\ UNCHANGED <<tables, retries, hist>>

BeginRecovery(w, x) ==
  LET e == exec[w][x]
  IN  /\ e.pc = "leased" /\ e.recover
      /\ Begin(w, x, [e EXCEPT !.pc = "recovering"])
      /\ UNCHANGED <<tables, retries, hist>>

(* heartbeatRunningJob and updateRunningJob renew the lease, even one that *)
(* expired, as long as nobody took it.                                     *)
Heartbeat(w, x) ==
  LET e == exec[w][x]
      s == ScopeOf[e.job]
  IN  /\ e.pc = "running"
      /\ OwnsScope(s, w)
      /\ OwnsRow(e.job, w, "running")
      /\ scope' = [scope EXCEPT ![s] = Renewed(@)]
      /\ job' = [job EXCEPT ![e.job] = Renewed(@)]
      /\ UNCHANGED <<procs, retries, hist>>

HeartbeatLost(w, x) ==
  LET e == exec[w][x]
  IN  /\ e.pc = "running"
      /\ ~(OwnsScope(ScopeOf[e.job], w) /\ OwnsRow(e.job, w, "running"))
      /\ Goto(w, x, [e EXCEPT !.pc = "failing"])
      /\ UNCHANGED <<tables, retries, hist>>

(* prepare, commit or recoverExpiredRunning of the processor throws; a     *)
(* fatal or uncertain outcome is not retried.                              *)
ProcessorFails(w, x) ==
  /\ exec[w][x].pc \in {"running", "recovering"}
  /\ \E f \in BOOLEAN : Goto(w, x, [exec[w][x] EXCEPT !.pc = "failing", !.fatal = f])
  /\ UNCHANGED <<tables, retries, hist>>

StatusOf(e) == IF e.recover THEN "leased" ELSE "running"

MayCommit(w, e) ==
  /\ RevisionMatches(e)
  /\ OwnsScope(ScopeOf[e.job], w)
  /\ OwnsRow(e.job, w, StatusOf(e))

(* The commit transaction: revision guard, processor.commit, then          *)
(* finalizeSuccess of the scope and finalizeSuccessfulJob.                 *)
Commit(w, x) ==
  LET e == exec[w][x]
      s == ScopeOf[e.job]
  IN  /\ e.pc \in {"running", "recovering"}
      /\ MayCommit(w, e)
      /\ \E changed \in BOOLEAN :
           /\ scope' = [scope EXCEPT ![s] = [rev |-> NextRevision(e.based, changed),
                                             owner |-> NoWorker, left |-> 0]]
           /\ wrote' = [wrote EXCEPT ![s] = IF changed THEN @ \cup {e.job} ELSE @]
      /\ job' = [job EXCEPT ![e.job] = Ended(@, "succeeded", @.avail)]
      /\ commits' = [commits EXCEPT ![e.job] = @ + 1]
      /\ Goto(w, x, [e EXCEPT !.pc = "after"])
      /\ UNCHANGED <<retries, expired, late>>

CommitLost(w, x) ==
  /\ exec[w][x].pc \in {"running", "recovering"}
  /\ ~MayCommit(w, exec[w][x])
  /\ Goto(w, x, [exec[w][x] EXCEPT !.pc = "failing"])
  /\ UNCHANGED <<tables, retries, hist>>

AfterCommitFails(w, x) ==
  /\ exec[w][x].pc = "after"
  /\ Goto(w, x, [exec[w][x] EXCEPT !.pc = "failing"])
  /\ UNCHANGED <<tables, retries, hist>>

(* The promise of processLeasedJob settles, after a success or a failure.  *)
Settle(w, x) ==
  /\ exec[w][x].pc \in {"after", "failed"}
  /\ Finish(w, x)
  /\ UNCHANGED <<tables, retries, hist>>

(* handleJobFailure: the row is given up only where this worker still owns *)
(* it; the scope lease is released where this worker owns it.              *)
HandleFailure(w, x) ==
  LET e == exec[w][x]
      s == ScopeOf[e.job]
  IN  /\ e.pc = "failing"
      /\ scope' = [scope EXCEPT ![s] = Released(s, w)]
      /\ IF StillOwns(e.job, w)
         THEN \/ /\ CanRetry(e)
                 /\ \E d \in RetryDelays :
                      job' = [job EXCEPT ![e.job] = Ended(@, "retry_waiting", d)]
              \/ /\ ~CanRetry(e)
                 /\ job' = [job EXCEPT ![e.job] = Ended(@, "dead_letter", @.avail)]
         ELSE UNCHANGED job
      /\ Goto(w, x, [e EXCEPT !.pc = "failed"])
      /\ UNCHANGED <<retries, hist>>

-----------------------------------------------------------------------------
(* The environment.                                                        *)

(* An execution of a live worker whose lease one more unit would expire.   *)
Urgent == \E w \in up, x \in Slots :
            /\ exec[w][x].pc \in {"leased", "running", "recovering", "failing"}
            /\ job[exec[w][x].job].owner = w
            /\ job[exec[w][x].job].left = 1

BadBefore(n) == n - 1

Before(n) == IF n > 0 THEN n - 1 ELSE 0

Tick ==
  /\ TimelyHeartbeats /\ Urgent => late < MaxLate
  /\ late' = IF TimelyHeartbeats /\ Urgent THEN late + 1 ELSE late
  /\ \/ \E j \in Jobs : job[j].left > 0 \/ job[j].avail > 0
     \/ \E s \in Scopes : scope[s].left > 0
  /\ job' = [j \in Jobs |-> [job[j] EXCEPT !.left = Before(@), !.avail = Before(@)]]
  /\ scope' = [s \in Scopes |-> [scope[s] EXCEPT !.left = Before(@)]]
  /\ UNCHANGED <<procs, retries, commits, wrote, expired>>

(* The process dies; its successor has another id.  One worker survives.   *)
Crash(w) ==
  /\ w \in up /\ up # {w}
  /\ up' = up \ {w}
  /\ exec' = [exec EXCEPT ![w] = [x \in Slots |-> Idle]]
  /\ active' = [active EXCEPT ![w] = {}]
  /\ UNCHANGED <<tables, retries, hist>>

Step(w, x) ==
  \/ MarkRunning(w, x) \/ MarkRunningLost(w, x) \/ BeginRecovery(w, x)
  \/ Heartbeat(w, x) \/ HeartbeatLost(w, x)
  \/ ProcessorFails(w, x)
  \/ Commit(w, x) \/ CommitLost(w, x) \/ AfterCommitFails(w, x)
  \/ Settle(w, x) \/ HandleFailure(w, x)

Next ==
  \/ \E j \in Jobs : Enqueue(j) \/ Cancel(j) \/ Retry(j)
  \/ \E w \in Workers, x \in Slots, j \in Jobs : Lease(w, x, j)
  \/ \E w \in Workers, x \in Slots : Step(w, x)
  \/ \E w \in Workers : Crash(w)
  \/ Tick

Spec == Init /\ [][Next]_vars

(* What the scheduling of the code justifies: pump runs on a timer and     *)
(* after every settled job, so a due job that stays leasable is leased;    *)
(* prepare, the transactions and the handlers of an execution come to an   *)
(* end; time passes.  Nothing forces an error, an expiry or a crash.       *)
Fairness ==
  /\ WF_vars(Tick)
  /\ \A j \in Jobs : WF_vars(\E w \in Workers, x \in Slots : Lease(w, x, j))
  /\ \A w \in Workers, x \in Slots :
       /\ WF_vars(MarkRunning(w, x) \/ MarkRunningLost(w, x) \/ BeginRecovery(w, x))
       /\ WF_vars(Commit(w, x) \/ CommitLost(w, x) \/ ProcessorFails(w, x))
       /\ WF_vars(AfterCommitFails(w, x) \/ Settle(w, x))
       /\ WF_vars(HandleFailure(w, x))

FairSpec == Spec /\ Fairness

-----------------------------------------------------------------------------
(* Properties.                                                             *)

(* A job takes effect at most once: however leases expire, executions of   *)
(* one or of several workers overlap, transactions fail and operators      *)
(* retry, the commit transaction of one job succeeds at most once.         *)
CommitOnce == \A j \in Jobs : commits[j] <= 1

(* No lost update: at the instant an execution commits, its scope has been *)
(* changed by exactly the jobs that had changed it when the execution      *)
(* leased the scope, whoever ran in between (basedOnRevision and the       *)
(* revision guard).                                                        *)
CommitSeesLatest ==
  [][\A j \in Jobs : commits'[j] # commits[j] =>
       \E w \in Workers, x \in Slots :
         /\ exec[w][x].job = j
         /\ exec[w][x].pc # "after" /\ exec'[w][x].pc = "after"
         /\ exec[w][x].seen = wrote[ScopeOf[j]]]_vars

(* A terminal row is out of the reach of every execution that is still in  *)
(* flight: success is final, and a dead-lettered or cancelled job comes    *)
(* back only through the retry endpoint, with its attempts reset.          *)
TerminalIsFinal ==
  [][\A j \in Jobs :
       job[j].status \in Terminal /\ job'[j].status # job[j].status =>
         /\ job[j].status # "succeeded"
         /\ job'[j].status = "retry_waiting" /\ job'[j].attempts = 0
         /\ retries' = retries + 1]_vars

(* attemptCount is written from the copy an execution took at its lease:   *)
(* no copy is ever stale enough to lose or double an increment.  Each      *)
(* start of a job counts once; nothing else but the retry endpoint writes  *)
(* the counter.                                                            *)
Starts(j) == job[j].status # "running" /\ job'[j].status = "running"
AttemptsNeverLost ==
  [][\A j \in Jobs :
       /\ Starts(j) => job'[j].attempts = job[j].attempts + 1
       /\ ~Starts(j) /\ job'[j].attempts # job[j].attempts =>
            job'[j].attempts = 0 /\ retries' = retries + 1]_vars

(* Jobs of one scope run one at a time: two executions are never both in   *)
(* prepare for a scope under a lease that has not expired.                 *)
Holds(w, x) ==
  /\ exec[w][x].pc = "running"
  /\ OwnsRow(exec[w][x].job, w, "running")
  /\ job[exec[w][x].job].left > 0
SerialScope ==
  \A w, v \in Workers, x, y \in Slots :
    Holds(w, x) /\ Holds(v, y) /\ ScopeOf[exec[w][x].job] = ScopeOf[exec[v][y].job]
      => w = v /\ x = y

(* Conservative recovery: once a mark_uncertain job has been taken over    *)
(* after its running lease expired, its processor's prepare is not started *)
(* again unless an operator asks for a retry.                              *)
NeverReplayed ==
  [][\A w \in Workers, x \in Slots :
       exec[w][x].pc # "running" /\ exec'[w][x].pc = "running" =>
         exec[w][x].job \notin expired]_vars

(* Nothing is stuck: as long as live executions let leases expire finitely *)
(* often, a job that was enqueued succeeds, is dead-lettered or cancelled, *)
(* even when the worker that runs it dies at any point.                    *)
EveryJobEnds ==
  \A j \in Jobs : job[j].status \in Candidate ~> job[j].status \in Terminal

(* The runtime implements the ledger its callers rely on.                  *)
LedgerState(status) ==
  CASE status = "absent" -> "absent"
    [] status \in Candidate -> "open"
    [] status = "succeeded" -> "applied"
    [] OTHER -> "parked"

Ledger == INSTANCE JobLedger WITH
  state    <- [j \in Jobs |-> LedgerState(job[j].status)],
  revision <- [s \in Scopes |-> scope[s].rev]

LedgerSpec == Ledger!Spec

=============================================================================
