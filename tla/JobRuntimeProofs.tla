-------------------------- MODULE JobRuntimeProofs --------------------------
(***************************************************************************)
(* Proofs about JobRuntime, for every number of jobs, scopes, workers and  *)
(* executions, every lease time, retry delay and attempt limit, and with   *)
(* or without timely heartbeats.                                           *)
(***************************************************************************)
EXTENDS JobRuntime, FiniteSetTheorems, TLAPS

-----------------------------------------------------------------------------
(* Type correctness.                                                       *)

(* The empty tables and the idle workers are well typed.                   *)
LEMMA InitTypeOK == Init => TypeOK
BY ConstantsAssumption
   DEF Init, TypeOK, JobRow, ScopeRow, Exec, Idle, Phases, Statuses, Candidate, Waiting, Held

(* Moving an execution keeps the process variables well typed.             *)
LEMMA ProcTypes ==
  ASSUME TypeOK, NEW w \in Workers, NEW x \in Slots, NEW e \in Exec
  PROVE  /\ Idle \in Exec
         /\ exec[w][x] \in Exec
         /\ Goto(w, x, e) => /\ exec' \in [Workers -> [Slots -> Exec]]
                             /\ active' \in [Workers -> SUBSET Jobs] /\ up' \subseteq Workers
         /\ Finish(w, x) => /\ exec' \in [Workers -> [Slots -> Exec]]
                            /\ active' \in [Workers -> SUBSET Jobs] /\ up' \subseteq Workers
         /\ Begin(w, x, e) /\ e.job \in Jobs =>
                            /\ exec' \in [Workers -> [Slots -> Exec]]
                            /\ active' \in [Workers -> SUBSET Jobs] /\ up' \subseteq Workers
<1>1. Idle \in Exec
  BY DEF Idle, Exec, Phases
<1>2. exec[w][x] \in Exec
  BY DEF TypeOK
<1>3. Goto(w, x, e) => /\ exec' \in [Workers -> [Slots -> Exec]]
                       /\ active' \in [Workers -> SUBSET Jobs] /\ up' \subseteq Workers
  BY DEF Goto, TypeOK
<1>4. Finish(w, x) => /\ exec' \in [Workers -> [Slots -> Exec]]
                      /\ active' \in [Workers -> SUBSET Jobs] /\ up' \subseteq Workers
  BY <1>1 DEF Finish, TypeOK
<1>5. Begin(w, x, e) /\ e.job \in Jobs =>
                      /\ exec' \in [Workers -> [Slots -> Exec]]
                      /\ active' \in [Workers -> SUBSET Jobs] /\ up' \subseteq Workers
  BY DEF Begin, TypeOK
<1> QED BY <1>1, <1>2, <1>3, <1>4, <1>5

(* Giving up, renewing: the two ways a row loses or keeps its lease.       *)
LEMMA EndedType ==
  ASSUME NEW r \in JobRow, NEW st \in Statuses, NEW d \in Nat
  PROVE  /\ Ended(r, st, d) \in JobRow
         /\ [Ended(r, st, d) EXCEPT !.attempts = 0] \in JobRow
BY DEF Ended, JobRow

(* A renewed row, of a job or of a scope, keeps its type.                  *)
LEMMA RenewedType ==
  ASSUME NEW r
  PROVE  /\ r \in JobRow => Renewed(r) \in JobRow
         /\ r \in ScopeRow => Renewed(r) \in ScopeRow
BY ConstantsAssumption DEF Renewed, JobRow, ScopeRow

(* The names of the statuses the actions write.                            *)
LEMMA StatusNames ==
  /\ "pending" \in Statuses /\ "retry_waiting" \in Statuses
  /\ "leased" \in Statuses /\ "running" \in Statuses
  /\ "succeeded" \in Statuses /\ "dead_letter" \in Statuses /\ "cancelled" \in Statuses
BY DEF Statuses, Candidate, Waiting, Held, Terminal

(* An execution stays well typed, and with its job, wherever it goes next. *)
LEMMA ExecTypes ==
  ASSUME NEW e \in Exec, NEW p \in Phases, NEW f \in BOOLEAN
  PROVE  /\ [e EXCEPT !.pc = p] \in Exec
         /\ [e EXCEPT !.pc = p, !.fatal = f] \in Exec
         /\ [e EXCEPT !.pc = p].job = e.job
         /\ [e EXCEPT !.pc = p, !.fatal = f].job = e.job
<1>1. [e EXCEPT !.pc = p] \in Exec /\ [e EXCEPT !.pc = p].job = e.job
  BY DEF Exec
<1>2. [e EXCEPT !.pc = p, !.fatal = f] \in Exec /\ [e EXCEPT !.pc = p, !.fatal = f].job = e.job
  BY DEF Exec
<1> QED BY <1>1, <1>2

(* The execution a lease creates is well typed and has its job.            *)
LEMMA StartedType ==
  ASSUME NEW e \in Exec
  PROVE  /\ [e EXCEPT !.pc = "running", !.attempts = @ + 1] \in Exec
         /\ [e EXCEPT !.pc = "running", !.attempts = @ + 1].job = e.job
<1>1. "running" \in Phases /\ e.attempts + 1 \in Nat
  BY DEF Exec, Phases
<1> QED BY <1>1 DEF Exec

(* An execution that is not idle has a job.                                *)
BusyHasJob ==
  \A w \in Workers, x \in Slots : exec[w][x].pc # "idle" => exec[w][x].job \in Jobs

(* Writing one execution keeps every busy execution with a job.            *)
LEMMA BusyKept ==
  ASSUME TypeOK, BusyHasJob, NEW w \in Workers, NEW x \in Slots, NEW e \in Exec,
         e.pc # "idle" => e.job \in Jobs, exec' = [exec EXCEPT ![w][x] = e]
  PROVE  BusyHasJob'
BY DEF TypeOK, BusyHasJob

(* Every action keeps the types, and gives a busy execution a job.         *)
THEOREM TypeStep ==
  TypeOK /\ BusyHasJob /\ [Next]_vars => TypeOK' /\ BusyHasJob'
<1> SUFFICES ASSUME TypeOK, BusyHasJob, [Next]_vars
             PROVE  TypeOK' /\ BusyHasJob'
  OBVIOUS
<1> USE ConstantsAssumption
<1>1. ASSUME NEW j \in Jobs, Enqueue(j)
      PROVE  TypeOK' /\ BusyHasJob'
  <2>1. PICK c \in Ranks : job' = [job EXCEPT ![j] = [@ EXCEPT !.status = "pending", !.created = c]]
    BY <1>1 DEF Enqueue
  <2>2. [job[j] EXCEPT !.status = "pending", !.created = c] \in JobRow
    <3>1. job[j] \in JobRow
      BY DEF TypeOK
    <3> QED BY <3>1, StatusNames DEF JobRow
  <2>3. job' \in [Jobs -> JobRow]
    BY <2>1, <2>2 DEF TypeOK
  <2> QED BY <1>1, <2>3 DEF Enqueue, TypeOK, BusyHasJob, procs, hist
<1>2. ASSUME NEW j \in Jobs, Cancel(j)
      PROVE  TypeOK' /\ BusyHasJob'
  <2>1. "cancelled" \in Statuses /\ job[j] \in JobRow
    BY DEF TypeOK, Statuses, Terminal
  <2>2. job[j].avail \in Nat
    BY <2>1 DEF JobRow
  <2>3. job' \in [Jobs -> JobRow]
    BY <1>2, <2>1, <2>2, EndedType DEF Cancel, TypeOK
  <2> QED BY <1>2, <2>3 DEF Cancel, TypeOK, BusyHasJob, procs, hist
<1>3. ASSUME NEW j \in Jobs, Retry(j)
      PROVE  TypeOK' /\ BusyHasJob'
  <2>1. "retry_waiting" \in Statuses /\ job[j] \in JobRow
    BY DEF TypeOK, Statuses, Candidate, Waiting
  <2>2. job' \in [Jobs -> JobRow]
    BY <1>3, <2>1, EndedType DEF Retry, TypeOK
  <2> QED BY <1>3, <2>2 DEF Retry, TypeOK, BusyHasJob, procs
<1>4. ASSUME NEW w \in Workers, NEW x \in Slots, NEW j \in Jobs, Lease(w, x, j)
      PROVE  TypeOK' /\ BusyHasJob'
  <2>1. ScopeOf[j] \in Scopes
    OBVIOUS
  <2>6. [job[j] EXCEPT !.status = "leased", !.owner = w, !.left = LeaseTtl] \in JobRow
    <3>1. job[j] \in JobRow
      BY DEF TypeOK
    <3> QED BY <3>1, StatusNames DEF JobRow
  <2>2. job' \in [Jobs -> JobRow]
    BY <1>4, <2>6 DEF Lease, TypeOK
  <2>3. scope' \in [Scopes -> ScopeRow]
    BY <1>4, <2>1 DEF Lease, TypeOK, ScopeRow
  <2>4. exec' \in [Workers -> [Slots -> Exec]]
    BY <1>4, <2>1 DEF Lease, TypeOK, Exec, Phases, JobRow, ScopeRow
  <2>5. BusyHasJob'
    BY <1>4 DEF Lease, BusyHasJob, TypeOK
  <2> QED BY <1>4, <2>2, <2>3, <2>4, <2>5 DEF Lease, TypeOK
<1>5. ASSUME NEW w \in Workers, NEW x \in Slots, Step(w, x)
      PROVE  TypeOK' /\ BusyHasJob'
  <2> DEFINE e == exec[w][x]
  <2> DEFINE ProcOK == /\ exec' \in [Workers -> [Slots -> Exec]]
                       /\ active' \in [Workers -> SUBSET Jobs] /\ up' \subseteq Workers
  <2>1. e \in Exec
    BY DEF TypeOK
  <2>2. e.pc # "idle" => e.job \in Jobs /\ ScopeOf[e.job] \in Scopes
    BY DEF BusyHasJob
  <2>3. CASE MarkRunning(w, x)
    <3>1. e.pc = "leased" /\ e.job \in Jobs /\ ScopeOf[e.job] \in Scopes
      BY <2>2, <2>3 DEF MarkRunning
    <3> DEFINE f == [e EXCEPT !.pc = "running", !.attempts = @ + 1]
    <3>2. f \in Exec /\ f.job = e.job /\ Begin(w, x, f)
      BY <2>1, <2>3, StartedType DEF MarkRunning
    <3>3. ProcOK
      BY <3>1, <3>2, ProcTypes
    <3>4. BusyHasJob'
      BY <3>1, <3>2, BusyKept DEF Begin
    <3>5. [Renewed(job[e.job]) EXCEPT !.status = "running", !.attempts = e.attempts + 1] \in JobRow
      <4>1. Renewed(job[e.job]) \in JobRow /\ e.attempts + 1 \in Nat
        BY <2>1, <3>1, RenewedType DEF TypeOK, Exec
      <4> QED BY <4>1, StatusNames DEF JobRow
    <3>6. job' \in [Jobs -> JobRow]
      BY <2>3, <3>1, <3>5 DEF MarkRunning, TypeOK
    <3>7. scope' \in [Scopes -> ScopeRow]
      BY <2>3, <3>1 DEF MarkRunning, Renewed, TypeOK, ScopeRow
    <3> QED BY <2>3, <3>3, <3>4, <3>6, <3>7 DEF MarkRunning, TypeOK, hist
  <2>4. CASE MarkRunningLost(w, x)
    <3> DEFINE f == [e EXCEPT !.pc = "failing"]
    <3>1. f \in Exec /\ f.job = e.job /\ e.pc # "idle"
      BY <2>1, <2>4, ExecTypes DEF MarkRunningLost, Phases
    <3>2. ProcOK
      BY <2>2, <2>4, <3>1, ProcTypes DEF MarkRunningLost
    <3>3. BusyHasJob'
      BY <2>2, <2>4, <3>1, BusyKept DEF MarkRunningLost, Begin
    <3> QED BY <2>4, <3>2, <3>3 DEF MarkRunningLost, TypeOK, hist, tables
  <2>5. CASE BeginRecovery(w, x)
    <3> DEFINE f == [e EXCEPT !.pc = "recovering"]
    <3>1. f \in Exec /\ f.job = e.job /\ e.pc # "idle"
      BY <2>1, <2>5, ExecTypes DEF BeginRecovery, Phases
    <3>2. ProcOK
      BY <2>2, <2>5, <3>1, ProcTypes DEF BeginRecovery
    <3>3. BusyHasJob'
      BY <2>2, <2>5, <3>1, BusyKept DEF BeginRecovery, Begin
    <3> QED BY <2>5, <3>2, <3>3 DEF BeginRecovery, TypeOK, hist, tables
  <2>6. CASE Heartbeat(w, x)
    <3>1. job' \in [Jobs -> JobRow] /\ scope' \in [Scopes -> ScopeRow]
      BY <2>2, <2>6, RenewedType DEF Heartbeat, TypeOK
    <3> QED BY <2>6, <3>1 DEF Heartbeat, TypeOK, BusyHasJob, hist, procs
  <2>7. CASE HeartbeatLost(w, x)
    <3> DEFINE f == [e EXCEPT !.pc = "failing"]
    <3>1. f \in Exec /\ f.job = e.job /\ e.pc # "idle"
      BY <2>1, <2>7, ExecTypes DEF HeartbeatLost, Phases
    <3>2. ProcOK
      BY <2>2, <2>7, <3>1, ProcTypes DEF HeartbeatLost
    <3>3. BusyHasJob'
      BY <2>2, <2>7, <3>1, BusyKept DEF HeartbeatLost, Goto
    <3> QED BY <2>7, <3>2, <3>3 DEF HeartbeatLost, TypeOK, hist, tables
  <2>8. CASE ProcessorFails(w, x)
    <3>1. PICK f \in BOOLEAN : Goto(w, x, [e EXCEPT !.pc = "failing", !.fatal = f])
      BY <2>8 DEF ProcessorFails
    <3> DEFINE g == [e EXCEPT !.pc = "failing", !.fatal = f]
    <3>2. g \in Exec /\ g.job = e.job /\ e.pc # "idle"
      BY <2>1, <2>8, ExecTypes DEF ProcessorFails, Phases
    <3>3. ProcOK
      BY <3>1, <3>2, ProcTypes
    <3>4. BusyHasJob'
      BY <2>2, <3>1, <3>2, BusyKept DEF Goto
    <3> QED BY <2>8, <3>3, <3>4 DEF ProcessorFails, TypeOK, hist, tables
  <2>9. CASE Commit(w, x)
    <3>1. e.job \in Jobs /\ ScopeOf[e.job] \in Scopes
      BY <2>2, <2>9 DEF Commit
    <3> DEFINE f == [e EXCEPT !.pc = "after"]
    <3>2. f \in Exec /\ f.job = e.job /\ Goto(w, x, f)
      BY <2>1, <2>9, ExecTypes DEF Commit, Phases
    <3>3. ProcOK /\ BusyHasJob'
      BY <3>1, <3>2, ProcTypes, BusyKept DEF Goto
    <3>4. /\ "succeeded" \in Statuses
          /\ job[e.job] \in JobRow /\ job[e.job].avail \in Nat
      BY <3>1 DEF Statuses, Terminal, TypeOK, JobRow
    <3>5. job' \in [Jobs -> JobRow]
      BY <2>9, <3>1, <3>4, EndedType DEF Commit, TypeOK
    <3>6. /\ scope' \in [Scopes -> ScopeRow]
          /\ wrote' \in [Scopes -> SUBSET Jobs]
          /\ commits' \in [Jobs -> Nat]
      BY <2>1, <2>9, <3>1 DEF Commit, NextRevision, TypeOK, ScopeRow, Exec
    <3> QED BY <2>9, <3>3, <3>5, <3>6 DEF Commit, TypeOK
  <2>10. CASE CommitLost(w, x)
    <3> DEFINE f == [e EXCEPT !.pc = "failing"]
    <3>1. f \in Exec /\ f.job = e.job /\ e.pc # "idle"
      BY <2>1, <2>10, ExecTypes DEF CommitLost, Phases
    <3>2. ProcOK
      BY <2>2, <2>10, <3>1, ProcTypes DEF CommitLost
    <3>3. BusyHasJob'
      BY <2>2, <2>10, <3>1, BusyKept DEF CommitLost, Goto
    <3> QED BY <2>10, <3>2, <3>3 DEF CommitLost, TypeOK, hist, tables
  <2>11. CASE AfterCommitFails(w, x)
    <3> DEFINE f == [e EXCEPT !.pc = "failing"]
    <3>1. f \in Exec /\ f.job = e.job /\ e.pc # "idle"
      BY <2>1, <2>11, ExecTypes DEF AfterCommitFails, Phases
    <3>2. ProcOK
      BY <2>2, <2>11, <3>1, ProcTypes DEF AfterCommitFails
    <3>3. BusyHasJob'
      BY <2>2, <2>11, <3>1, BusyKept DEF AfterCommitFails, Goto
    <3> QED BY <2>11, <3>2, <3>3 DEF AfterCommitFails, TypeOK, hist, tables
  <2>12. CASE Settle(w, x)
    <3>1. Idle \in Exec /\ Idle.pc = "idle"
      BY DEF Idle, Exec, Phases
    <3>2. ProcOK /\ BusyHasJob'
      BY <2>1, <2>12, <3>1, ProcTypes, BusyKept DEF Settle, Finish
    <3> QED BY <2>12, <3>2 DEF Settle, TypeOK, hist, tables
  <2>13. CASE HandleFailure(w, x)
    <3>1. e.job \in Jobs /\ ScopeOf[e.job] \in Scopes
      BY <2>2, <2>13 DEF HandleFailure
    <3> DEFINE f == [e EXCEPT !.pc = "failed"]
    <3>5. f \in Exec /\ f.job = e.job
      BY <2>1, ExecTypes DEF Phases
    <3>2. ProcOK /\ BusyHasJob'
      BY <2>13, <3>1, <3>5, ProcTypes, BusyKept DEF HandleFailure, Goto
    <3>6. /\ "retry_waiting" \in Statuses /\ "dead_letter" \in Statuses
          /\ job[e.job] \in JobRow /\ job[e.job].avail \in Nat
      BY <3>1 DEF Statuses, Terminal, Candidate, Waiting, TypeOK, JobRow
    <3>7. \A d \in RetryDelays : Ended(job[e.job], "retry_waiting", d) \in JobRow
      BY <3>6, EndedType
    <3>8. Ended(job[e.job], "dead_letter", job[e.job].avail) \in JobRow
      BY <3>6, EndedType
    <3>3. job' \in [Jobs -> JobRow]
      <4>1. \/ \E d \in RetryDelays : job' = [job EXCEPT ![e.job] = Ended(@, "retry_waiting", d)]
            \/ job' = [job EXCEPT ![e.job] = Ended(@, "dead_letter", @.avail)]
            \/ job' = job
        BY <2>13 DEF HandleFailure
      <4> QED BY <3>1, <3>7, <3>8, <4>1 DEF TypeOK
    <3>4. scope' \in [Scopes -> ScopeRow]
      BY <2>13, <3>1 DEF HandleFailure, Released, TypeOK, ScopeRow
    <3> QED BY <2>13, <3>2, <3>3, <3>4 DEF HandleFailure, TypeOK, hist
  <2> QED BY <1>5, <2>3, <2>4, <2>5, <2>6, <2>7, <2>8, <2>9, <2>10, <2>11, <2>12, <2>13 DEF Step
<1>6. ASSUME NEW w \in Workers, Crash(w)
      PROVE  TypeOK' /\ BusyHasJob'
  BY <1>6 DEF Crash, Idle, TypeOK, BusyHasJob, Exec, Phases, tables, hist
<1>7. CASE Tick
  <2>1. \A n \in Nat : Before(n) \in Nat
    BY DEF Before
  <2>3. \A r \in JobRow : [r EXCEPT !.left = Before(@), !.avail = Before(@)] \in JobRow
    BY <2>1 DEF JobRow
  <2>4. \A r \in ScopeRow : [r EXCEPT !.left = Before(@)] \in ScopeRow
    BY <2>1 DEF ScopeRow
  <2>2. job' \in [Jobs -> JobRow] /\ scope' \in [Scopes -> ScopeRow]
    BY <1>7, <2>3, <2>4 DEF Tick, TypeOK
  <2>5. late' \in Nat
    <3>1. late \in Nat /\ (late' = late + 1 \/ late' = late)
      BY <1>7, Zenon DEF Tick, TypeOK
    <3> QED BY <3>1
  <2> QED BY <1>7, <2>2, <2>5 DEF Tick, TypeOK, BusyHasJob, procs
<1>8. CASE UNCHANGED vars
  BY <1>8 DEF vars, TypeOK, BusyHasJob
<1> QED BY <1>1, <1>2, <1>3, <1>4, <1>5, <1>6, <1>7, <1>8 DEF Next

(* In every reachable state the tables, the executions and the bookkeeping *)
(* of the workers are well typed (every action of runtime-worker.ts, the   *)
(* scheduler and the management API).                                      *)
THEOREM TypeCorrect == Spec => []TypeOK
<1>1. Init => TypeOK /\ BusyHasJob
  BY InitTypeOK DEF Init, BusyHasJob, Idle
<1> QED BY <1>1, TypeStep, PTL DEF Spec

-----------------------------------------------------------------------------
(* At most one commit per job.  The strengthening: a row has a lease owner *)
(* exactly while it is leased or running, so that no execution still in    *)
(* flight matches the WHERE clauses of a terminal row; and the commits of  *)
(* a job are told by its status.                                           *)
OwnerIffHeld == \A j \in Jobs : job[j].status \in Held <=> job[j].owner # NoWorker

CommitsMatch == \A j \in Jobs : commits[j] = IF job[j].status = "succeeded" THEN 1 ELSE 0

RowInv == TypeOK /\ BusyHasJob /\ OwnerIffHeld /\ CommitsMatch

(* What an action does to the row of job j, told without the rest.         *)
RowStep(j) ==
  \/ job'[j].status = job[j].status /\ job'[j].owner = job[j].owner /\ commits'[j] = commits[j]
  \/ /\ job[j].status \notin {"succeeded"} /\ job'[j].status \notin {"succeeded"}
     /\ job'[j].status \in Held <=> job'[j].owner # NoWorker
     /\ commits'[j] = commits[j]
     /\ job[j].status \in Terminal =>
          job'[j].status = "retry_waiting" /\ job'[j].attempts = 0 /\ retries' = retries + 1
  \/ /\ job[j].status \in Held /\ job'[j].status = "succeeded" /\ job'[j].owner = NoWorker
     /\ commits'[j] = commits[j] + 1

(* Every action treats every row in one of the ways of RowStep.            *)
LEMMA RowSteps ==
  RowInv /\ [Next]_vars => \A j \in Jobs : RowStep(j)
<1> SUFFICES ASSUME RowInv, [Next]_vars, NEW i \in Jobs
             PROVE  RowStep(i)
  OBVIOUS
<1> USE ConstantsAssumption
<1>0. /\ job \in [Jobs -> JobRow]
      /\ job[i] \in JobRow
      /\ commits \in [Jobs -> Nat]
      /\ job[i].status \in Held <=> job[i].owner # NoWorker
  BY DEF RowInv, TypeOK, OwnerIffHeld
<1>r. \A j \in Jobs : \A r : job' = [job EXCEPT ![j] = r] => job'[i] = IF i = j THEN r ELSE job[i]
  BY <1>0
<1>e. \A r \in JobRow : \A st, d : /\ Ended(r, st, d).status = st
                                   /\ Ended(r, st, d).owner = NoWorker
  BY DEF Ended, JobRow
<1>1. ASSUME NEW j \in Jobs, Enqueue(j)
      PROVE  RowStep(i)
  BY <1>0, <1>1 DEF Enqueue, RowStep, hist, JobRow, Held, Terminal
<1>2. ASSUME NEW j \in Jobs, Cancel(j)
      PROVE  RowStep(i)
  <2>1. /\ job[j].status \in Waiting /\ commits' = commits
        /\ job'[i] = IF i = j THEN Ended(job[j], "cancelled", job[j].avail) ELSE job[i]
    BY <1>0, <1>2, <1>r DEF Cancel, hist
  <2> QED BY <1>0, <1>e, <2>1 DEF RowStep, Held, Waiting, Terminal
<1>3. ASSUME NEW j \in Jobs, Retry(j)
      PROVE  RowStep(i)
  <2>1. /\ job[j].status \in {"dead_letter", "cancelled"} /\ commits' = commits
        /\ job'[i] = IF i = j THEN [Ended(job[j], "retry_waiting", 0) EXCEPT !.attempts = 0]
                     ELSE job[i]
        /\ retries' = retries + 1
    BY <1>0, <1>3, <1>r DEF Retry
  <2> QED BY <1>0, <2>1 DEF RowStep, Held, Ended, JobRow
<1>4. ASSUME NEW w \in Workers, NEW x \in Slots, NEW j \in Jobs, Lease(w, x, j)
      PROVE  RowStep(i)
  <2>1. /\ job[j].status \in Candidate /\ commits' = commits
        /\ job'[i] = IF i = j THEN [job[j] EXCEPT !.status = "leased", !.owner = w, !.left = LeaseTtl]
                     ELSE job[i]
    BY <1>0, <1>4, <1>r DEF Lease, IsDue
  <2> QED BY <1>0, <2>1 DEF RowStep, Held, Candidate, Waiting, Terminal, JobRow
<1>5. ASSUME NEW w \in Workers, NEW x \in Slots, Step(w, x)
      PROVE  RowStep(i)
  <2> DEFINE e == exec[w][x]
  <2>1. e.pc # "idle" => e.job \in Jobs /\ job[e.job] \in JobRow
    BY <1>0 DEF RowInv, BusyHasJob
  <2>2. CASE MarkRunning(w, x)
    <3>1. /\ e.job \in Jobs /\ commits' = commits
          /\ OwnsRow(e.job, w, "leased")
          /\ job'[i] = IF i = e.job
                       THEN [Renewed(job[e.job]) EXCEPT !.status = "running", !.attempts = e.attempts + 1]
                       ELSE job[i]
      BY <1>r, <2>1, <2>2 DEF MarkRunning, hist
    <3> QED BY <1>0, <3>1 DEF RowStep, OwnsRow, Renewed, Held, Terminal, JobRow
  <2>3. CASE Heartbeat(w, x)
    <3>1. /\ e.job \in Jobs /\ commits' = commits
          /\ job'[i] = IF i = e.job THEN Renewed(job[e.job]) ELSE job[i]
      BY <1>r, <2>1, <2>3 DEF Heartbeat, hist
    <3> QED BY <1>0, <3>1 DEF RowStep, Renewed, JobRow
  <2>4. CASE Commit(w, x)
    <3>1. /\ e.job \in Jobs
          /\ OwnsRow(e.job, w, StatusOf(e))
          /\ commits' = [commits EXCEPT ![e.job] = @ + 1]
          /\ job'[i] = IF i = e.job THEN Ended(job[e.job], "succeeded", job[e.job].avail) ELSE job[i]
      BY <1>r, <2>1, <2>4 DEF Commit, MayCommit
    <3>2. job[e.job].status \in Held
      BY <3>1 DEF OwnsRow, StatusOf, Held
    <3> QED BY <1>0, <1>e, <2>1, <3>1, <3>2 DEF RowStep
  <2>5. CASE HandleFailure(w, x)
    <3>1. e.job \in Jobs /\ commits' = commits
      BY <2>1, <2>5 DEF HandleFailure, hist
    <3>2. CASE job' = job
      BY <3>1, <3>2 DEF RowStep
    <3>3. CASE job' # job
      <4>1. job[e.job].owner = w /\ job[e.job].status \in Held
        BY <2>5, <3>1, <3>3 DEF HandleFailure, StillOwns, RowInv, OwnerIffHeld
      <4>2. PICK st \in {"retry_waiting", "dead_letter"}, d \in RetryDelays \cup {job[e.job].avail} :
               job' = [job EXCEPT ![e.job] = Ended(@, st, d)]
        BY <2>5, <3>3 DEF HandleFailure
      <4>3. job'[i] = IF i = e.job THEN Ended(job[e.job], st, d) ELSE job[i]
        BY <1>r, <3>1, <4>2
      <4> QED BY <1>e, <2>1, <2>5, <3>1, <4>1, <4>2, <4>3 DEF RowStep, Held, Terminal, HandleFailure
    <3> QED BY <3>2, <3>3
  <2>6. CASE job' = job /\ commits' = commits
    BY <2>6 DEF RowStep
  <2> QED BY <1>5, <2>2, <2>3, <2>4, <2>5, <2>6
          DEF Step, MarkRunningLost, BeginRecovery, HeartbeatLost, ProcessorFails, CommitLost,
              AfterCommitFails, Settle, tables, hist
<1>6. ASSUME NEW w \in Workers, Crash(w)
      PROVE  RowStep(i)
  BY <1>6 DEF Crash, RowStep, tables, hist
<1>7. CASE Tick
  BY <1>0, <1>7 DEF Tick, RowStep, JobRow, hist
<1>8. CASE UNCHANGED vars
  BY <1>8 DEF vars, RowStep
<1> QED BY <1>1, <1>2, <1>3, <1>4, <1>5, <1>6, <1>7, <1>8 DEF Next

(* The strengthening of CommitOnce is inductive.                           *)
LEMMA RowInvStep == RowInv /\ [Next]_vars => RowInv'
<1> SUFFICES ASSUME RowInv, [Next]_vars
             PROVE  RowInv'
  OBVIOUS
<1>1. TypeOK' /\ BusyHasJob'
  BY TypeStep DEF RowInv
<1>2. \A j \in Jobs : RowStep(j)
  BY RowSteps
<1>3. OwnerIffHeld'
  BY <1>2, ConstantsAssumption DEF RowInv, OwnerIffHeld, RowStep, Held
<1>4. CommitsMatch'
  BY <1>2 DEF RowInv, CommitsMatch, RowStep, Held
<1> QED BY <1>1, <1>3, <1>4 DEF RowInv

(* The strengthening of CommitOnce holds in every reachable state.         *)
LEMMA RowInvariant == Spec => []RowInv
<1>1. Init => RowInv
  BY InitTypeOK DEF Init, RowInv, BusyHasJob, Idle, OwnerIffHeld, CommitsMatch, Held
<1> QED BY <1>1, RowInvStep, PTL DEF Spec

(* Whatever the leases, overlaps, failures and manual retries, the commit  *)
(* transaction of a job succeeds at most once (processLeasedJob and the    *)
(* WHERE clauses of finalizeSuccessfulJob and handleJobFailure).           *)
THEOREM CommitAtMostOnce == Spec => []CommitOnce
<1>1. RowInv => CommitOnce
  BY DEF RowInv, CommitsMatch, CommitOnce
<1> QED BY <1>1, RowInvariant, PTL

(* A terminal row changes only through the retry endpoint, and never from  *)
(* "succeeded" (Cancel, Retry and every UPDATE of runtime-worker.ts).      *)
THEOREM TerminalJobsAreFinal == Spec => TerminalIsFinal
<1>1. RowInv /\ [Next]_vars =>
        [\A j \in Jobs :
           job[j].status \in Terminal /\ job'[j].status # job[j].status =>
             /\ job[j].status # "succeeded"
             /\ job'[j].status = "retry_waiting" /\ job'[j].attempts = 0
             /\ retries' = retries + 1]_vars
  BY RowSteps DEF RowStep, Held, Terminal
<1> QED BY <1>1, RowInvariant, PTL DEF Spec, TerminalIsFinal

-----------------------------------------------------------------------------
(* No lost update.  The strengthening: the revision of a scope counts the  *)
(* jobs that changed it, all of which have succeeded; what an execution    *)
(* saw at its lease is part of what has been written since, and its        *)
(* basedOnRevision counts it.  Equal revisions then mean equal sets.       *)
RevisionCountsWrites ==
  \A s \in Scopes : /\ scope[s].rev = Cardinality(wrote[s])
                    /\ \A j \in wrote[s] : job[j].status = "succeeded"

SeenIsPast ==
  \A w \in Workers, x \in Slots : exec[w][x].pc # "idle" =>
    /\ exec[w][x].seen \subseteq wrote[ScopeOf[exec[w][x].job]]
    /\ exec[w][x].based = Cardinality(exec[w][x].seen)

WriteInv == RowInv /\ RevisionCountsWrites /\ SeenIsPast

(* The sets of jobs that changed a scope are finite: they can be counted.  *)
LEMMA FiniteWrites ==
  ASSUME TypeOK
  PROVE  \A S \in SUBSET Jobs : IsFiniteSet(S) /\ Cardinality(S) \in Nat
BY ConstantsAssumption, FS_Subset, FS_CardinalityType

(* An execution of (w, x) that goes on keeps what it took at its lease.    *)
Carried(w, x) ==
  exec'[w][x].pc # "idle" => /\ exec[w][x].pc # "idle"
                             /\ exec'[w][x].job = exec[w][x].job
                             /\ exec'[w][x].seen = exec[w][x].seen
                             /\ exec'[w][x].based = exec[w][x].based

(* What an execution does after its lease keeps what it saw then.          *)
LEMMA StepCarries ==
  ASSUME TypeOK, NEW w \in Workers, NEW x \in Slots, Step(w, x),
         NEW v \in Workers, NEW y \in Slots
  PROVE  Carried(v, y)
<1> DEFINE e == exec[w][x]
<1>1. e \in Exec /\ exec[v][y] \in Exec
  BY DEF TypeOK
<1>2. \A f : exec' = [exec EXCEPT ![w][x] = f] =>
               exec'[v][y] = IF v = w /\ y = x THEN f ELSE exec[v][y]
  BY DEF TypeOK
<1>3. ASSUME NEW p, NEW b, e.pc # "idle",
             \/ exec' = [exec EXCEPT ![w][x] = [e EXCEPT !.pc = p]]
             \/ exec' = [exec EXCEPT ![w][x] = [e EXCEPT !.pc = p, !.fatal = b]]
             \/ exec' = [exec EXCEPT ![w][x] = [e EXCEPT !.pc = p, !.attempts = @ + 1]]
      PROVE  Carried(v, y)
  <2>1. \A f : /\ f.job = e.job /\ f.seen = e.seen /\ f.based = e.based
               /\ exec' = [exec EXCEPT ![w][x] = f]
               => Carried(v, y)
    BY <1>2, <1>3 DEF Carried
  <2>2. \A f \in {[e EXCEPT !.pc = p], [e EXCEPT !.pc = p, !.fatal = b],
                  [e EXCEPT !.pc = p, !.attempts = @ + 1]} :
          f.job = e.job /\ f.seen = e.seen /\ f.based = e.based
    BY <1>1 DEF Exec
  <2> QED BY <1>3, <2>1, <2>2
<1>4. ASSUME exec' = [exec EXCEPT ![w][x] = Idle] \/ exec' = exec
      PROVE  Carried(v, y)
  <2>1. CASE exec' = exec
    BY <2>1 DEF Carried
  <2>2. CASE exec' = [exec EXCEPT ![w][x] = Idle]
    <3>1. exec'[v][y] = IF v = w /\ y = x THEN Idle ELSE exec[v][y]
      BY <1>2, <2>2
    <3>2. Idle.pc = "idle"
      BY DEF Idle
    <3> QED BY <3>1, <3>2 DEF Carried
  <2> QED BY <1>4, <2>1, <2>2
<1>5. CASE MarkRunning(w, x)
  BY <1>3, <1>5 DEF MarkRunning, Begin
<1>6. CASE MarkRunningLost(w, x) \/ BeginRecovery(w, x)
  BY <1>3, <1>6 DEF MarkRunningLost, BeginRecovery, Begin
<1>7. CASE HeartbeatLost(w, x) \/ CommitLost(w, x) \/ AfterCommitFails(w, x)
            \/ HandleFailure(w, x)
  BY <1>3, <1>7 DEF HeartbeatLost, CommitLost, AfterCommitFails, HandleFailure, Goto
<1>8. CASE ProcessorFails(w, x)
  BY <1>3, <1>8 DEF ProcessorFails, Goto
<1>9. CASE Commit(w, x)
  BY <1>3, <1>9 DEF Commit, Goto
<1>10. CASE Heartbeat(w, x) \/ Settle(w, x)
  BY <1>4, <1>10 DEF Heartbeat, Settle, Finish, procs
<1> QED BY <1>5, <1>6, <1>7, <1>8, <1>9, <1>10 DEF Step

(* An execution that passes the revision guard has seen every write.       *)
LEMMA SameRevisionSameWrites ==
  ASSUME WriteInv, NEW w \in Workers, NEW x \in Slots, exec[w][x].pc # "idle",
         RevisionMatches(exec[w][x])
  PROVE  exec[w][x].seen = wrote[ScopeOf[exec[w][x].job]]
<1> DEFINE e == exec[w][x]
<1> DEFINE s == ScopeOf[e.job]
<1>1. e.job \in Jobs /\ s \in Scopes
  BY ConstantsAssumption DEF WriteInv, RowInv, BusyHasJob
<1>2. e.seen \subseteq wrote[s] /\ e.based = Cardinality(e.seen)
  BY DEF WriteInv, SeenIsPast
<1>3. Cardinality(e.seen) = Cardinality(wrote[s])
  BY <1>1, <1>2 DEF RevisionMatches, WriteInv, RevisionCountsWrites
<1>4. IsFiniteSet(wrote[s])
  BY <1>1, FiniteWrites DEF WriteInv, RowInv, TypeOK
<1> QED BY <1>2, <1>3, <1>4, FS_Subset, FS_CardinalityType

(* Every action keeps the revision equal to the number of writes.          *)
LEMMA WritesStep ==
  ASSUME WriteInv, [Next]_vars
  PROVE  /\ RevisionCountsWrites'
         /\ \A s \in Scopes : wrote[s] \subseteq wrote'[s]
<1> USE ConstantsAssumption
<1>0. TypeOK /\ BusyHasJob /\ OwnerIffHeld /\ RevisionCountsWrites
  BY DEF WriteInv, RowInv
<1>1. \A j \in Jobs : job[j].status = "succeeded" => job'[j].status = "succeeded"
  BY RowSteps DEF WriteInv, RowStep, Held
<1>2. ASSUME wrote' = wrote, \A s \in Scopes : scope'[s].rev = scope[s].rev
      PROVE  RevisionCountsWrites' /\ \A s \in Scopes : wrote[s] \subseteq wrote'[s]
  BY <1>0, <1>1, <1>2 DEF RevisionCountsWrites, TypeOK
<1>3. CASE \E w \in Workers, x \in Slots : Commit(w, x)
  <2>1. PICK w \in Workers, x \in Slots : Commit(w, x)
    BY <1>3
  <2> DEFINE e == exec[w][x]
  <2> DEFINE s == ScopeOf[e.job]
  <2>2. e.job \in Jobs /\ s \in Scopes
    BY <1>0, <2>1 DEF Commit, BusyHasJob
  <2>3. PICK changed \in BOOLEAN :
          /\ scope' = [scope EXCEPT ![s] = [rev |-> NextRevision(e.based, changed),
                                            owner |-> NoWorker, left |-> 0]]
          /\ wrote' = [wrote EXCEPT ![s] = IF changed THEN @ \cup {e.job} ELSE @]
    BY <2>1 DEF Commit
  <2>4. /\ e.based = Cardinality(wrote[s])
        /\ e.job \notin wrote[s]
        /\ job'[e.job].status = "succeeded"
    <3>1. e.based = scope[s].rev /\ job[e.job].status = StatusOf(e)
      BY <2>1 DEF Commit, MayCommit, RevisionMatches, OwnsRow
    <3>2. job' = [job EXCEPT ![e.job] = Ended(job[e.job], "succeeded", job[e.job].avail)]
      BY <2>1 DEF Commit
    <3>3. job'[e.job].status = "succeeded"
      BY <1>0, <2>2, <3>2 DEF TypeOK, Ended, JobRow
    <3> QED BY <1>0, <2>2, <3>1, <3>3 DEF RevisionCountsWrites, StatusOf
  <2>5. /\ IsFiniteSet(wrote[s]) /\ wrote[s] \in SUBSET Jobs
        /\ Cardinality(wrote[s] \cup {e.job}) = Cardinality(wrote[s]) + 1
    <3>1. wrote[s] \in SUBSET Jobs
      BY <1>0, <2>2 DEF TypeOK
    <3>2. IsFiniteSet(wrote[s])
      BY <1>0, <3>1, FiniteWrites
    <3> QED BY <2>4, <3>1, <3>2, FS_AddElement
  <2>6. scope'[s].rev = Cardinality(wrote'[s])
    BY <1>0, <2>2, <2>3, <2>4, <2>5 DEF NextRevision, TypeOK
  <2>7. \A t \in Scopes \ {s} : scope'[t] = scope[t] /\ wrote'[t] = wrote[t]
    BY <1>0, <2>3 DEF TypeOK
  <2>8. wrote[s] \subseteq wrote'[s] /\ wrote'[s] \subseteq wrote[s] \cup {e.job}
    BY <1>0, <2>2, <2>3 DEF TypeOK
  <2>9. \A t \in Scopes : scope'[t].rev = Cardinality(wrote'[t])
    BY <1>0, <2>6, <2>7 DEF RevisionCountsWrites
  <2>10. \A t \in Scopes : \A j \in wrote'[t] : job'[j].status = "succeeded"
    <3>1. \A t \in Scopes : \A j \in wrote[t] : j \in Jobs /\ job[j].status = "succeeded"
      BY <1>0 DEF TypeOK, RevisionCountsWrites
    <3> QED BY <1>1, <2>4, <2>7, <2>8, <3>1
  <2> QED BY <2>7, <2>8, <2>9, <2>10 DEF RevisionCountsWrites
<1>4. CASE UNCHANGED <<scope, wrote>>
  BY <1>2, <1>4
<1>r. ASSUME NEW t \in Scopes, NEW r, r.rev = scope[t].rev, scope' = [scope EXCEPT ![t] = r]
      PROVE  \A s \in Scopes : scope'[s].rev = scope[s].rev
  BY <1>0, <1>r DEF TypeOK
<1>5. ASSUME NEW w \in Workers, NEW x \in Slots, NEW j \in Jobs, Lease(w, x, j)
      PROVE  wrote' = wrote /\ \A s \in Scopes : scope'[s].rev = scope[s].rev
  BY <1>0, <1>5 DEF Lease, TypeOK, ScopeRow
<1>6. ASSUME NEW w \in Workers, NEW x \in Slots, MarkRunning(w, x) \/ Heartbeat(w, x)
      PROVE  wrote' = wrote /\ \A s \in Scopes : scope'[s].rev = scope[s].rev
  <2> DEFINE t == ScopeOf[exec[w][x].job]
  <2>1. t \in Scopes /\ wrote' = wrote
    BY <1>0, <1>6 DEF MarkRunning, Heartbeat, BusyHasJob, hist
  <2>2. scope' = [scope EXCEPT ![t] = Renewed(@)]
    BY <1>6 DEF MarkRunning, Heartbeat
  <2>3. scope[t] \in ScopeRow
    BY <1>0, <2>1 DEF TypeOK
  <2>4. Renewed(scope[t]).rev = scope[t].rev
    BY <2>3 DEF Renewed, ScopeRow
  <2> QED BY <1>r, <2>1, <2>2, <2>4
<1>7. ASSUME NEW w \in Workers, NEW x \in Slots, HandleFailure(w, x)
      PROVE  wrote' = wrote /\ \A s \in Scopes : scope'[s].rev = scope[s].rev
  <2> DEFINE t == ScopeOf[exec[w][x].job]
  <2>1. t \in Scopes /\ wrote' = wrote
    BY <1>0, <1>7 DEF HandleFailure, BusyHasJob, hist
  <2>2. scope' = [scope EXCEPT ![t] = Released(t, w)]
    BY <1>7 DEF HandleFailure
  <2>3. scope[t] \in ScopeRow
    BY <1>0, <2>1 DEF TypeOK
  <2>4. Released(t, w).rev = scope[t].rev
    BY <2>3 DEF Released, ScopeRow
  <2> QED BY <1>r, <2>1, <2>2, <2>4
<1>8. CASE Tick
  <2>1. \A r \in ScopeRow : [r EXCEPT !.left = Before(@)].rev = r.rev
    BY DEF ScopeRow
  <2>2. \A s \in Scopes : scope'[s].rev = scope[s].rev
    BY <1>0, <1>8, <2>1 DEF Tick, TypeOK
  <2> QED BY <1>2, <1>8, <2>2 DEF Tick, hist
<1>9. ASSUME NEW w \in Workers, NEW x \in Slots, Step(w, x)
      PROVE  RevisionCountsWrites' /\ \A s \in Scopes : wrote[s] \subseteq wrote'[s]
  BY <1>2, <1>3, <1>4, <1>6, <1>7, <1>9
     DEF Step, MarkRunningLost, BeginRecovery, HeartbeatLost, ProcessorFails, CommitLost,
         AfterCommitFails, Settle, tables, hist
<1>10. ASSUME NEW j \in Jobs, Enqueue(j) \/ Cancel(j) \/ Retry(j)
       PROVE  UNCHANGED <<scope, wrote>>
  BY <1>10 DEF Enqueue, Cancel, Retry, hist
<1>11. ASSUME NEW w \in Workers, Crash(w)
       PROVE  UNCHANGED <<scope, wrote>>
  BY <1>11 DEF Crash, tables, hist
<1> QED BY <1>2, <1>4, <1>5, <1>8, <1>9, <1>10, <1>11 DEF Next, vars

(* Every action keeps what an execution saw part of what was written.      *)
LEMMA SeenStep ==
  ASSUME WriteInv, [Next]_vars
  PROVE  SeenIsPast'
<1> USE ConstantsAssumption
<1>0. /\ TypeOK /\ BusyHasJob /\ RevisionCountsWrites /\ SeenIsPast
      /\ \A s \in Scopes : wrote[s] \subseteq wrote'[s]
  BY WritesStep DEF WriteInv, RowInv
<1>1. ASSUME \A v \in Workers, y \in Slots : Carried(v, y)
      PROVE  SeenIsPast'
  BY <1>0, <1>1 DEF Carried, SeenIsPast, BusyHasJob
<1>2. ASSUME NEW w \in Workers, NEW x \in Slots, NEW j \in Jobs, Lease(w, x, j)
      PROVE  SeenIsPast'
  <2> SUFFICES ASSUME NEW v \in Workers, NEW y \in Slots, exec'[v][y].pc # "idle"
               PROVE  /\ exec'[v][y].seen \subseteq wrote'[ScopeOf[exec'[v][y].job]]
                      /\ exec'[v][y].based = Cardinality(exec'[v][y].seen)
    BY DEF SeenIsPast
  <2>1. CASE v = w /\ y = x
    <3>1. /\ exec'[v][y].job = j
          /\ exec'[v][y].seen = wrote[ScopeOf[j]]
          /\ exec'[v][y].based = scope[ScopeOf[j]].rev
      BY <1>0, <1>2, <2>1 DEF Lease, TypeOK
    <3> QED BY <1>0, <3>1 DEF RevisionCountsWrites
  <2>2. CASE ~(v = w /\ y = x)
    <3>1. exec'[v][y] = exec[v][y]
      BY <1>0, <1>2, <2>2 DEF Lease, TypeOK
    <3> QED BY <1>0, <3>1 DEF SeenIsPast, BusyHasJob
  <2> QED BY <2>1, <2>2
<1>3. ASSUME NEW w \in Workers, NEW x \in Slots, Step(w, x)
      PROVE  SeenIsPast'
  BY <1>0, <1>1, <1>3, StepCarries
<1>4. ASSUME NEW w \in Workers, Crash(w)
      PROVE  SeenIsPast'
  BY <1>0, <1>1, <1>4 DEF Crash, Carried, TypeOK, Idle
<1>5. CASE exec' = exec
  BY <1>1, <1>5 DEF Carried
<1> QED BY <1>2, <1>3, <1>4, <1>5 DEF Next, Enqueue, Cancel, Retry, Tick, procs, vars

(* Revisions count the writes in every reachable state.                    *)
LEMMA WriteInvariant == Spec => []WriteInv
<1>1. Init => WriteInv
  <2>1. Init => RowInv
    BY InitTypeOK DEF Init, RowInv, BusyHasJob, Idle, OwnerIffHeld, CommitsMatch, Held
  <2>2. Init => RevisionCountsWrites /\ SeenIsPast
    BY FS_EmptySet DEF Init, RevisionCountsWrites, SeenIsPast, Idle
  <2> QED BY <2>1, <2>2 DEF WriteInv
<1>2. WriteInv /\ [Next]_vars => WriteInv'
  BY RowInvStep, WritesStep, SeenStep DEF WriteInv
<1> QED BY <1>1, <1>2, PTL DEF Spec

(* When an execution commits, exactly the jobs it saw at its lease have    *)
(* changed the scope (basedOnRevision, RuntimeRevisionGuard and            *)
(* finalizeSuccess), whichever executions overlapped with it.              *)
THEOREM CommitsSeeLatest == Spec => CommitSeesLatest
<1> DEFINE Fresh(j) ==
      \E w \in Workers, x \in Slots :
        /\ exec[w][x].job = j
        /\ exec[w][x].pc # "after" /\ exec'[w][x].pc = "after"
        /\ exec[w][x].seen = wrote[ScopeOf[j]]
<1>1. ASSUME WriteInv, [Next]_vars, NEW j \in Jobs, commits'[j] # commits[j]
      PROVE  Fresh(j)
  <2>1. PICK w \in Workers, x \in Slots : Commit(w, x)
    <3>1. commits' # commits
      BY <1>1
    <3>2. ASSUME NEW w \in Workers, NEW x \in Slots, Step(w, x)
          PROVE  Commit(w, x)
      <4>1. ~(MarkRunning(w, x) \/ MarkRunningLost(w, x) \/ BeginRecovery(w, x))
        BY <3>1 DEF MarkRunning, MarkRunningLost, BeginRecovery, hist
      <4>2. ~(Heartbeat(w, x) \/ HeartbeatLost(w, x) \/ ProcessorFails(w, x))
        BY <3>1 DEF Heartbeat, HeartbeatLost, ProcessorFails, hist
      <4>3. ~(CommitLost(w, x) \/ AfterCommitFails(w, x) \/ Settle(w, x))
        BY <3>1 DEF CommitLost, AfterCommitFails, Settle, hist
      <4>4. ~HandleFailure(w, x)
        BY <3>1 DEF HandleFailure, hist
      <4> QED BY <3>2, <4>1, <4>2, <4>3, <4>4 DEF Step
    <3>3. ASSUME NEW w \in Workers, NEW x \in Slots, NEW k \in Jobs
          PROVE  ~Lease(w, x, k)
      BY <3>1 DEF Lease
    <3>4. ASSUME NEW k \in Jobs
          PROVE  ~(Enqueue(k) \/ Cancel(k) \/ Retry(k))
      BY <3>1 DEF Enqueue, Cancel, Retry, hist
    <3>5. ~Tick /\ \A w \in Workers : ~Crash(w)
      BY <3>1 DEF Tick, Crash, hist
    <3> QED BY <1>1, <3>1, <3>2, <3>3, <3>4, <3>5 DEF Next, vars
  <2> DEFINE e == exec[w][x]
  <2>2. TypeOK /\ e \in Exec /\ e.pc \in {"running", "recovering"} /\ RevisionMatches(e)
    BY <1>1, <2>1 DEF Commit, MayCommit, WriteInv, RowInv, TypeOK
  <2>3. e.job = j
    BY <1>1, <2>1, <2>2 DEF Commit, TypeOK
  <2>4. exec' = [exec EXCEPT ![w][x] = [e EXCEPT !.pc = "after"]]
    BY <2>1 DEF Commit, Goto
  <2>5. exec'[w][x] = [e EXCEPT !.pc = "after"]
    BY <2>2, <2>4 DEF TypeOK
  <2>6. exec'[w][x].pc = "after"
    <3>1. "pc" \in DOMAIN e
      BY <2>2 DEF Exec
    <3> QED BY <2>5, <3>1
  <2>7. e.seen = wrote[ScopeOf[e.job]]
    BY <1>1, <2>2, SameRevisionSameWrites
  <2> QED BY <2>2, <2>3, <2>6, <2>7
<1>2. WriteInv /\ [Next]_vars =>
        [\A j \in Jobs : commits'[j] # commits[j] => Fresh(j)]_vars
  BY <1>1
<1> QED BY <1>2, WriteInvariant, PTL DEF Spec, CommitSeesLatest

-----------------------------------------------------------------------------
(* Refinement: every step of the runtime is a step of JobLedger or leaves  *)
(* the ledger alone.                                                       *)
LedgerStates == [j \in Jobs |-> LedgerState(job[j].status)]
Revisions    == [s \in Scopes |-> scope[s].rev]

SameLedger == LedgerStates' = LedgerStates /\ Revisions' = Revisions

(* How the statuses of a row map to the ledger.                            *)
LEMMA LedgerStateValues ==
  /\ LedgerState("absent") = "absent"
  /\ \A st \in Candidate : LedgerState(st) = "open"
  /\ LedgerState("succeeded") = "applied"
  /\ \A st \in {"dead_letter", "cancelled"} : LedgerState(st) = "parked"
BY DEF LedgerState, Candidate, Waiting, Held

(* Writing one row changes one entry of the ledger.                        *)
LEMMA OneEntry ==
  ASSUME TypeOK, NEW i \in Jobs, NEW r, job' = [job EXCEPT ![i] = r]
  PROVE  LedgerStates' = [LedgerStates EXCEPT ![i] = LedgerState(r.status)]
BY DEF TypeOK, LedgerStates

(* Renewing, taking or giving up a scope lease leaves its revision alone.  *)
LEMMA SameRevisions ==
  ASSUME TypeOK, NEW s \in Scopes, NEW r, scope' = [scope EXCEPT ![s] = r], r.rev = scope[s].rev
  PROVE  Revisions' = Revisions
BY DEF TypeOK, Revisions

(* Nothing written, nothing changed.                                       *)
LEMMA SameTables ==
  ASSUME UNCHANGED tables
  PROVE  SameLedger
BY DEF tables, SameLedger, LedgerStates, Revisions

(* Every step of the runtime, seen from the ledger.                        *)
LEMMA LedgerStep ==
  ASSUME RowInv, [Next]_vars
  PROVE  SameLedger \/ Ledger!Next
<1> USE ConstantsAssumption
<1>0. /\ TypeOK
      /\ \A j \in Jobs : job[j] \in JobRow /\ ScopeOf[j] \in Scopes
      /\ \A s \in Scopes : scope[s] \in ScopeRow
  BY DEF RowInv, TypeOK
<1>e. \A r \in JobRow : \A st, d : Ended(r, st, d).status = st
  BY DEF Ended, JobRow
<1>w. \A r \in JobRow : Renewed(r).status = r.status
  BY DEF Renewed, JobRow
<1>s. \A r \in ScopeRow : Renewed(r).rev = r.rev
  BY DEF Renewed, ScopeRow
<1>m. ASSUME NEW j \in Jobs, NEW r, NEW to, job' = [job EXCEPT ![j] = r], LedgerState(r.status) = to
      PROVE  /\ LedgerStates' = [LedgerStates EXCEPT ![j] = to]
             /\ LedgerStates[j] = to => LedgerStates' = LedgerStates
  <2>1. LedgerStates' = [LedgerStates EXCEPT ![j] = to]
    BY <1>0, <1>m, OneEntry
  <2>2. LedgerStates[j] = to => [LedgerStates EXCEPT ![j] = to] = LedgerStates
    BY DEF LedgerStates
  <2> QED BY <2>1, <2>2
<1>l. \A j \in Jobs : LedgerStates[j] = LedgerState(job[j].status)
  BY DEF LedgerStates
<1>k. \A s \in Scopes : Revisions[s] = scope[s].rev
  BY DEF Revisions
<1>1. ASSUME NEW j \in Jobs, Enqueue(j)
      PROVE  Ledger!Next
  <2>1. PICK c \in Ranks : job' = [job EXCEPT ![j] = [@ EXCEPT !.status = "pending", !.created = c]]
    BY <1>1 DEF Enqueue
  <2>2. LedgerStates[j] = "absent" /\ Revisions' = Revisions
    BY <1>1, <1>l, LedgerStateValues DEF Enqueue, Revisions
  <2>3. [job[j] EXCEPT !.status = "pending", !.created = c].status = "pending"
    BY <1>0 DEF JobRow
  <2>4. LedgerStates' = [LedgerStates EXCEPT ![j] = "open"]
    BY <2>1, <2>3, <1>m, LedgerStateValues DEF Candidate, Waiting
  <2> QED BY <2>2, <2>4 DEF Ledger!Next, Ledger!Submit, Ledger!Move, LedgerStates, Revisions
<1>2. ASSUME NEW j \in Jobs, Cancel(j)
      PROVE  Ledger!Next
  <2>1. LedgerStates[j] = "open" /\ Revisions' = Revisions
    BY <1>2, <1>l, LedgerStateValues DEF Cancel, Revisions, Candidate
  <2> DEFINE n == Ended(job[j], "cancelled", job[j].avail)
  <2>2. n.status = "cancelled" /\ LedgerState("cancelled") = "parked"
    BY <1>0, <1>e, LedgerStateValues
  <2>3. job' = [job EXCEPT ![j] = n]
    BY <1>2 DEF Cancel
  <2> HIDE DEF n
  <2>4. LedgerStates' = [LedgerStates EXCEPT ![j] = "parked"]
    BY <2>2, <2>3, <1>m
  <2> QED BY <2>1, <2>4 DEF Ledger!Next, Ledger!Park, Ledger!Move, LedgerStates, Revisions
<1>3. ASSUME NEW j \in Jobs, Retry(j)
      PROVE  Ledger!Next
  <2>1. LedgerStates[j] = "parked" /\ Revisions' = Revisions
    BY <1>3, <1>l, LedgerStateValues DEF Retry, Revisions
  <2>2. [Ended(job[j], "retry_waiting", 0) EXCEPT !.attempts = 0].status = "retry_waiting"
    BY <1>0 DEF Ended, JobRow
  <2>3. LedgerStates' = [LedgerStates EXCEPT ![j] = "open"]
    BY <1>3, <2>2, <1>m, LedgerStateValues DEF Retry, Candidate, Waiting
  <2> QED BY <2>1, <2>3 DEF Ledger!Next, Ledger!Revive, Ledger!Move, LedgerStates, Revisions
<1>4. ASSUME NEW w \in Workers, NEW x \in Slots, NEW j \in Jobs, Lease(w, x, j)
      PROVE  SameLedger
  <2> DEFINE s == ScopeOf[j]
             r == [scope[s] EXCEPT !.owner = w, !.left = LeaseTtl]
             n == [job[j] EXCEPT !.status = "leased", !.owner = w, !.left = LeaseTtl]
  <2>1. r.rev = scope[s].rev /\ n.status = "leased"
    BY <1>0 DEF ScopeRow, JobRow
  <2>2. job' = [job EXCEPT ![j] = n] /\ scope' = [scope EXCEPT ![s] = r]
    BY <1>4 DEF Lease
  <2>3. Revisions' = Revisions
    BY <1>0, <2>1, <2>2, SameRevisions
  <2>4. LedgerStates[j] = "open" /\ LedgerState(n.status) = "open"
    BY <1>4, <1>l, <2>1, LedgerStateValues DEF Lease, IsDue, Candidate, Held
  <2>5. LedgerStates' = LedgerStates
    BY <1>m, <2>2, <2>4
  <2> QED BY <2>3, <2>5 DEF SameLedger
<1>5. ASSUME NEW w \in Workers, NEW x \in Slots, Step(w, x)
      PROVE  SameLedger \/ Ledger!Next
  <2> DEFINE e == exec[w][x]
             s == ScopeOf[e.job]
  <2>1. e.pc # "idle" => e.job \in Jobs /\ job[e.job] \in JobRow /\ s \in Scopes
                         /\ scope[s] \in ScopeRow
    BY <1>0 DEF RowInv, BusyHasJob
  <2>2. CASE MarkRunning(w, x)
    <3> DEFINE n == [Renewed(job[e.job]) EXCEPT !.status = "running", !.attempts = e.attempts + 1]
    <3>1. /\ e.job \in Jobs /\ job[e.job] \in JobRow /\ s \in Scopes /\ scope[s] \in ScopeRow
          /\ job' = [job EXCEPT ![e.job] = n]
          /\ scope' = [scope EXCEPT ![s] = Renewed(scope[s])]
          /\ job[e.job].status = "leased"
      BY <2>1, <2>2 DEF MarkRunning, OwnsRow
    <3>2. n.status = "running"
      BY <3>1 DEF Renewed, JobRow
    <3>3. LedgerStates' = LedgerStates
      BY <3>1, <3>2, <1>l, <1>m, LedgerStateValues DEF Candidate, Held
    <3>4. Revisions' = Revisions
      BY <1>0, <1>s, <3>1, SameRevisions
    <3> QED BY <3>3, <3>4 DEF SameLedger
  <2>3. CASE Heartbeat(w, x)
    <3>1. /\ e.job \in Jobs /\ job[e.job] \in JobRow /\ s \in Scopes /\ scope[s] \in ScopeRow
          /\ job' = [job EXCEPT ![e.job] = Renewed(job[e.job])]
          /\ scope' = [scope EXCEPT ![s] = Renewed(scope[s])]
      BY <2>1, <2>3 DEF Heartbeat
    <3>2. LedgerStates' = LedgerStates
      BY <3>1, <1>w, <1>l, <1>m
    <3>3. Revisions' = Revisions
      BY <1>0, <1>s, <3>1, SameRevisions
    <3> QED BY <3>2, <3>3 DEF SameLedger
  <2>4. CASE Commit(w, x)
    <3>1. PICK changed \in BOOLEAN :
            scope' = [scope EXCEPT ![s] = [rev |-> NextRevision(e.based, changed),
                                           owner |-> NoWorker, left |-> 0]]
      BY <2>4 DEF Commit
    <3>2. /\ e.job \in Jobs /\ job[e.job] \in JobRow /\ s \in Scopes /\ scope[s] \in ScopeRow
          /\ job' = [job EXCEPT ![e.job] = Ended(@, "succeeded", @.avail)]
          /\ e.based = scope[s].rev
          /\ job[e.job].status \in Candidate
      BY <2>1, <2>4 DEF Commit, MayCommit, OwnsRow, StatusOf, RevisionMatches, Candidate, Held
    <3>3. LedgerStates[e.job] = "open"
      BY <3>2, <1>l, LedgerStateValues
    <3> DEFINE n == Ended(job[e.job], "succeeded", job[e.job].avail)
    <3>5. n.status = "succeeded" /\ LedgerState("succeeded") = "applied"
      BY <3>2, <1>e, LedgerStateValues
    <3>6. job' = [job EXCEPT ![e.job] = n]
      BY <3>2
    <3> HIDE DEF n
    <3>7. LedgerStates' = [LedgerStates EXCEPT ![e.job] = "applied"]
      <4> DEFINE i == e.job
      <4>1. i \in Jobs /\ job' = [job EXCEPT ![i] = n] /\ LedgerState(n.status) = "applied"
        BY <3>2, <3>5, <3>6
      <4> HIDE DEF i
      <4>2. LedgerStates' = [LedgerStates EXCEPT ![i] = "applied"]
        BY <4>1, <1>m
      <4> QED BY <4>2 DEF i
    <3>4. Revisions' = Revisions \/ Revisions' = [Revisions EXCEPT ![s] = @ + 1]
      BY <1>0, <3>1, <3>2 DEF Revisions, NextRevision, TypeOK
    <3> QED BY <3>2, <3>3, <3>4, <3>7
            DEF Ledger!Next, Ledger!Apply, Ledger!Move, LedgerStates, Revisions
  <2>5. CASE HandleFailure(w, x)
    <3>1. /\ e.job \in Jobs /\ job[e.job] \in JobRow /\ s \in Scopes /\ scope[s] \in ScopeRow
          /\ scope' = [scope EXCEPT ![s] = Released(s, w)]
      BY <2>1, <2>5 DEF HandleFailure
    <3>2. Released(s, w).rev = scope[s].rev
      BY <3>1 DEF Released, ScopeRow
    <3>3. Revisions' = Revisions
      BY <1>0, <3>1, <3>2, SameRevisions
    <3>4. CASE job' = job
      BY <3>3, <3>4 DEF SameLedger, LedgerStates
    <3>5. CASE job' # job
      <4>1. job[e.job].status \in Candidate
        BY <2>5, <3>1, <3>5 DEF HandleFailure, StillOwns, RowInv, OwnerIffHeld, Candidate
      <4>2. LedgerStates[e.job] = "open"
        BY <3>1, <4>1, <1>l, LedgerStateValues
      <4>3. PICK st \in {"retry_waiting", "dead_letter"}, d \in RetryDelays \cup {job[e.job].avail} :
               job' = [job EXCEPT ![e.job] = Ended(@, st, d)]
        BY <2>5, <3>5 DEF HandleFailure
      <4> DEFINE n == Ended(job[e.job], st, d)
      <4>6. job' = [job EXCEPT ![e.job] = n] /\ n.status = st
        BY <3>1, <4>3, <1>e
      <4> HIDE DEF n
      <4>4. CASE st = "retry_waiting"
        <5>1. LedgerStates' = LedgerStates
          BY <3>1, <4>2, <4>4, <4>6, <1>m, LedgerStateValues DEF Candidate, Waiting
        <5> QED BY <3>3, <5>1 DEF SameLedger
      <4>5. CASE st = "dead_letter"
        <5>1. LedgerStates' = [LedgerStates EXCEPT ![e.job] = "parked"]
          <6> DEFINE i == e.job
          <6>1. i \in Jobs /\ job' = [job EXCEPT ![i] = n] /\ LedgerState(n.status) = "parked"
            BY <3>1, <4>5, <4>6, LedgerStateValues
          <6> HIDE DEF i
          <6>2. LedgerStates' = [LedgerStates EXCEPT ![i] = "parked"]
            BY <6>1, <1>m
          <6> QED BY <6>2 DEF i
        <5>2. Ledger!Park(e.job)
          BY <3>3, <4>2, <5>1 DEF Ledger!Park, Ledger!Move, LedgerStates, Revisions
        <5> QED BY <3>1, <5>2 DEF Ledger!Next
      <4> QED BY <4>3, <4>4, <4>5
    <3> QED BY <3>4, <3>5
  <2>6. CASE UNCHANGED tables
    BY <2>6, SameTables
  <2> QED BY <1>5, <2>2, <2>3, <2>4, <2>5, <2>6
          DEF Step, MarkRunningLost, BeginRecovery, HeartbeatLost, ProcessorFails, CommitLost,
              AfterCommitFails, Settle
<1>6. ASSUME NEW w \in Workers, Crash(w)
      PROVE  SameLedger
  BY <1>6, SameTables DEF Crash
<1>7. CASE Tick
  <2>1. LedgerStates' = LedgerStates
    BY <1>0, <1>7 DEF Tick, LedgerStates, JobRow
  <2>2. Revisions' = Revisions
    BY <1>0, <1>7 DEF Tick, Revisions, ScopeRow
  <2> QED BY <2>1, <2>2 DEF SameLedger
<1>8. CASE UNCHANGED vars
  BY <1>8, SameTables DEF vars, tables
<1> QED BY <1>1, <1>2, <1>3, <1>4, <1>5, <1>6, <1>7, <1>8 DEF Next

(* The Background Job Runtime implements JobLedger, the promise its        *)
(* callers rely on: apply at most once, one revision per change, final     *)
(* success (runtime-worker.ts with its repositories and query service).    *)
THEOREM ImplementsLedger == Spec => LedgerSpec
<1>1. Init => Ledger!Init
  BY ConstantsAssumption, LedgerStateValues DEF Init, Ledger!Init
<1>2. RowInv /\ [Next]_vars => [Ledger!Next]_<<LedgerStates, Revisions>>
  BY LedgerStep DEF SameLedger
<1> QED BY <1>1, <1>2, RowInvariant, PTL DEF Spec, LedgerSpec, Ledger!Spec, LedgerStates, Revisions

=============================================================================
