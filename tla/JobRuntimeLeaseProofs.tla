----------------------- MODULE JobRuntimeLeaseProofs ------------------------
(***************************************************************************)
(* Proofs about the leases of JobRuntime: the copy of the row that an      *)
(* execution takes at its lease, and the mutual exclusion of the jobs of   *)
(* one scope, for every number of jobs, scopes, workers and slots.         *)
(***************************************************************************)
EXTENDS JobRuntimeProofs

(* What a step of (w, x) does to the executions: it moves that one and no  *)
(* other, which stays with its job, entered in activeJobs, or ends.        *)
Moves(w, x) ==
  /\ exec[w][x].pc # "idle"
  /\ up' = up
  /\ \A v \in Workers, y \in Slots : v # w \/ y # x => exec'[v][y] = exec[v][y]
  /\ \A v \in Workers \ {w} : active'[v] = active[v]

GoesOn(w, x) ==
  /\ exec'[w][x].job = exec[w][x].job
  /\ exec'[w][x].pc \notin {"idle", "leased"}
  /\ \/ active'[w] = active[w] \cup {exec[w][x].job}
     \/ active'[w] = active[w] /\ exec[w][x].pc # "leased"

Ends(w, x) == exec'[w][x].pc = "idle" /\ exec[w][x].pc \in {"after", "failed"}

LEMMA StepMoves ==
  ASSUME TypeOK, NEW w \in Workers, NEW x \in Slots, Step(w, x)
  PROVE  Moves(w, x) /\ (GoesOn(w, x) \/ Ends(w, x))
<1> DEFINE e == exec[w][x]
<1>1. e \in Exec
  BY DEF TypeOK
<1>2. \A f : exec' = [exec EXCEPT ![w][x] = f] =>
               /\ exec'[w][x] = f
               /\ \A v \in Workers, y \in Slots : v # w \/ y # x => exec'[v][y] = exec[v][y]
  BY DEF TypeOK
<1>3. \A S : active' = [active EXCEPT ![w] = S] =>
               active'[w] = S /\ \A v \in Workers \ {w} : active'[v] = active[v]
  BY DEF TypeOK
<1>4. ASSUME NEW f, f.job = e.job, f.pc \notin {"idle", "leased"}, e.pc # "idle", Begin(w, x, f)
      PROVE  Moves(w, x) /\ GoesOn(w, x)
  BY <1>2, <1>3, <1>4 DEF Begin, Moves, GoesOn
<1>5. ASSUME NEW f, f.job = e.job, f.pc \notin {"idle", "leased"}, e.pc \notin {"idle", "leased"},
             Goto(w, x, f)
      PROVE  Moves(w, x) /\ GoesOn(w, x)
  BY <1>2, <1>5 DEF Goto, Moves, GoesOn
<1>6. ASSUME e.pc \in {"after", "failed"}, Finish(w, x)
      PROVE  Moves(w, x) /\ Ends(w, x)
  <2>1. Idle.pc = "idle"
    BY DEF Idle
  <2> QED  BY <1>2, <1>3, <1>6, <2>1 DEF Finish, Moves, Ends
<1>7. CASE MarkRunning(w, x)
  <2>1. [e EXCEPT !.pc = "running", !.attempts = @ + 1].pc = "running"
        /\ [e EXCEPT !.pc = "running", !.attempts = @ + 1].job = e.job
    BY <1>1 DEF Exec
  <2> QED  BY <1>4, <1>7, <2>1 DEF MarkRunning
<1>8. \A p : [e EXCEPT !.pc = p].pc = p /\ [e EXCEPT !.pc = p].job = e.job
  BY <1>1 DEF Exec
<1>9. CASE MarkRunningLost(w, x)
  BY <1>4, <1>8, <1>9 DEF MarkRunningLost
<1>10. CASE BeginRecovery(w, x)
  BY <1>4, <1>8, <1>10 DEF BeginRecovery
<1>11. CASE HeartbeatLost(w, x)
  BY <1>5, <1>8, <1>11 DEF HeartbeatLost
<1>12. CASE CommitLost(w, x)
  BY <1>5, <1>8, <1>12 DEF CommitLost
<1>13. CASE AfterCommitFails(w, x)
  BY <1>5, <1>8, <1>13 DEF AfterCommitFails
<1>14. CASE Commit(w, x)
  BY <1>5, <1>8, <1>14 DEF Commit
<1>15. CASE ProcessorFails(w, x)
  <2>1. PICK f \in BOOLEAN : Goto(w, x, [e EXCEPT !.pc = "failing", !.fatal = f])
    BY <1>15 DEF ProcessorFails
  <2>2. [e EXCEPT !.pc = "failing", !.fatal = f].pc = "failing"
        /\ [e EXCEPT !.pc = "failing", !.fatal = f].job = e.job
    BY <1>1 DEF Exec
  <2> QED  BY <1>5, <1>15, <2>1, <2>2 DEF ProcessorFails
<1>16. CASE Heartbeat(w, x)
  BY <1>16 DEF Heartbeat, procs, Moves, GoesOn
<1>17. CASE Settle(w, x)
  BY <1>6, <1>17 DEF Settle
<1>18. CASE HandleFailure(w, x)
  BY <1>5, <1>8, <1>18 DEF HandleFailure
<1> QED
  BY <1>5, <1>7, <1>9, <1>10, <1>11, <1>12, <1>13, <1>14, <1>15, <1>16, <1>17, <1>18
     DEF Step

(* What it does to the rows: it writes that of its own job alone, starts   *)
(* it, renews it, or gives it up; and gives up what it owns when it ends.  *)
LeavesRow(w, x) ==
  /\ exec'[w][x].pc # "after"
  /\ exec'[w][x].pc \in {"idle", "failed"} =>
       exec[w][x].pc \in {"after", "failed"} \/ job[exec[w][x].job].owner # w

RowWritten(w, x) ==
  LET j == exec[w][x].job
  IN  \/ job' = job /\ LeavesRow(w, x)
      \/ /\ MarkRunning(w, x)
         /\ job[j].status = "leased" /\ job[j].owner = w
         /\ job'[j].status = "running" /\ job'[j].attempts = exec[w][x].attempts + 1
         /\ job'[j].owner = w /\ job'[j].left = LeaseTtl
      \/ /\ Heartbeat(w, x)
         /\ job'[j].status = job[j].status /\ job'[j].attempts = job[j].attempts
         /\ job[j].owner = w /\ job[j].status = "running"
         /\ job'[j].owner = w /\ job'[j].left = LeaseTtl
      \/ /\ job[j].owner = w /\ job[j].status # "absent"
         /\ job'[j].status \in {"succeeded", "retry_waiting", "dead_letter"}
         /\ job'[j].attempts = job[j].attempts
         /\ job'[j].owner = NoWorker /\ job'[j].left = 0

(* The start of a job writes its row, which this worker leased.            *)
LEMMA StartedRow ==
  ASSUME RowInv, NEW w \in Workers, NEW x \in Slots, MarkRunning(w, x)
  PROVE  LET j == exec[w][x].job
         IN  /\ job[j].status = "leased" /\ job[j].owner = w
             /\ job'[j].status = "running" /\ job'[j].attempts = exec[w][x].attempts + 1
             /\ job'[j].owner = w /\ job'[j].left = LeaseTtl
             /\ \A k \in Jobs \ {j} : job'[k] = job[k]
<1> DEFINE e == exec[w][x]
           j == e.job
<1>1. j \in Jobs /\ job[j] \in JobRow
  BY DEF MarkRunning, RowInv, BusyHasJob, TypeOK
<1>2. \A r : job' = [job EXCEPT ![j] = r] =>
               job'[j] = r /\ \A k \in Jobs \ {j} : job'[k] = job[k]
  BY <1>1 DEF RowInv, TypeOK
<1>3. job' = [job EXCEPT ![j] = [Renewed(job[j]) EXCEPT !.status = "running",
                                                        !.attempts = e.attempts + 1]]
      /\ job[j].owner = w /\ job[j].status = "leased"
  BY DEF MarkRunning, OwnsRow
<1>4. job'[j] = [Renewed(job[j]) EXCEPT !.status = "running", !.attempts = e.attempts + 1]
      /\ \A k \in Jobs \ {j} : job'[k] = job[k]
  BY <1>2, <1>3
<1>5. \A r \in JobRow, n \in Nat :
        /\ [r EXCEPT !.status = "running", !.attempts = n].status = "running"
        /\ [r EXCEPT !.status = "running", !.attempts = n].attempts = n
        /\ [r EXCEPT !.status = "running", !.attempts = n].owner = r.owner
        /\ [r EXCEPT !.status = "running", !.attempts = n].left = r.left
  BY DEF JobRow
<1>6. /\ Renewed(job[j]) \in JobRow
      /\ Renewed(job[j]).owner = w /\ Renewed(job[j]).left = LeaseTtl
  BY <1>1, <1>3, RenewedType DEF Renewed, JobRow
<1>7. e.attempts + 1 \in Nat
  BY DEF RowInv, TypeOK, Exec
<1>8. /\ job'[j].status = "running" /\ job'[j].attempts = e.attempts + 1
      /\ job'[j].owner = w /\ job'[j].left = LeaseTtl
  BY <1>4, <1>5, <1>6, <1>7
<1> QED  BY <1>3, <1>4, <1>8

LEMMA StepRows ==
  ASSUME RowInv, NEW w \in Workers, NEW x \in Slots, Step(w, x)
  PROVE  /\ exec[w][x].job \in Jobs
         /\ \A k \in Jobs \ {exec[w][x].job} : job'[k] = job[k]
         /\ RowWritten(w, x)
<1> DEFINE e == exec[w][x]
           j == e.job
<1>1. Moves(w, x) /\ (GoesOn(w, x) \/ Ends(w, x))
  BY StepMoves DEF RowInv
<1>2. j \in Jobs /\ job[j] \in JobRow
  BY <1>1 DEF Moves, RowInv, BusyHasJob, TypeOK
<1>3. \A r : job' = [job EXCEPT ![j] = r] =>
               job'[j] = r /\ \A k \in Jobs \ {j} : job'[k] = job[k]
  BY <1>2 DEF RowInv, TypeOK
<1>4. \A st, d : /\ Ended(job[j], st, d).status = st /\ Ended(job[j], st, d).owner = NoWorker
                 /\ Ended(job[j], st, d).left = 0
                 /\ Ended(job[j], st, d).attempts = job[j].attempts
  BY <1>2 DEF Ended, JobRow
<1>5. CASE MarkRunning(w, x)
  BY <1>2, <1>5, StartedRow DEF RowWritten
<1>6. CASE Heartbeat(w, x)
  <2>1. /\ job' = [job EXCEPT ![j] = Renewed(job[j])]
        /\ job[j].owner = w /\ job[j].status = "running"
    BY <1>6 DEF Heartbeat, OwnsRow
  <2>2. job'[j] = Renewed(job[j]) /\ \A k \in Jobs \ {j} : job'[k] = job[k]
    BY <1>3, <2>1
  <2> QED  BY <1>2, <1>6, <2>1, <2>2 DEF RowWritten, Renewed, JobRow
<1>7. CASE Commit(w, x)
  <2>1. /\ job' = [job EXCEPT ![j] = Ended(job[j], "succeeded", job[j].avail)]
        /\ job[j].owner = w /\ job[j].status # "absent"
    BY <1>7 DEF Commit, MayCommit, OwnsRow, StatusOf
  <2>2. /\ job'[j] = Ended(job[j], "succeeded", job[j].avail)
        /\ \A k \in Jobs \ {j} : job'[k] = job[k]
    BY <1>3, <2>1
  <2>3. /\ job'[j].status = "succeeded" /\ job'[j].owner = NoWorker /\ job'[j].left = 0
        /\ job'[j].attempts = job[j].attempts
    BY <1>4, <2>2
  <2> QED  BY <1>2, <2>1, <2>2, <2>3 DEF RowWritten
<1>8. CASE HandleFailure(w, x)
  <2>1. exec'[w][x].pc = "failed"
    <3>1. e \in Exec /\ exec'[w][x] = [e EXCEPT !.pc = "failed"]
      BY <1>8 DEF HandleFailure, RowInv, Goto, TypeOK
    <3> QED  BY <3>1 DEF Exec
  <2>2. CASE job[j].owner = w
    <3>1. PICK st \in {"retry_waiting", "dead_letter"}, d \in RetryDelays \cup {job[j].avail} :
             job' = [job EXCEPT ![j] = Ended(job[j], st, d)]
      BY <1>8, <2>2 DEF HandleFailure, StillOwns
    <3>2. job[j].status # "absent"
      BY <1>2, <2>2, ConstantsAssumption DEF RowInv, OwnerIffHeld, Held
    <3>3. /\ job'[j] = Ended(job[j], st, d)
          /\ \A k \in Jobs \ {j} : job'[k] = job[k]
      BY <1>3, <3>1
    <3>4. /\ job'[j].status = st /\ job'[j].owner = NoWorker /\ job'[j].left = 0
          /\ job'[j].attempts = job[j].attempts
      BY <1>4, <3>3
    <3> QED  BY <1>2, <2>2, <3>1, <3>2, <3>3, <3>4 DEF RowWritten
  <2>3. CASE job[j].owner # w
    BY <1>2, <1>8, <2>1, <2>3 DEF HandleFailure, StillOwns, RowWritten, LeavesRow
  <2> QED  BY <2>2, <2>3
<1>9. CASE Settle(w, x)
  <2>1. exec'[w][x].pc = "idle" /\ e.pc \in {"after", "failed"} /\ job' = job
    BY <1>9 DEF Settle, Finish, Idle, TypeOK, RowInv, tables
  <2> QED  BY <1>2, <2>1 DEF RowWritten, LeavesRow
<1>10. CASE MarkRunningLost(w, x) \/ BeginRecovery(w, x) \/ HeartbeatLost(w, x)
            \/ ProcessorFails(w, x) \/ CommitLost(w, x) \/ AfterCommitFails(w, x)
  <2>1. job' = job
    BY <1>10 DEF MarkRunningLost, BeginRecovery, HeartbeatLost, ProcessorFails, CommitLost,
       AfterCommitFails, tables
  <2>2. exec'[w][x].pc \in {"failing", "recovering"}
    <3>1. e \in Exec /\ \A f : exec' = [exec EXCEPT ![w][x] = f] => exec'[w][x] = f
      BY DEF RowInv, TypeOK
    <3>2. \A q : [e EXCEPT !.pc = q].pc = q
      BY <3>1 DEF Exec
    <3>3. CASE MarkRunningLost(w, x) \/ BeginRecovery(w, x)
      BY <3>1, <3>2, <3>3 DEF MarkRunningLost, BeginRecovery, Begin
    <3>4. CASE HeartbeatLost(w, x) \/ CommitLost(w, x) \/ AfterCommitFails(w, x)
      BY <3>1, <3>2, <3>4 DEF HeartbeatLost, CommitLost, AfterCommitFails, Goto
    <3>5. CASE ProcessorFails(w, x)
      <4>1. PICK f \in BOOLEAN : exec' = [exec EXCEPT ![w][x] = [e EXCEPT !.pc = "failing",
                                                                         !.fatal = f]]
        BY <3>5 DEF ProcessorFails, Goto
      <4>2. [e EXCEPT !.pc = "failing", !.fatal = f].pc = "failing"
        BY <3>1 DEF Exec
      <4> QED  BY <3>1, <4>1, <4>2
    <3> QED  BY <1>10, <3>3, <3>4, <3>5
  <2> QED  BY <1>2, <2>1, <2>2 DEF RowWritten, LeavesRow
<1> QED  BY <1>5, <1>6, <1>7, <1>8, <1>9, <1>10 DEF Step

-----------------------------------------------------------------------------
(* Attempts.  While a worker holds the row it leased and has not started   *)
(* it, the copy in its memory counts the attempts of the row: one          *)
(* execution of a worker is in that phase, and nothing writes the row.     *)
LeasedCopy ==
  \A w \in Workers, x \in Slots :
    exec[w][x].pc = "leased" /\ OwnsRow(exec[w][x].job, w, "leased") =>
      exec[w][x].attempts = job[exec[w][x].job].attempts

(* The rows that nobody may start keep the counter, but for a manual retry.*)
ApartRow(j) ==
  /\ job'[j].status # "leased" \/ (job'[j].owner = job[j].owner /\ job[j].status = "leased")
  /\ job'[j].status = "running" => job[j].status = "running"
  /\ \/ job'[j].attempts = job[j].attempts
     \/ /\ job'[j].attempts = 0 /\ retries' = retries + 1
        /\ job'[j].status = "retry_waiting"

LEMMA ApartRows ==
  ASSUME TypeOK,
         \/ \E j \in Jobs : Enqueue(j) \/ Cancel(j) \/ Retry(j)
         \/ \E w \in Workers : Crash(w)
         \/ Tick \/ UNCHANGED vars
  PROVE  \A j \in Jobs : ApartRow(j)
<1> SUFFICES ASSUME NEW i \in Jobs PROVE ApartRow(i)
  OBVIOUS
<1>0. job \in [Jobs -> JobRow] /\ job[i] \in JobRow
  BY DEF TypeOK
<1>1. ASSUME NEW j \in Jobs, Enqueue(j) \/ Cancel(j) \/ Retry(j) PROVE ApartRow(i)
  <2>1. CASE i # j
    BY <1>0, <1>1, <2>1 DEF Enqueue, Cancel, Retry, ApartRow
  <2>2. CASE i = j /\ Enqueue(j)
    BY <1>0, <2>2 DEF Enqueue, ApartRow, JobRow
  <2>3. CASE i = j /\ Cancel(j)
    BY <1>0, <2>3 DEF Cancel, Ended, ApartRow, JobRow
  <2>4. CASE i = j /\ Retry(j)
    BY <1>0, <2>4 DEF Retry, Ended, ApartRow, JobRow
  <2> QED  BY <1>1, <2>1, <2>2, <2>3, <2>4
<1>2. CASE Tick
  BY <1>0, <1>2 DEF Tick, ApartRow, JobRow
<1>3. CASE UNCHANGED vars \/ \E w \in Workers : Crash(w)
  BY <1>3 DEF vars, Crash, tables, ApartRow
<1> QED  BY <1>1, <1>2, <1>3

(* The management API leaves the lease of a row alone, or clears it.       *)
LEMMA ApartLeases ==
  ASSUME TypeOK, NEW j \in Jobs, Enqueue(j) \/ Cancel(j) \/ Retry(j)
  PROVE  \A k \in Jobs : \/ job'[k].left = job[k].left /\ job'[k].owner = job[k].owner
                         \/ job'[k].left = 0 /\ job'[k].owner = NoWorker
<1> SUFFICES ASSUME NEW k \in Jobs
             PROVE  \/ job'[k].left = job[k].left /\ job'[k].owner = job[k].owner
                    \/ job'[k].left = 0 /\ job'[k].owner = NoWorker
  OBVIOUS
<1>0. job \in [Jobs -> JobRow] /\ job[j] \in JobRow
  BY DEF TypeOK
<1>1. CASE k # j
  BY <1>0, <1>1 DEF Enqueue, Cancel, Retry
<1>2. CASE k = j /\ Enqueue(j)
  BY <1>0, <1>2 DEF Enqueue, JobRow
<1>3. CASE k = j /\ Cancel(j)
  BY <1>0, <1>3 DEF Cancel, Ended, JobRow
<1>4. CASE k = j /\ Retry(j)
  BY <1>0, <1>4 DEF Retry, Ended, JobRow
<1> QED  BY <1>1, <1>2, <1>3, <1>4

(* The row of a lease keeps its counter, which the execution copies.       *)
LEMMA LeaseRow ==
  ASSUME TypeOK, NEW w \in Workers, NEW x \in Slots, NEW j \in Jobs, Lease(w, x, j)
  PROVE  /\ job'[j].status = "leased" /\ job'[j].owner = w /\ job'[j].left = LeaseTtl
         /\ job'[j].attempts = job[j].attempts
         /\ \A k \in Jobs \ {j} : job'[k] = job[k]
         /\ exec'[w][x].pc = "leased" /\ exec'[w][x].job = j
         /\ exec'[w][x].attempts = job[j].attempts
         /\ \A v \in Workers, y \in Slots : v # w \/ y # x => exec'[v][y] = exec[v][y]
         /\ up' = up /\ active' = active
<1>1. job[j] \in JobRow
  BY DEF TypeOK
<1>2. /\ job'[j] = [job[j] EXCEPT !.status = "leased", !.owner = w, !.left = LeaseTtl]
      /\ \A k \in Jobs \ {j} : job'[k] = job[k]
  BY DEF Lease, TypeOK
<1>3. /\ job'[j].status = "leased" /\ job'[j].owner = w /\ job'[j].left = LeaseTtl
      /\ job'[j].attempts = job[j].attempts
  BY <1>1, <1>2 DEF JobRow
<1>4. /\ exec'[w][x].pc = "leased" /\ exec'[w][x].job = j
      /\ exec'[w][x].attempts = job[j].attempts
      /\ \A v \in Workers, y \in Slots : v # w \/ y # x => exec'[v][y] = exec[v][y]
  BY DEF Lease, TypeOK
<1> QED  BY <1>2, <1>3, <1>4 DEF Lease

LEMMA LeasedCopyStep ==
  ASSUME RowInv, LeasedCopy, [Next]_vars
  PROVE  LeasedCopy'
<1>0. TypeOK
  BY DEF RowInv
<1>1. ASSUME NEW w \in Workers, NEW x \in Slots, NEW j \in Jobs, Lease(w, x, j)
      PROVE  LeasedCopy'
  <2> SUFFICES ASSUME NEW v \in Workers, NEW y \in Slots, exec'[v][y].pc = "leased",
                      job'[exec'[v][y].job].owner = v, job'[exec'[v][y].job].status = "leased"
               PROVE  exec'[v][y].attempts = job'[exec'[v][y].job].attempts
    BY DEF LeasedCopy, OwnsRow
  <2>1. CASE v = w /\ y = x
    BY <1>0, <1>1, <2>1, LeaseRow
  <2>2. CASE v = w /\ y # x
    <3>1. exec'[w][y] = exec[w][y]
      BY <1>0, <1>1, <2>2, LeaseRow
    <3>2. exec[w][y].pc # "leased"
      BY <1>1 DEF Lease, Pumping
    <3> QED  BY <2>2, <3>1, <3>2
  <2>3. CASE v # w
    <3>1. exec'[v][y] = exec[v][y] /\ exec[v][y].job \in Jobs
      BY <1>0, <1>1, <2>3, LeaseRow DEF RowInv, BusyHasJob
    <3>2. exec[v][y].job # j
      BY <1>0, <1>1, <2>3, <3>1, LeaseRow
    <3>3. job'[exec[v][y].job] = job[exec[v][y].job]
      BY <1>0, <1>1, <3>1, <3>2, LeaseRow
    <3> QED  BY <3>1, <3>3 DEF LeasedCopy, OwnsRow
  <2> QED  BY <2>1, <2>2, <2>3
<1>2. ASSUME NEW w \in Workers, NEW x \in Slots, Step(w, x)
      PROVE  LeasedCopy'
  <2> SUFFICES ASSUME NEW v \in Workers, NEW y \in Slots, exec'[v][y].pc = "leased",
                      job'[exec'[v][y].job].owner = v, job'[exec'[v][y].job].status = "leased"
               PROVE  exec'[v][y].attempts = job'[exec'[v][y].job].attempts
    BY DEF LeasedCopy, OwnsRow
  <2>1. Moves(w, x) /\ (GoesOn(w, x) \/ Ends(w, x))
    BY <1>0, <1>2, StepMoves
  <2>2. v # w \/ y # x
    BY <2>1 DEF GoesOn, Ends
  <2>3. exec'[v][y] = exec[v][y] /\ exec[v][y].job \in Jobs
    BY <2>1, <2>2 DEF Moves, RowInv, BusyHasJob
  <2>4. job'[exec[v][y].job] = job[exec[v][y].job]
    <3>1. CASE exec[v][y].job # exec[w][x].job
      BY <1>2, <2>3, <3>1, StepRows
    <3>2. CASE exec[v][y].job = exec[w][x].job
      BY <1>2, <2>3, <3>2, StepRows DEF RowWritten
    <3> QED  BY <3>1, <3>2
  <2> QED  BY <2>3, <2>4 DEF LeasedCopy, OwnsRow
<1>3. CASE \/ \E j \in Jobs : Enqueue(j) \/ Cancel(j) \/ Retry(j)
           \/ \E w \in Workers : Crash(w)
           \/ Tick \/ UNCHANGED vars
  <2> SUFFICES ASSUME NEW v \in Workers, NEW y \in Slots, exec'[v][y].pc = "leased",
                      job'[exec'[v][y].job].owner = v, job'[exec'[v][y].job].status = "leased"
               PROVE  exec'[v][y].attempts = job'[exec'[v][y].job].attempts
    BY DEF LeasedCopy, OwnsRow
  <2>1. exec'[v][y] = exec[v][y]
    <3>1. ASSUME NEW w \in Workers, Crash(w) PROVE exec'[v][y] = exec[v][y]
      <4>1. exec'[v] = IF v = w THEN [z \in Slots |-> Idle] ELSE exec[v]
        BY <1>0, <3>1 DEF Crash, TypeOK
      <4> QED  BY <4>1 DEF Idle
    <3> QED  BY <1>3, <3>1 DEF Enqueue, Cancel, Retry, Tick, vars, procs
  <2>2. exec[v][y].job \in Jobs
    BY <2>1 DEF RowInv, BusyHasJob
  <2>3. ApartRow(exec[v][y].job)
    BY <1>0, <1>3, <2>2, ApartRows
  <2> QED  BY <2>1, <2>3 DEF ApartRow, LeasedCopy, OwnsRow
<1> QED  BY <1>1, <1>2, <1>3 DEF Next

(* The attempt counter of a job counts its starts: it is written from the  *)
(* copy an execution took when it leased the job (processLeasedJob), yet   *)
(* no increment is lost or doubled, whatever expired, crashed, failed or   *)
(* was leased again in between, and only a manual retry resets it.         *)
THEOREM AttemptsCounted == Spec => AttemptsNeverLost
<1> DEFINE Counted == \A j \in Jobs :
             /\ Starts(j) => job'[j].attempts = job[j].attempts + 1
             /\ ~Starts(j) /\ job'[j].attempts # job[j].attempts =>
                  job'[j].attempts = 0 /\ retries' = retries + 1
<1>1. Init => LeasedCopy
  BY DEF Init, Idle, LeasedCopy
<1>2. RowInv /\ LeasedCopy /\ [Next]_vars => LeasedCopy'
  BY LeasedCopyStep
<1>3. RowInv /\ LeasedCopy /\ [Next]_vars => [Counted]_vars
  <2> SUFFICES ASSUME RowInv, LeasedCopy, [Next]_vars, NEW j \in Jobs
               PROVE  /\ Starts(j) => job'[j].attempts = job[j].attempts + 1
                      /\ ~Starts(j) /\ job'[j].attempts # job[j].attempts =>
                           job'[j].attempts = 0 /\ retries' = retries + 1
    OBVIOUS
  <2>0. TypeOK
    BY DEF RowInv
  <2>1. ASSUME NEW w \in Workers, NEW x \in Slots, NEW k \in Jobs, Lease(w, x, k)
        PROVE  job'[j].attempts = job[j].attempts /\ ~Starts(j)
    BY <2>0, <2>1, LeaseRow DEF Starts
  <2>2. ASSUME NEW w \in Workers, NEW x \in Slots, Step(w, x)
        PROVE  /\ Starts(j) => job'[j].attempts = job[j].attempts + 1
               /\ ~Starts(j) => job'[j].attempts = job[j].attempts
    <3>1. CASE j # exec[w][x].job
      BY <2>2, <3>1, StepRows DEF Starts
    <3>2. CASE j = exec[w][x].job /\ MarkRunning(w, x)
      <4>1. /\ job[j].status = "leased" /\ job'[j].status = "running"
            /\ job'[j].attempts = exec[w][x].attempts + 1
        BY <3>2, StartedRow
      <4>2. exec[w][x].attempts = job[j].attempts
        BY <3>2 DEF MarkRunning, LeasedCopy
      <4> QED  BY <4>1, <4>2 DEF Starts
    <3>3. CASE j = exec[w][x].job /\ ~MarkRunning(w, x)
      BY <2>2, <3>3, StepRows DEF RowWritten, Starts
    <3> QED  BY <3>1, <3>2, <3>3
  <2>3. CASE \/ \E k \in Jobs : Enqueue(k) \/ Cancel(k) \/ Retry(k)
             \/ \E w \in Workers : Crash(w)
             \/ Tick \/ UNCHANGED vars
    BY <2>0, <2>3, ApartRows DEF ApartRow, Starts
  <2> QED  BY <2>1, <2>2, <2>3 DEF Next
<1> QED  BY <1>1, <1>2, <1>3, RowInvariant, PTL DEF Spec, AttemptsNeverLost

-----------------------------------------------------------------------------
(* One job at a time per worker.  A worker with maxConcurrentJobs 1 that   *)
(* has an execution in flight leases nothing: pump waits for the lease it  *)
(* announces, and activeJobs has the job from then on.                     *)
OneAtATime ==
  \A w \in Workers, x \in Slots : exec[w][x].pc # "idle" =>
    /\ w \in up
    /\ \A y \in Slots : exec[w][y].pc # "idle" => x = y
    /\ exec[w][x].pc # "leased" => exec[w][x].job \in active[w]

(* A process that leases has no execution in flight.                       *)
LEMMA LeaseAlone ==
  ASSUME TypeOK, OneAtATime, MaxConcurrentJobs = 1,
         NEW w \in Workers, NEW x \in Slots, NEW j \in Jobs, Lease(w, x, j)
  PROVE  \A y \in Slots : exec[w][y].pc = "idle"
<1>1. active[w] = {}
  <2>1. IsFiniteSet(active[w])
    BY ConstantsAssumption, FS_Subset DEF TypeOK
  <2>2. Cardinality(active[w]) \in Nat /\ Cardinality(active[w]) < 1
    BY <2>1, FS_CardinalityType DEF Lease
  <2> QED  BY <2>1, <2>2, FS_EmptySet
<1> SUFFICES ASSUME NEW y \in Slots, exec[w][y].pc # "idle" PROVE FALSE
  OBVIOUS
<1>2. exec[w][y].pc # "leased"
  BY DEF Lease, Pumping
<1> QED  BY <1>1, <1>2 DEF OneAtATime

LEMMA OneAtATimeStep ==
  ASSUME RowInv, OneAtATime, MaxConcurrentJobs = 1, [Next]_vars
  PROVE  OneAtATime'
<1>0. TypeOK
  BY DEF RowInv
<1>1. ASSUME NEW w \in Workers, NEW x \in Slots, NEW j \in Jobs, Lease(w, x, j)
      PROVE  OneAtATime'
  <2>1. \A y \in Slots : exec[w][y].pc = "idle"
    BY <1>0, <1>1, LeaseAlone
  <2>2. /\ exec'[w][x].pc = "leased" /\ up' = up /\ active' = active
        /\ \A v \in Workers, y \in Slots : v # w \/ y # x => exec'[v][y] = exec[v][y]
    BY <1>0, <1>1, LeaseRow
  <2>3. w \in up
    BY <1>1 DEF Lease
  <2> SUFFICES ASSUME NEW v \in Workers, NEW y \in Slots, exec'[v][y].pc # "idle"
               PROVE  /\ v \in up'
                      /\ \A z \in Slots : exec'[v][z].pc # "idle" => y = z
                      /\ exec'[v][y].pc # "leased" => exec'[v][y].job \in active'[v]
    BY DEF OneAtATime
  <2>4. CASE v = w
    BY <2>1, <2>2, <2>3, <2>4
  <2>5. CASE v # w
    <3>1. \A z \in Slots : exec'[v][z] = exec[v][z]
      BY <2>2, <2>5
    <3> QED  BY <2>2, <3>1 DEF OneAtATime
  <2> QED  BY <2>4, <2>5
<1>2. ASSUME NEW w \in Workers, NEW x \in Slots, Step(w, x)
      PROVE  OneAtATime'
  <2>1. Moves(w, x) /\ (GoesOn(w, x) \/ Ends(w, x))
    BY <1>0, <1>2, StepMoves
  <2> SUFFICES ASSUME NEW v \in Workers, NEW y \in Slots, exec'[v][y].pc # "idle"
               PROVE  /\ v \in up'
                      /\ \A z \in Slots : exec'[v][z].pc # "idle" => y = z
                      /\ exec'[v][y].pc # "leased" => exec'[v][y].job \in active'[v]
    BY DEF OneAtATime
  <2>2. CASE v # w
    <3>1. (\A z \in Slots : exec'[v][z] = exec[v][z]) /\ active'[v] = active[v] /\ up' = up
      BY <2>1, <2>2 DEF Moves
    <3> QED  BY <3>1 DEF OneAtATime
  <2>3. CASE v = w
    <3>1. \A z \in Slots \ {x} : exec[w][z].pc = "idle" /\ exec'[w][z] = exec[w][z]
      BY <2>1 DEF Moves, OneAtATime
    <3>2. y = x /\ GoesOn(w, x)
      BY <2>1, <2>3, <3>1 DEF Ends
    <3>3. w \in up'
      BY <2>1 DEF Moves, OneAtATime
    <3>4. exec'[w][x].job \in active'[w]
      BY <2>1, <3>2 DEF Moves, GoesOn, OneAtATime
    <3> QED  BY <2>3, <3>1, <3>2, <3>3, <3>4
  <2> QED  BY <2>2, <2>3
<1>3. ASSUME NEW w \in Workers, Crash(w) PROVE OneAtATime'
  <2>1. \A v \in Workers : /\ exec'[v] = IF v = w THEN [z \in Slots |-> Idle] ELSE exec[v]
                           /\ active'[v] = IF v = w THEN {} ELSE active[v]
    BY <1>0, <1>3 DEF Crash, TypeOK
  <2>2. up' = up \ {w}
    BY <1>3 DEF Crash
  <2> SUFFICES ASSUME NEW v \in Workers, NEW y \in Slots, exec'[v][y].pc # "idle"
               PROVE  /\ v \in up'
                      /\ \A z \in Slots : exec'[v][z].pc # "idle" => y = z
                      /\ exec'[v][y].pc # "leased" => exec'[v][y].job \in active'[v]
    BY DEF OneAtATime
  <2>3. v # w
    BY <2>1 DEF Idle
  <2> QED  BY <2>1, <2>2, <2>3 DEF OneAtATime
<1>4. CASE (\E j \in Jobs : Enqueue(j) \/ Cancel(j) \/ Retry(j)) \/ Tick \/ UNCHANGED vars
  <2>1. exec' = exec /\ active' = active /\ up' = up
    BY <1>4 DEF Enqueue, Cancel, Retry, Tick, vars, procs
  <2> QED  BY <2>1 DEF OneAtATime
<1> QED  BY <1>1, <1>2, <1>3, <1>4 DEF Next

(* The row that a running process owns is the one it is working on: an     *)
(* execution gives its row up before it ends.                              *)
Done == {"idle", "after", "failed"}

WorkedOn(j) ==
  \E x \in Slots : /\ exec[job[j].owner][x].job = j
                   /\ exec[job[j].owner][x].pc \notin Done

RowsWorked == \A j \in Jobs : job[j].owner \in up => WorkedOn(j)

LEMMA RowsWorkedStep ==
  ASSUME RowInv, OneAtATime, RowsWorked, MaxConcurrentJobs = 1, [Next]_vars
  PROVE  RowsWorked'
<1>0. TypeOK /\ NoWorker \notin Workers
  BY ConstantsAssumption DEF RowInv
<1>1. ASSUME NEW w \in Workers, NEW x \in Slots, NEW j \in Jobs, Lease(w, x, j)
      PROVE  RowsWorked'
  <2> SUFFICES ASSUME NEW k \in Jobs, job'[k].owner \in up' PROVE WorkedOn(k)'
    BY DEF RowsWorked
  <2>1. CASE k = j
    BY <1>0, <1>1, <2>1, LeaseRow DEF WorkedOn, Done
  <2>2. CASE k # j
    <3>1. job'[k] = job[k] /\ job[k].owner \in up
      BY <1>0, <1>1, <2>2, LeaseRow
    <3>2. PICK y \in Slots : /\ exec[job[k].owner][y].job = k
                             /\ exec[job[k].owner][y].pc \notin Done
      BY <3>1 DEF RowsWorked, WorkedOn
    <3>3. exec[w][x].pc = "idle" /\ job[k].owner \in Workers
      BY <1>0, <1>1, <3>1, LeaseAlone DEF RowInv, TypeOK, OneAtATime
    <3>4. exec'[job[k].owner][y] = exec[job[k].owner][y]
      BY <1>0, <1>1, <3>2, <3>3, LeaseRow DEF Done
    <3> QED  BY <3>1, <3>2, <3>4 DEF WorkedOn
  <2> QED  BY <2>1, <2>2
<1>2. ASSUME NEW w \in Workers, NEW x \in Slots, Step(w, x)
      PROVE  RowsWorked'
  <2> SUFFICES ASSUME NEW k \in Jobs, job'[k].owner \in up' PROVE WorkedOn(k)'
    BY DEF RowsWorked
  <2>1. Moves(w, x) /\ (GoesOn(w, x) \/ Ends(w, x))
    BY <1>0, <1>2, StepMoves
  <2>2. job'[k].owner \in Workers /\ job'[k].owner \in up
    BY <1>0, <2>1 DEF Moves, TypeOK
  <2>3. job'[k].owner = job[k].owner
    BY <1>0, <1>2, <2>2, StepRows DEF RowWritten
  <2> DEFINE v == job[k].owner
  <2>4. PICK y \in Slots : exec[v][y].job = k /\ exec[v][y].pc \notin Done
    BY <2>2, <2>3 DEF RowsWorked, WorkedOn
  <2>5. exec'[v][y].job = k /\ exec'[v][y].pc \notin Done
    <3>1. CASE v # w \/ y # x
      BY <2>1, <2>2, <2>3, <2>4, <3>1 DEF Moves
    <3>2. CASE v = w /\ y = x
      <4>1. k = exec[w][x].job
        BY <2>4, <3>2
      <4>2. exec'[w][x].pc \notin Done /\ GoesOn(w, x)
        <5>1. CASE LeavesRow(w, x)
          BY <2>1, <2>4, <3>2, <4>1, <5>1 DEF LeavesRow, Ends, Done
        <5>2. CASE MarkRunning(w, x) \/ Heartbeat(w, x)
          <6>1. exec'[w][x].pc = "running"
            <7>1. exec[w][x] \in Exec
              BY <1>0 DEF TypeOK
            <7>2. CASE MarkRunning(w, x)
              <8>1. exec'[w][x] = [exec[w][x] EXCEPT !.pc = "running", !.attempts = @ + 1]
                BY <1>0, <7>2 DEF MarkRunning, Begin, TypeOK
              <8> QED  BY <7>1, <8>1 DEF Exec
            <7>3. CASE Heartbeat(w, x)
              BY <7>3 DEF Heartbeat, procs
            <7> QED  BY <5>2, <7>2, <7>3
          <6> QED  BY <2>1, <6>1 DEF Ends, Done
        <5> QED  BY <1>0, <1>2, <2>2, <4>1, <5>1, <5>2, StepRows DEF RowWritten
      <4> QED  BY <3>2, <4>1, <4>2 DEF GoesOn
    <3> QED  BY <3>1, <3>2
  <2> QED  BY <2>3, <2>5 DEF WorkedOn
<1>3. ASSUME NEW w \in Workers, Crash(w) PROVE RowsWorked'
  <2>1. /\ \A v \in Workers \ {w} : exec'[v] = exec[v]
        /\ up' = up \ {w} /\ job' = job
    BY <1>0, <1>3 DEF Crash, TypeOK, tables
  <2> SUFFICES ASSUME NEW k \in Jobs, job[k].owner \in up, job[k].owner # w PROVE WorkedOn(k)'
    BY <2>1 DEF RowsWorked
  <2>2. WorkedOn(k) /\ job[k].owner \in Workers
    BY <1>0 DEF RowsWorked, TypeOK
  <2>3. exec'[job[k].owner] = exec[job[k].owner] /\ job'[k].owner = job[k].owner
    BY <2>1, <2>2
  <2> QED  BY <2>2, <2>3 DEF WorkedOn
<1>4. CASE (\E j \in Jobs : Enqueue(j) \/ Cancel(j) \/ Retry(j)) \/ Tick \/ UNCHANGED vars
  <2>1. exec' = exec /\ up' = up
    BY <1>4 DEF Enqueue, Cancel, Retry, Tick, vars, procs
  <2>2. \A k \in Jobs : job'[k].owner = job[k].owner \/ job'[k].owner = NoWorker
    <3>1. ASSUME NEW j \in Jobs, Enqueue(j) \/ Cancel(j) \/ Retry(j), NEW k \in Jobs
          PROVE  job'[k].owner = job[k].owner \/ job'[k].owner = NoWorker
      BY <1>0, <3>1, ApartLeases
    <3>2. CASE Tick
      BY <1>0, <3>2 DEF Tick, TypeOK, JobRow
    <3> QED  BY <1>4, <3>1, <3>2 DEF vars
  <2>3. NoWorker \notin up
    BY <1>0 DEF TypeOK
  <2> QED  BY <2>1, <2>2, <2>3 DEF RowsWorked, WorkedOn
<1> QED  BY <1>1, <1>2, <1>3, <1>4 DEF Next

-----------------------------------------------------------------------------
(* The lease of a scope outlives those of its jobs: whoever holds a job    *)
(* that has not expired owns its scope for at least as long.               *)
Nested(j) ==
  /\ job[j].left <= LeaseTtl
  /\ job[j].left > 0 => /\ job[j].owner # NoWorker
                        /\ scope[ScopeOf[j]].owner = job[j].owner
                        /\ scope[ScopeOf[j]].left >= job[j].left

LeasesNest == \A j \in Jobs : Nested(j)

LEMMA LeasesNestStep ==
  ASSUME RowInv, OneAtATime, RowsWorked, LeasesNest, MaxConcurrentJobs = 1, [Next]_vars
  PROVE  LeasesNest'
<1>0. /\ TypeOK /\ NoWorker \notin Workers /\ LeaseTtl \in Nat \ {0}
      /\ \A j \in Jobs : ScopeOf[j] \in Scopes /\ job[j].left \in Nat
      /\ \A s \in Scopes : scope[s].left \in Nat
  BY ConstantsAssumption DEF RowInv, TypeOK, JobRow, ScopeRow
<1> SUFFICES ASSUME NEW k \in Jobs PROVE Nested(k)'
  BY DEF LeasesNest
<1>k. Nested(k)
  BY DEF LeasesNest
<1>1. ASSUME NEW w \in Workers, NEW x \in Slots, NEW j \in Jobs, Lease(w, x, j)
      PROVE  Nested(k)'
  <2>1. /\ job'[j].left = LeaseTtl /\ job'[j].owner = w
        /\ \A i \in Jobs \ {j} : job'[i] = job[i]
    BY <1>0, <1>1, LeaseRow
  <2>2. /\ scope'[ScopeOf[j]].owner = w /\ scope'[ScopeOf[j]].left = LeaseTtl
        /\ \A s \in Scopes \ {ScopeOf[j]} : scope'[s] = scope[s]
    BY <1>0, <1>1 DEF Lease, TypeOK, ScopeRow
  <2>3. scope[ScopeOf[j]].left = 0 \/ scope[ScopeOf[j]].owner = w
    BY <1>1 DEF Lease, ScopeIsFree
  <2>4. CASE k = j
    BY <1>0, <2>1, <2>2, <2>4 DEF Nested
  <2>5. CASE k # j /\ ScopeOf[k] = ScopeOf[j]
    BY <1>0, <1>k, <2>1, <2>2, <2>3, <2>5 DEF Nested
  <2>6. CASE k # j /\ ScopeOf[k] # ScopeOf[j]
    BY <1>0, <1>k, <2>1, <2>2, <2>6 DEF Nested
  <2> QED  BY <2>4, <2>5, <2>6
<1>2. ASSUME NEW w \in Workers, NEW x \in Slots, Step(w, x)
      PROVE  Nested(k)'
  <2> DEFINE j == exec[w][x].job
             s == ScopeOf[j]
  <2>1. /\ j \in Jobs /\ s \in Scopes /\ w \in up
        /\ \A i \in Jobs \ {j} : job'[i] = job[i]
        /\ RowWritten(w, x)
    BY <1>0, <1>2, StepMoves, StepRows DEF Moves, OneAtATime
  <2>2. ASSUME NEW i \in Jobs, job[i].owner = w PROVE i = j
    <3>1. PICK y \in Slots : exec[w][y].job = i /\ exec[w][y].pc # "idle"
      BY <2>1, <2>2 DEF RowsWorked, WorkedOn, Done
    <3>2. exec[w][x].pc # "idle"
      BY <1>0, <1>2, StepMoves DEF Moves
    <3> QED  BY <3>1, <3>2 DEF OneAtATime
  <2>3. CASE MarkRunning(w, x) \/ Heartbeat(w, x)
    <3>1. /\ scope' = [scope EXCEPT ![s] = Renewed(scope[s])] /\ scope[s].owner = w
      BY <2>3 DEF MarkRunning, Heartbeat, OwnsScope
    <3>2. /\ scope'[s].owner = w /\ scope'[s].left = LeaseTtl
          /\ \A r \in Scopes \ {s} : scope'[r] = scope[r]
      BY <1>0, <2>1, <3>1 DEF Renewed, TypeOK, ScopeRow
    <3>3. job'[j].left \in {0, LeaseTtl} /\ job'[j].owner = w
      <4>1. CASE MarkRunning(w, x)
        BY <4>1, StartedRow
      <4>2. CASE Heartbeat(w, x)
        BY <1>0, <2>1, <4>2 DEF Heartbeat, Renewed, OwnsRow, TypeOK, JobRow
      <4> QED  BY <2>3, <4>1, <4>2
    <3>4. CASE k = j
      BY <1>0, <3>2, <3>3, <3>4 DEF Nested
    <3>5. CASE k # j /\ ScopeOf[k] = s
      BY <1>0, <1>k, <2>1, <3>1, <3>2, <3>5 DEF Nested
    <3>6. CASE k # j /\ ScopeOf[k] # s
      BY <1>0, <1>k, <2>1, <3>2, <3>6 DEF Nested
    <3> QED  BY <3>4, <3>5, <3>6
  <2>4. CASE Commit(w, x) \/ HandleFailure(w, x)
    <3>1. \A r \in Scopes \ {s} : scope'[r] = scope[r]
      BY <1>0, <2>1, <2>4 DEF Commit, HandleFailure, TypeOK
    <3>2. scope'[s] = scope[s] \/ scope[s].owner = w
      <4>1. CASE Commit(w, x)
        BY <4>1 DEF Commit, MayCommit, OwnsScope
      <4>2. CASE HandleFailure(w, x)
        BY <1>0, <2>1, <4>2 DEF HandleFailure, Released, OwnsScope, TypeOK
      <4> QED  BY <2>4, <4>1, <4>2
    <3>3. CASE k = j
      <4>1. job'[j].left = 0 \/ (job'[j] = job[j] /\ job[j].owner # w)
        <5>1. CASE Commit(w, x)
          <6>1. job[j] \in JobRow
            BY <1>0, <2>1 DEF TypeOK
          <6>2. job'[j] = Ended(job[j], "succeeded", job[j].avail)
            BY <1>0, <2>1, <5>1 DEF Commit, TypeOK
          <6> QED  BY <6>1, <6>2 DEF Ended, JobRow
        <5>2. CASE HandleFailure(w, x)
          <6>1. exec[w][x].pc = "failing" /\ exec'[w][x].pc = "failed"
            <7>1. exec[w][x] \in Exec /\ exec'[w][x] = [exec[w][x] EXCEPT !.pc = "failed"]
              BY <1>0, <5>2 DEF HandleFailure, Goto, TypeOK
            <7> QED  BY <5>2, <7>1 DEF HandleFailure, Exec
          <6>2. ~MarkRunning(w, x) /\ ~Heartbeat(w, x)
            BY <6>1 DEF MarkRunning, Heartbeat
          <6> QED  BY <2>1, <6>1, <6>2 DEF RowWritten, LeavesRow
        <5> QED  BY <2>4, <5>1, <5>2
      <4> QED  BY <1>0, <1>k, <3>1, <3>2, <3>3, <4>1 DEF Nested
    <3>4. CASE k # j
      <4>1. job'[k] = job[k] /\ job[k].owner # w
        BY <2>1, <2>2, <3>4
      <4> QED  BY <1>0, <1>k, <3>1, <3>2, <4>1 DEF Nested
    <3> QED  BY <3>3, <3>4
  <2>5. CASE job' = job /\ scope' = scope
    BY <1>k, <2>5 DEF Nested
  <2> QED
    BY <1>2, <2>3, <2>4, <2>5
       DEF Step, MarkRunningLost, BeginRecovery, HeartbeatLost, ProcessorFails, CommitLost,
           AfterCommitFails, Settle, tables
<1>3. ASSUME NEW j \in Jobs, Enqueue(j) \/ Cancel(j) \/ Retry(j) PROVE Nested(k)'
  <2>1. scope' = scope
    BY <1>3 DEF Enqueue, Cancel, Retry
  <2>2. job'[k].left = 0 \/ (job'[k].left = job[k].left /\ job'[k].owner = job[k].owner)
    BY <1>0, <1>3, ApartLeases
  <2> QED  BY <1>0, <1>k, <2>1, <2>2 DEF Nested
<1>4. CASE Tick
  <2>1. /\ job'[k].left = Before(job[k].left) /\ job'[k].owner = job[k].owner
        /\ scope'[ScopeOf[k]].left = Before(scope[ScopeOf[k]].left)
        /\ scope'[ScopeOf[k]].owner = scope[ScopeOf[k]].owner
    <3>1. job[k] \in JobRow /\ scope[ScopeOf[k]] \in ScopeRow /\ ScopeOf[k] \in Scopes
      BY <1>0 DEF TypeOK
    <3>2. /\ job'[k] = [job[k] EXCEPT !.left = Before(@), !.avail = Before(@)]
          /\ scope'[ScopeOf[k]] = [scope[ScopeOf[k]] EXCEPT !.left = Before(@)]
      BY <1>4, <3>1 DEF Tick
    <3> QED  BY <3>1, <3>2 DEF JobRow, ScopeRow
  <2> QED  BY <1>0, <1>k, <2>1 DEF Nested, Before
<1>5. CASE UNCHANGED vars \/ \E w \in Workers : Crash(w)
  BY <1>k, <1>5 DEF vars, Crash, tables, Nested
<1> QED  BY <1>1, <1>2, <1>3, <1>4, <1>5 DEF Next

(* Jobs of one scope run one at a time, for any number of workers that run *)
(* one job each: two executions never are both in prepare for a scope      *)
(* under leases that have not expired.  A worker that runs more jobs at a  *)
(* time passes its own scope lease (ScopeIsFree) and its executions give   *)
(* up each other's: the hypothesis is needed.                              *)
THEOREM ScopesAreSerial ==
  ASSUME MaxConcurrentJobs = 1
  PROVE  Spec => []SerialScope
<1> DEFINE LeaseInv == OneAtATime /\ RowsWorked /\ LeasesNest
<1>1. Init => LeaseInv
  BY ConstantsAssumption DEF Init, Idle, OneAtATime, RowsWorked, LeasesNest, Nested
<1>2. RowInv /\ LeaseInv /\ [Next]_vars => LeaseInv'
  BY OneAtATimeStep, RowsWorkedStep, LeasesNestStep
<1>3. RowInv /\ LeaseInv => SerialScope
  <2> SUFFICES ASSUME RowInv, LeaseInv,
                      NEW w \in Workers, NEW v \in Workers, NEW x \in Slots, NEW y \in Slots,
                      Holds(w, x), Holds(v, y),
                      ScopeOf[exec[w][x].job] = ScopeOf[exec[v][y].job]
               PROVE  w = v /\ x = y
    BY DEF SerialScope
  <2>1. exec[w][x].job \in Jobs /\ exec[v][y].job \in Jobs
    BY DEF Holds, RowInv, BusyHasJob
  <2>2. /\ scope[ScopeOf[exec[w][x].job]].owner = w
        /\ scope[ScopeOf[exec[v][y].job]].owner = v
    BY <2>1 DEF Holds, OwnsRow, LeasesNest, Nested
  <2>3. w = v
    BY <2>2
  <2> QED  BY <2>3 DEF Holds, OneAtATime
<1> QED  BY <1>1, <1>2, <1>3, RowInvariant, PTL DEF Spec

=============================================================================
