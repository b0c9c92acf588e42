---------------------------- MODULE SessionState ----------------------------
(***************************************************************************)
(* SessionStateService (apps/api/src/session-state) under the turns of one *)
(* session: values of slots that are staged during a turn and applied by   *)
(* its commit, or written directly; the live head of a slot on a branch;   *)
(* and the snapshot of a slot that every committed floor keeps.            *)
(*                                                                         *)
(* A branch has one turn at a time (GenerationCoordinator), branches run   *)
(* side by side.  Of a turn only what session state depends on is kept     *)
(* (FloorTurn has the rest): the floor it writes to, and how that floor    *)
(* ends.  A turn goes: start, await the model, stage, await, commit; each  *)
(* part without an await is an action.                                     *)
(*                                                                         *)
(* What one stretch of code writes for several slots is one batch: its     *)
(* rows in session_state_mutation are staged, applied or discarded         *)
(* together.  A value is the batch it comes from; deleting a value writes  *)
(* present: false, one more value.  Every slot of the program is           *)
(* fork_on_branch (slot registry and namespace template), so the code for  *)
(* session_shared is left out.                                             *)
(***************************************************************************)
EXTENDS Naturals, FiniteSets

CONSTANTS
  Floors, Branches, Slots,
  Main,        \* the branch "main"
  NoFloor,
  Ticks,       \* by how much the clock may move between two writes
  MaxBatches,  \* model bound: batches of mutations
  MaxTurns,    \* model bound: turns
  MaxCrashes   \* model bound: crashes

ASSUME StateConstants ==
  /\ Main \in Branches
  /\ NoFloor \notin Floors
  /\ Ticks \subseteq Nat
  /\ MaxBatches \in Nat /\ MaxTurns \in Nat /\ MaxCrashes \in Nat

VARIABLES
  floor,     \* the table floors
  turn,      \* the turn of each branch
  batch,     \* session_state_mutation
  used,      \* batches so far
  liveHead,  \* the collection of live heads: branch -> slot
  snapshot,  \* the collection of floor snapshots: floor -> slot
  now,       \* Date.now()
  turns,     \* turns so far (bounded by MaxTurns)
  crashes,   \* crashes so far (bounded by MaxCrashes)
  lost,      \* history: batches a crashed turn left staged
  kept,      \* history: batches whose discard failed
  rewritten, \* history: floors committed again after a floor grew on them
  early      \* history: branches written to before they had a floor

vars == <<floor, turn, batch, used, liveHead, snapshot, now, turns, crashes,
          lost, kept, rewritten, early>>

Batches == 1 .. MaxBatches

\* path: history, the floor and the floors it grew on.
FloorRow ==
  [state : {"none", "generating", "committed", "failed"}, branch : Branches, no : Nat,
   parent : Floors \cup {NoFloor}, live : BOOLEAN, path : SUBSET Floors]

NoRow == [state |-> "none", branch |-> Main, no |-> 0, parent |-> NoFloor, live |-> FALSE,
          path |-> {}]

Turn == [stage : {"idle", "running", "staged"}, floor : Floors \cup {NoFloor},
         kind : {"respond", "regenerate", "retry"}]

NoTurn == [stage |-> "idle", floor |-> NoFloor, kind |-> "respond"]

\* A direct write has no floor.
Batch ==
  [status : {"unused", "staged", "applied", "discarded"}, slots : SUBSET Slots,
   branch : Branches, floor : Floors \cup {NoFloor}]

NoBatch == [status |-> "unused", slots |-> {}, branch |-> Main, floor |-> NoFloor]

\* A live head or a snapshot: the batch its value comes from, and when it was
\* written.  batch 0 is no value; a snapshot may say so (present: false), and
\* is taken or not.
Value == [taken : BOOLEAN, batch : 0 .. MaxBatches, at : Nat]

NoValue == [taken |-> FALSE, batch |-> 0, at |-> 0]

TypeOK ==
  /\ floor \in [Floors -> FloorRow]
  /\ turn \in [Branches -> Turn]
  /\ batch \in [Batches -> Batch]
  /\ used \in 0 .. MaxBatches
  /\ liveHead \in [Branches -> [Slots -> Value]]
  /\ snapshot \in [Floors -> [Slots -> Value]]
  /\ now \in Nat /\ turns \in Nat /\ crashes \in Nat
  /\ lost \subseteq Batches
  /\ kept \subseteq Batches
  /\ rewritten \subseteq Floors
  /\ early \subseteq Branches

Init ==
  /\ floor = [f \in Floors |-> NoRow]
  /\ turn = [b \in Branches |-> NoTurn]
  /\ batch = [w \in Batches |-> NoBatch]
  /\ used = 0
  /\ liveHead = [b \in Branches |-> [s \in Slots |-> NoValue]]
  /\ snapshot = [f \in Floors |-> [s \in Slots |-> NoValue]]
  /\ now = 0 /\ turns = 0 /\ crashes = 0
  /\ lost = {} /\ kept = {} /\ rewritten = {} /\ early = {}

-----------------------------------------------------------------------------
(* The floors of a branch.                                                 *)

Newest(fs) == IF fs = {} THEN NoFloor
              ELSE CHOOSE f \in fs : \A g \in fs : floor[g].no <= floor[f].no

OnBranch(b) == {f \in Floors : floor[f].state # "none" /\ floor[f].branch = b /\ floor[f].live}

LatestCommitted(b) == Newest({f \in OnBranch(b) : floor[f].state = "committed"})

\* The floors a branch without floors may start from: the one a request or the
\* branch registry names, or the latest one of main.
Sources ==
  {f \in Floors : floor[f].state = "committed" /\ floor[f].live} \cup {LatestCommitted(Main)}

-----------------------------------------------------------------------------
(* Turns.                                                                  *)

StartTurn(b, f, kind) ==
  /\ turn[b].stage = "idle"
  /\ turns < MaxTurns
  /\ turns' = turns + 1
  /\ turn' = [turn EXCEPT ![b] = [stage |-> "running", floor |-> f, kind |-> kind]]
  /\ UNCHANGED <<batch, used, liveHead, snapshot, now, crashes, lost, kept, rewritten, early>>

BadNewFloor(b, n, parent) ==
  [state |-> "generating", branch |-> b, no |-> n - 1, parent |-> parent, live |-> TRUE,
   path |-> IF parent = NoFloor THEN {} ELSE floor[parent].path]

NewFloor(b, n, parent) ==
  [state |-> "generating", branch |-> b, no |-> n, parent |-> parent, live |-> TRUE,
   path |-> IF parent = NoFloor THEN {} ELSE floor[parent].path]

With(row, f) == [row EXCEPT !.path = @ \cup {f}]

\* respond: a further floor of the branch, or the first one.  (An
\* edit-and-regenerate is the first floor of a branch of its own.)
Respond(b, f) ==
  /\ floor[f].state = "none"
  /\ \A g \in OnBranch(b) : floor[g].state # "generating"
  /\ LET last == Newest(OnBranch(b))
     IN  IF last # NoFloor
           THEN LET grown == LatestCommitted(b)
                    parent == IF grown # NoFloor THEN grown ELSE floor[last].parent
                IN  floor' = [floor EXCEPT ![f] = With(NewFloor(b, floor[last].no + 1, parent), f)]
           ELSE \E source \in Sources :
                  LET n == IF source = NoFloor THEN 0 ELSE floor[source].no + 1
                  IN  floor' = [floor EXCEPT ![f] = With(NewFloor(b, n, source), f)]
  /\ StartTurn(b, f, "respond")

\* regenerate: the latest floor of main is superseded by one with its number
\* that grows on it.
Regenerate(f) ==
  LET source == LatestCommitted(Main)
  IN  /\ floor[f].state = "none"
      /\ source # NoFloor
      /\ floor' = [floor EXCEPT ![f] = With(NewFloor(Main, floor[source].no, source), f),
                                ![source].live = FALSE]
      /\ StartTurn(Main, f, "regenerate")

\* retry: any committed floor, in place.
Retry(f) ==
  /\ floor[f].state = "committed"
  /\ floor' = [floor EXCEPT ![f].state = "generating"]
  /\ StartTurn(floor[f].branch, f, "retry")

\* stageExecutionState and stageTurnBoundSessionStateWrites.
Stage(b) ==
  /\ turn[b].stage = "running"
  /\ turn' = [turn EXCEPT ![b].stage = "staged"]
  /\ \/ UNCHANGED <<batch, used>>
     \/ \E slots \in SUBSET Slots \ {{}} :
          /\ used < MaxBatches
          /\ used' = used + 1
          /\ batch' = [batch EXCEPT ![used + 1] =
               [status |-> "staged", slots |-> slots, branch |-> b, floor |-> turn[b].floor]]
  /\ UNCHANGED <<floor, liveHead, snapshot, now, turns, crashes, lost, kept, rewritten, early>>

StagedFor(f) == {w \in Batches : batch[w].status = "staged" /\ batch[w].floor = f}

\* Two writes may fall into one millisecond.
Time == {now + d : d \in Ticks}

-----------------------------------------------------------------------------
(* Applying.                                                               *)

BadLastOn(ws, bs, s) ==
  LET on == {w \in ws : s \in bs[w].slots}
  IN  IF on = {} THEN 0 ELSE CHOOSE w \in on : \A x \in on : w <= x

\* The batch of ws that is applied last to slot s, 0 for none
\* (listMutationsForSourceFloor orders by createdAt).
LastOn(ws, bs, s) ==
  LET on == {w \in ws : s \in bs[w].slots}
  IN  IF on = {} THEN 0 ELSE CHOOSE w \in on : \A x \in on : x <= w

Applied(ws, bs) ==
  [w \in Batches |-> IF w \in ws THEN [bs[w] EXCEPT !.status = "applied"] ELSE bs[w]]

\* applyDirectMutation, for each row: the live head of its branch.
Heads(b, ws, bs, t) ==
  [liveHead EXCEPT ![b] = [s \in Slots |->
     IF LastOn(ws, bs, s) = 0 THEN @[s]
     ELSE [taken |-> TRUE, batch |-> LastOn(ws, bs, s), at |-> t]]]

\* listSlotDefinitionsForSession: a slot is known once a write to it was applied.
Known(bs) == {s \in Slots : \E w \in Batches : bs[w].status = "applied" /\ s \in bs[w].slots}

BadMaterialized(head, parent, last) ==
  IF last # 0 THEN last
  ELSE IF parent.taken THEN parent.batch
  ELSE IF head.taken THEN head.batch
  ELSE 0

\* materializeFloorSnapshotForSlot: what this commit applied; else the live
\* head, unless the snapshot of the parent is newer; else that snapshot.
Materialized(head, parent, last) ==
  IF last # 0 THEN last
  ELSE IF head.taken /\ (~parent.taken \/ head.at >= parent.at) THEN head.batch
  ELSE IF parent.taken THEN parent.batch
  ELSE 0

BadSnapshots(f, b, ws, bs, t) ==
  [snapshot EXCEPT ![f] = [s \in Slots |->
     IF s \in Known(bs)
       THEN LET p == floor[f].parent
            IN  [taken |-> TRUE, at |-> t,
                 batch |-> Materialized(Heads(b, ws, bs, t)[Main][s],
                                        IF p = NoFloor THEN NoValue ELSE snapshot[p][s],
                                        LastOn(ws, bs, s))]
       ELSE @[s]]]

Snapshots(f, b, ws, bs, t) ==
  [snapshot EXCEPT ![f] = [s \in Slots |->
     IF s \in Known(bs)
       THEN LET p == floor[f].parent
            IN  [taken |-> TRUE, at |-> t,
                 batch |-> Materialized(Heads(b, ws, bs, t)[b][s],
                                        IF p = NoFloor THEN NoValue ELSE snapshot[p][s],
                                        LastOn(ws, bs, s))]
       ELSE @[s]]]

\* TurnCommitService.commit, its transaction.  Variables the turn wrote for a
\* slot are staged in it (rerouted) and applied with the rest.
Commit(b) ==
  LET f == turn[b].floor
  IN  /\ turn[b].stage = "staged"
      /\ floor[f].state = "generating"
      /\ \E rerouted \in SUBSET Slots, t \in Time :
           LET id == IF rerouted = {} THEN 0 ELSE used + 1
               bs == [w \in Batches |-> IF w = id
                        THEN [status |-> "staged", slots |-> rerouted, branch |-> b, floor |-> f]
                        ELSE batch[w]]
               ws == (StagedFor(f) \cup {id}) \ {0}
           IN  /\ id <= MaxBatches
               /\ used' = IF id = 0 THEN used ELSE id
               /\ batch' = Applied(ws, bs)
               /\ liveHead' = Heads(b, ws, bs, t)
               /\ snapshot' = Snapshots(f, b, ws, Applied(ws, bs), t)
               /\ now' = t
      /\ floor' = [floor EXCEPT ![f].state = "committed"]
      /\ turn' = [turn EXCEPT ![b] = NoTurn]
      /\ rewritten' = IF \E g \in Floors : floor[g].state # "none" /\ floor[g].parent = f
                        THEN rewritten \cup {f} ELSE rewritten
      /\ UNCHANGED <<turns, crashes, lost, kept, early>>

BadDiscarded(ws) == batch

\* discardStagedMutationsForFloor
Discarded(ws) ==
  [w \in Batches |-> IF w \in ws THEN [batch[w] EXCEPT !.status = "discarded"] ELSE batch[w]]

\* The turn ends otherwise: its execution fails, the gate blocks it, staging
\* or the commit fails.  Its rows are discarded; its floor fails, stays as it
\* is until a poll finds it, or (a retry) is committed again; the source of a
\* regenerate is shown again.  All of this is best effort.
TurnFails(b) ==
  LET f == turn[b].floor
      ends == {"failed", "generating"} \cup (IF turn[b].kind = "retry" THEN {"committed"} ELSE {})
  IN  /\ turn[b].stage # "idle"
      /\ turn' = [turn EXCEPT ![b] = NoTurn]
      /\ \/ /\ batch' = Discarded(StagedFor(f))
            /\ UNCHANGED kept
         \/ /\ kept' = kept \cup StagedFor(f)
            /\ UNCHANGED batch
      /\ \E end \in ends : 
           \/ floor' = [floor EXCEPT ![f].state = end]
           \/ /\ turn[b].kind = "regenerate"
              /\ floor' = [floor EXCEPT ![f].state = end, ![f].live = FALSE,
                                        ![floor[f].parent].live = TRUE]
      /\ UNCHANGED <<used, liveHead, snapshot, now, turns, crashes, lost, rewritten, early>>

\* writeDirectValue: a client sets or deletes a value of any branch.
DirectWrite(b, s) ==
  /\ used < MaxBatches
  /\ used' = used + 1
  /\ LET w == used + 1
         bs == [batch EXCEPT ![w] = [status |-> "staged", slots |-> {s}, branch |-> b,
                                     floor |-> NoFloor]]
     IN  \E t \in Time :
           /\ batch' = Applied({w}, bs)
           /\ liveHead' = Heads(b, {w}, bs, t)
           /\ now' = t
  /\ early' = IF LatestCommitted(b) = NoFloor THEN early \cup {b} ELSE early
  /\ UNCHANGED <<floor, turn, snapshot, turns, crashes, lost, kept, rewritten>>

\* The process dies.  Rows that were staged stay staged.
Crash ==
  /\ crashes < MaxCrashes
  /\ crashes' = crashes + 1
  /\ turn' = [b \in Branches |-> NoTurn]
  /\ lost' = lost \cup UNION {StagedFor(turn[b].floor) : b \in Branches}
  /\ UNCHANGED <<floor, batch, used, liveHead, snapshot, now, turns, kept, rewritten, early>>

\* A poll fails a floor that is generating for too long (FloorTurn!Poll).
Reap(f) ==
  /\ floor[f].state = "generating"
  /\ \A b \in Branches : turn[b].floor # f
  /\ floor' = [floor EXCEPT ![f].state = "failed"]
  /\ UNCHANGED <<turn, batch, used, liveHead, snapshot, now, turns, crashes, lost, kept,
                 rewritten, early>>

Next ==
  \/ \E f \in Floors : Regenerate(f) \/ Retry(f) \/ Reap(f)
  \/ \E b \in Branches :
       \/ Stage(b) \/ Commit(b) \/ TurnFails(b)
       \/ \E f \in Floors : Respond(b, f)
       \/ \E s \in Slots : DirectWrite(b, s)
  \/ Crash

Spec == Init /\ [][Next]_vars

-----------------------------------------------------------------------------
(* Reading.                                                                *)

\* resolveLiveValue without a source floor.
Resolved(b, s) ==
  IF liveHead[b][s].taken THEN liveHead[b][s].batch
  ELSE IF LatestCommitted(b) = NoFloor THEN 0
  ELSE snapshot[LatestCommitted(b)][s].batch

-----------------------------------------------------------------------------
(* Properties.                                                             *)

\* A write bound to a turn takes effect only if that turn commits: what a
\* crashed turn staged for a floor is never applied by a later turn on it, and
\* no turn leaves anything staged behind, unless its discard failed.
OnlyCommittedTurnsWrite ==
  \A w \in Batches :
    /\ w \in lost \ kept => batch[w].status # "applied"
    /\ batch[w].status = "staged" /\ w \notin lost \cup kept =>
         turn[batch[w].branch].stage = "staged" /\ turn[batch[w].branch].floor = batch[w].floor

\* Turns of one branch and direct writes to it never show on another branch,
\* except on those that grew out of it.
BranchesStayApart ==
  /\ \A b \in Branches, s \in Slots : liveHead[b][s].batch # 0 =>
       batch[liveHead[b][s].batch].branch = b
  /\ \A f \in Floors, s \in Slots : snapshot[f][s].batch # 0 =>
       batch[snapshot[f][s].batch].branch \in {floor[g].branch : g \in floor[f].path}

\* The value comes from a client, from a turn on the path of the floor, or from
\* a floor that has been superseded or lost by a failed retry since.
FromPast(f, w) ==
  LET g == batch[w].floor
  IN  \/ g = NoFloor
      \/ g \in floor[f].path
      \/ ~(floor[g].live /\ floor[g].state = "committed")

\* What the snapshot of a floor adds to the one of its parent comes from its
\* own branch, and not from floors that came after it ...
KeepsHistory(f) ==
  \A s \in Slots :
    LET w == snapshot[f][s].batch
        p == floor[f].parent
    IN  w # 0 => \/ batch[w].branch = floor[f].branch /\ FromPast(f, w)
                 \/ p # NoFloor /\ w = snapshot[p][s].batch

Unrewritten(f) == floor[f].path \cap rewritten = {}

\* ... as long as no floor it grew on was retried after others had grown on it.
SnapshotsKeepHistory ==
  \A f \in Floors : Unrewritten(f) => KeepsHistory(f)

\* A committed turn is seen at once: its writes are the current values of its
\* branch and of its snapshot, whatever retries, crashes, failed discards and
\* direct writes went before.
CommitShowsWrites ==
  [][\A f \in Floors, s \in Slots :
       LET own == {w \in Batches \ kept :
                     s \in batch'[w].slots /\ batch'[w].floor = f
                     /\ batch'[w].status = "applied" /\ batch[w].status # "applied"}
       IN  own # {} => /\ snapshot'[f][s].batch = liveHead'[floor[f].branch][s].batch
                       /\ snapshot'[f][s].batch \in own]_vars

Undisturbed(f) == Unrewritten(f) /\ floor[f].branch \notin early

\* What a turn's commit records as the state of the floor is what a reader of
\* the branch resolves from now on, for the slots nobody wrote as well.
SnapshotIsCurrent ==
  [][\A f \in Floors, s \in Slots :
       /\ snapshot'[f][s] # snapshot[f][s]
       /\ LatestCommitted(floor[f].branch)' = f
       /\ Undisturbed(f)'
       => snapshot'[f][s].batch = Resolved(floor[f].branch, s)']_vars

=============================================================================
