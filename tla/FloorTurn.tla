----------------------------- MODULE FloorTurn ------------------------------
(***************************************************************************)
(* One turn after another on a session branch                              *)
(* (apps/api/src/services/chat/chat-service.ts): respond, regenerate and   *)
(* retry, over the floor state machine, the run row of each floor          *)
(* (floor-run-service.ts) and the commit transaction                       *)
(* (turn-commit-service.ts).  The generation coordinator lets one turn at  *)
(* a time onto a branch; polls of the run, page swipes and a crash of the  *)
(* process come between any two of its steps.                              *)
(*                                                                         *)
(* SQLite answers synchronously, so a chain of queries runs in one go and  *)
(* a poll is one action.  Writes succeed or fail their turn; the           *)
(* best-effort ones succeed.                                               *)
(***************************************************************************)
EXTENDS Integers

CONSTANTS
  Floors,       \* floor ids
  None,         \* no floor
  Kinds,        \* the requests that are made, of AllKinds
  MaxAttempts,  \* 1 + maxRetries with verifierFailStrategy "retry", else 1
  MaxTurns,     \* bound on the number of turns
  MaxCrashes,   \* bound on the number of crashes
  MaxPages,     \* bound on the output versions of a floor
  SlowTurns     \* whether a live turn may be silent beyond the stale window

AllKinds == {"respond", "regenerate", "retry"}

ASSUME TurnAssumption ==
  /\ None \notin Floors
  /\ Kinds \subseteq AllKinds
  /\ MaxAttempts \in Nat \ {0} /\ MaxTurns \in Nat /\ MaxPages \in Nat
  /\ SlowTurns \in BOOLEAN

VARIABLES
  floor,    \* rows of floor: state, number, live (supersededAt IS NULL), supersededByFloorId
  output,   \* output pages of a floor: how many versions, and the active one
  run,      \* rows of floor_run_state: status, type, id, attempt, phase
  silent,   \* floors whose run wrote nothing for longer than staleRunMaxAgeMs
  turn,     \* the turn in progress on the branch
  turns,    \* how many turns began; numbers the run ids
  crashes,
  answered  \* history: floor numbers that once had a committed answer

data == <<floor, output, run, silent, answered>>
vars == <<floor, output, run, silent, turn, turns, crashes, answered>>

States == {"absent", "draft", "generating", "committed", "failed"}
Stages == {"idle", "created", "preparing", "prepared", "started", "generating", "thrown",
           "executed", "committed", "failing", "noted", "stale"}

At(stage) == turn.at = stage

FloorRow == [state : States, no : Nat, live : BOOLEAN, by : Floors \cup {None}]
RunRow == [status : {"none", "running", "completed", "failed", "cancelled"},
           kind : AllKinds, id : Nat, attempt : Nat, phase : {"preparing", "generating"}]
Turn == [at : Stages, kind : AllKinds, floor : Floors \cup {None}, source : Floors \cup {None},
         page : Nat, id : Nat, attempt : Nat, round : Nat, how : {"failed", "cancelled"}]

NoTurn == [at |-> "idle", kind |-> "respond", floor |-> None, source |-> None, page |-> 0,
           id |-> 0, attempt |-> 0, round |-> 0, how |-> "failed"]

TypeOK ==
  /\ floor \in [Floors -> FloorRow]
  /\ output \in [Floors -> [pages : Nat, shown : Nat]]
  /\ run \in [Floors -> RunRow]
  /\ turn \in Turn
  /\ At("idle") \/ turn.floor \in Floors \ {turn.source}
  /\ silent \subseteq Floors /\ answered \subseteq Nat
  /\ turns \in Nat /\ crashes \in Nat

Init ==
  /\ floor = [f \in Floors |-> [state |-> "absent", no |-> 0, live |-> FALSE, by |-> None]]
  /\ output = [f \in Floors |-> [pages |-> 0, shown |-> 0]]
  /\ run = [f \in Floors |-> [status |-> "none", kind |-> "respond", id |-> 0, attempt |-> 0,
                              phase |-> "preparing"]]
  /\ silent = {}
  /\ turn = NoTurn /\ turns = 0 /\ crashes = 0
  /\ answered = {}

-----------------------------------------------------------------------------
(* Helpers; an operator named Bad... is the one after it with a plausible  *)
(* bug, for the mutation runs.                                             *)

Wrote(f) == silent' = silent \ {f}

Live(f) == floor[f].live    \* an absent floor is not live

(* nextFloorNo: one more than getLatestFloorInBranch found                 *)
BadIsNextFloorNo(n) == n = 0 - 1 \/ \E g \in Floors : Live(g) /\ n = floor[g].no

IsNextFloorNo(n) ==
  /\ \A g \in Floors : Live(g) => floor[g].no < n
  /\ n # 0 => \E g \in Floors : Live(g) /\ floor[g].no = n - 1

(* FloorStateMachine.fail, its error swallowed by the caller               *)
Failed(fl, f) ==
  IF fl[f].state \in {"draft", "generating"} THEN [fl EXCEPT ![f].state = "failed"] ELSE fl

(* restoreCommittedForRetry                                                *)
Recommitted(fl, f) ==
  IF fl[f].state = "generating" THEN [fl EXCEPT ![f].state = "committed"] ELSE fl

(* restoreSupersededSourceFloorBestEffort: take the new floor out of the   *)
(* live window, then bring the source back unless another floor replaced   *)
(* it; the first update comes first because of the unique index.           *)
BadRestored(fl, f, source) ==
  IF source = None \/ fl[source].by # f THEN fl
  ELSE [fl EXCEPT ![f].live = FALSE, ![f].by = None, ![source].live = TRUE, ![source].by = None]
BadRestoredBoth(fl, f, source) ==
  IF source = None THEN fl ELSE [fl EXCEPT ![source].live = TRUE, ![source].by = None]

Restored(fl, f, source) ==
  IF source = None THEN fl
  ELSE [fl EXCEPT ![f].live = FALSE, ![f].by = None,
                  ![source].live = @ \/ fl[source].by \in {f, None},
                  ![source].by = IF @ = f THEN None ELSE @]

(* markFailed, markCancelled, markCompleted: by floor id, whatever the row *)
(* says.                                                                   *)
Marked(f, status) == [run EXCEPT ![f].status = status]

(* The attempt check of the commit transaction                             *)
BadAttemptCurrent(t) == run[t.floor].id = t.id

AttemptCurrent(t) ==
  /\ run[t.floor].status = "running"
  /\ run[t.floor].id = t.id /\ run[t.floor].kind = t.kind
  /\ run[t.floor].attempt = t.attempt

(* outputReplacement: the page the retry started from is still active      *)
BadSourcePageActive(t) == TRUE

SourcePageActive(t) == t.kind = "retry" => output[t.floor].shown = t.page

(* prepareTransition, or the replacement of the output of a committed      *)
(* floor                                                                   *)
CanCommit(t) ==
  floor[t.floor].state \in {"generating"} \cup (IF t.kind = "retry" THEN {"committed"} ELSE {})

(* supersedeSourceFloor: nobody else replaced the source meanwhile         *)
SourceFree(t) ==
  t.source # None => floor[t.source].live \/ floor[t.source].by \in {t.floor, None}

(* isRetryPreparingForReopen                                               *)
BadPreparesRetry(f) == FALSE

PreparesRetry(f) ==
  run[f].kind = "retry" /\ run[f].phase = "preparing" /\ f \notin silent

-----------------------------------------------------------------------------
(* The requests, inside the task of the coordinator.                       *)

Begin(kind, f, source) ==
  /\ At("idle") /\ turns < MaxTurns
  /\ turn' = [NoTurn EXCEPT !.at = "created", !.kind = kind, !.floor = f, !.source = source,
                            !.page = output[f].shown]
  /\ turns' = turns + 1
  /\ UNCHANGED <<output, run, crashes, answered>>

(* resolveRespondBranchContext and the draft floor                         *)
Respond(f) ==
  /\ "respond" \in Kinds
  /\ \A g \in Floors : Live(g) => floor[g].state # "generating"
  /\ floor[f].state = "absent"
  /\ Begin("respond", f, None)
  /\ \E n \in (0 - 1) .. MaxTurns :
       /\ IsNextFloorNo(n)
       /\ floor' = [floor EXCEPT ![f] = [state |-> "draft", no |-> n, live |-> TRUE, by |-> None]]
  /\ Wrote(f)

(* requireRegenerationTarget; the source leaves the live window in the     *)
(* transaction that creates the draft of its replacement.                  *)
IsRegenerationTarget(s) ==
  /\ Live(s) /\ floor[s].state = "committed"
  /\ \A g \in Floors : Live(g) /\ floor[g].state = "committed" => floor[g].no <= floor[s].no

Regenerate(f, s) ==
  /\ "regenerate" \in Kinds
  /\ IsRegenerationTarget(s)
  /\ floor[f].state = "absent"
  /\ Begin("regenerate", f, s)
  /\ floor' = [floor EXCEPT ![f] = [state |-> "draft", no |-> floor[s].no, live |-> TRUE,
                                    by |-> None],
                            ![s].live = FALSE, ![s].by = None]
  /\ Wrote(f)

(* requireRetryTargetFloor                                                 *)
RetryFloor(f) ==
  /\ "retry" \in Kinds
  /\ floor[f].state = "committed" /\ output[f].pages < MaxPages
  /\ Begin("retry", f, None)
  /\ UNCHANGED <<floor, silent>>

-----------------------------------------------------------------------------
(* Steps of a turn up to its commit.                                       *)

InitializeRun ==
  /\ At("created")
  /\ run' = [run EXCEPT ![turn.floor] = [status |-> "running", kind |-> turn.kind, id |-> turns,
                                         attempt |-> 1, phase |-> "preparing"]]
  /\ Wrote(turn.floor)
  /\ turn' = [turn EXCEPT !.at = "preparing"]
  /\ UNCHANGED <<floor, output, turns, crashes, answered>>

(* resolveTurnAttempt: what the commit will compare                        *)
ResolveAttempt ==
  /\ At("preparing")
  /\ turn' = [turn EXCEPT !.at = "prepared", !.id = run[turn.floor].id,
                          !.attempt = run[turn.floor].attempt]
  /\ Wrote(turn.floor)
  /\ UNCHANGED <<floor, output, run, turns, crashes, answered>>

PreparationFails ==
  /\ turn.at \in {"preparing", "prepared"}
  /\ turn' = [turn EXCEPT !.at = "failing"]
  /\ UNCHANGED <<data, turns, crashes>>

(* executeTurn begins: draft or committed (reopenForRetry) to generating   *)
EnsureGenerating ==
  /\ At("prepared")
  /\ floor[turn.floor].state \in {"draft", "committed", "generating"}
  /\ floor' = [floor EXCEPT ![turn.floor].state = "generating"]
  /\ Wrote(turn.floor)
  /\ turn' = [turn EXCEPT !.at = "started"]
  /\ UNCHANGED <<output, run, turns, crashes, answered>>

(* runGeneration reports its round to the run row as the attempt number.   *)
Generate ==
  /\ \/ At("started")
     \/ At("generating") /\ turn.round < MaxAttempts   \* the verifier asks for another round
  /\ turn' = [turn EXCEPT !.at = "generating", !.round = @ + 1]
  /\ run' = [run EXCEPT ![turn.floor].phase = "generating",
                        ![turn.floor].attempt = turn.round + 1]
  /\ Wrote(turn.floor)
  /\ UNCHANGED <<floor, output, turns, crashes, answered>>

CandidateAccepted ==
  /\ At("generating")
  /\ turn' = [turn EXCEPT !.at = "executed"]
  /\ Wrote(turn.floor)
  /\ UNCHANGED <<floor, output, run, turns, crashes, answered>>

(* Any error or abort inside executeTurn fails the floor on the way out.   *)
ExecutionFails(how) ==
  /\ turn.at \in {"started", "generating"}
  /\ floor' = Failed(floor, turn.floor)
  /\ Wrote(turn.floor)
  /\ turn' = [turn EXCEPT !.at = "thrown", !.how = how]
  /\ UNCHANGED <<output, run, turns, crashes, answered>>

(* failRunAndFloorBestEffort, without a source to restore                  *)
FailRunAndFloor ==
  /\ run' = Marked(turn.floor, "failed")
  /\ floor' = Failed(floor, turn.floor)
  /\ Wrote(turn.floor)
  /\ turn' = [turn EXCEPT !.at = "failing"]
  /\ UNCHANGED <<output, turns, crashes, answered>>

(* executeNarratorTurn: an abort is passed on unmarked.                    *)
ExecutionErrorCaught ==
  /\ At("thrown")
  /\ \/ turn.how = "failed" /\ FailRunAndFloor
     \/ /\ turn.how = "cancelled"
        /\ turn' = [turn EXCEPT !.at = "failing"]
        /\ UNCHANGED <<data, turns, crashes>>

(* commit_gate_blocked                                                     *)
GateBlocks ==
  /\ At("executed")
  /\ floor' = Restored(floor, turn.floor, turn.source)
  /\ Wrote(turn.floor)
  /\ turn' = [turn EXCEPT !.at = "failing"]
  /\ UNCHANGED <<output, run, turns, crashes, answered>>

(* Staging fails, SQLite stays busy, or the transaction throws.            *)
CommitFails == At("executed") /\ FailRunAndFloor

-----------------------------------------------------------------------------
(* The commit and the end of a turn.                                       *)

(* The transaction of TurnCommitService.commit                             *)
Commit ==
  /\ At("executed")
  /\ AttemptCurrent(turn) /\ SourcePageActive(turn) /\ CanCommit(turn) /\ SourceFree(turn)
  /\ LET f == turn.floor
         s == turn.source
         done == [floor EXCEPT ![f].state = "committed"]
     IN  /\ floor' = IF s = None THEN done
                     ELSE [done EXCEPT ![s].live = FALSE, ![s].by = f]
         /\ output' = [output EXCEPT ![f] = [pages |-> @.pages + 1, shown |-> @.pages + 1]]
         /\ answered' = answered \cup {floor[f].no}
         /\ Wrote(f)
  /\ turn' = [turn EXCEPT !.at = "committed"]
  /\ UNCHANGED <<run, turns, crashes>>

(* TurnAttemptConflictError                                                *)
CommitStale ==
  /\ At("executed")
  /\ ~ (AttemptCurrent(turn) /\ SourcePageActive(turn) /\ SourceFree(turn))
  /\ turn' = [turn EXCEPT !.at = "stale"]
  /\ UNCHANGED <<data, turns, crashes>>

Complete ==
  /\ At("committed")
  /\ run' = Marked(turn.floor, "completed")
  /\ Wrote(turn.floor)
  /\ turn' = NoTurn
  /\ UNCHANGED <<floor, output, turns, crashes, answered>>

(* handlePreparedFloorGenerationFailure: nothing for turn_attempt_stale;   *)
(* else first the run row, then the floor.                                 *)
GiveUp ==
  /\ At("stale")
  /\ turn' = NoTurn
  /\ UNCHANGED <<data, turns, crashes>>

NoteOutcome ==
  /\ At("failing")
  /\ run' = Marked(turn.floor, turn.how)
  /\ Wrote(turn.floor)
  /\ turn' = [turn EXCEPT !.at = "noted"]
  /\ UNCHANGED <<floor, output, turns, crashes, answered>>

Unwound(t) ==
  IF t.kind = "retry" THEN Recommitted(floor, t.floor)
  ELSE Restored(Failed(floor, t.floor), t.floor, t.source)

Unwind ==
  /\ At("noted")
  /\ floor' = Unwound(turn)
  /\ Wrote(turn.floor)
  /\ turn' = NoTurn
  /\ UNCHANGED <<output, run, turns, crashes, answered>>

-----------------------------------------------------------------------------
(* What happens beside a turn.                                             *)

(* The run writes nothing for longer than the stale window: its process    *)
(* died, or, with SlowTurns, a model call or a preparation takes so long.  *)
Silence(f) ==
  /\ run[f].status = "running" /\ f \notin silent
  /\ \/ turn.floor # f
     \/ SlowTurns /\ turn.at \in {"preparing", "prepared", "started", "generating"}
  /\ silent' = silent \cup {f}
  /\ UNCHANGED <<floor, output, run, turn, turns, crashes, answered>>

(* reconcileStaleRunRow, on every read of a run                            *)
BadPollOf(f) ==
  CASE floor[f].state = "committed" /\ ~PreparesRetry(f) -> "completed"
    [] floor[f].state = "failed"                         -> "failed"
    [] OTHER                                             -> "running"

PollOf(f) ==
  CASE floor[f].state = "committed" /\ ~PreparesRetry(f) -> "completed"
    [] floor[f].state = "failed"                         -> "failed"
    [] floor[f].state = "generating" /\ f \in silent     -> "failed"
    [] OTHER                                             -> "running"

Poll(f) ==
  /\ run[f].status = "running"
  /\ PollOf(f) # "running"
  /\ run' = Marked(f, PollOf(f))
  /\ floor' = IF PollOf(f) = "failed" THEN Failed(floor, f) ELSE floor
  /\ Wrote(f)
  /\ UNCHANGED <<output, turn, turns, crashes, answered>>

(* activateVersion: a user swipes to another output of a live floor.       *)
ActivatePage(f, v) ==
  /\ Live(f) /\ v \in 1 .. output[f].pages /\ v # output[f].shown
  /\ output' = [output EXCEPT ![f].shown = v]
  /\ UNCHANGED <<floor, run, silent, turn, turns, crashes, answered>>

(* The process dies; the rows stay.                                        *)
Crash ==
  /\ ~At("idle") /\ crashes < MaxCrashes
  /\ crashes' = crashes + 1
  /\ turn' = NoTurn
  /\ UNCHANGED <<data, turns>>

Request == \E f \in Floors : \/ Respond(f)
                             \/ RetryFloor(f)
                             \/ \E s \in Floors : Regenerate(f, s)

Step ==
  \/ InitializeRun \/ ResolveAttempt \/ PreparationFails \/ EnsureGenerating
  \/ Generate \/ CandidateAccepted \/ ExecutionFails("failed") \/ ExecutionFails("cancelled")
  \/ ExecutionErrorCaught \/ GateBlocks \/ CommitFails \/ Commit \/ CommitStale
  \/ Complete \/ GiveUp \/ NoteOutcome \/ Unwind

Next ==
  \/ Request \/ Step \/ Crash
  \/ \E f \in Floors : Silence(f) \/ Poll(f) \/ \E v \in 1 .. MaxPages : ActivatePage(f, v)

Spec == Init /\ [][Next]_vars

(* Model calls carry timeouts, so a turn ends; time passes; somebody reads *)
(* the run of a floor now and then.                                        *)
Fairness == /\ WF_vars(Step)
            /\ \A f \in Floors : WF_vars(Silence(f)) /\ WF_vars(Poll(f))

FairSpec == Spec /\ Fairness

-----------------------------------------------------------------------------
(* Properties.                                                             *)

(* What the user was shown is never lost: between turns, every floor       *)
(* number that ever had an answer still has a live floor with an active    *)
(* output, whatever failed, was cancelled, blocked or polled since (the    *)
(* failure handlers of chat-service.ts).                                   *)
AnswersSurvive ==
  At("idle") => \A n \in answered : \E f \in Floors :
    floor[f].no = n /\ Live(f) /\ output[f].shown > 0

(* The unique index floor_session_no_branch_live_uq never stands in the    *)
(* way of a write: no number has two live floors, although a source is     *)
(* taken out of and put back into the live window.                         *)
OneLiveFloorPerNumber ==
  \A f, g \in Floors : Live(f) /\ Live(g) /\ floor[f].no = floor[g].no => f = g

(* A turn whose output was accepted is not refused as no longer current:   *)
(* nothing that reads the run in the meantime ends or renumbers it.        *)
AcceptedIsCommitted == turn.at # "stale"

(* The attempt check of the commit protects the floor as well: an attempt  *)
(* that is current finds a floor it may commit, so the error paths of      *)
(* FloorStateConflictError are never taken.                                *)
CurrentMeansCommittable ==
  At("executed") /\ AttemptCurrent(turn) => CanCommit(turn)

(* A retry replaces the version it was made from and no other: a user who  *)
(* swipes to another version meanwhile goes on seeing that one, whatever   *)
(* the retry brings (outputReplacement in turn-commit-service.ts).         *)
SwipeSurvivesRetry ==
  [][\A f \in Floors : output'[f].pages > output[f].pages /\ output[f].pages > 0 =>
       turn.floor = f /\ output[f].shown = turn.page]_vars

(* A run that its process left behind does not stay active for ever, as    *)
(* long as somebody reads it (sessions.md promises it of stale generating  *)
(* runs).                                                                  *)
StaleRunsEnd ==
  \A f \in Floors : run[f].status = "running" /\ floor[f].state # "draft"
                      ~> run[f].status # "running" \/ turn.floor = f

(* No floor stays generating, so the branch accepts a respond again, even  *)
(* after an attempt that was refused at its commit and cleaned up nothing. *)
(* Only for runs without a crash and with turns that are never silent for  *)
(* long: a finished run whose floor is generating is healed by nobody.     *)
Undisturbed == crashes = 0 /\ (At("idle") \/ turn.floor \notin silent)

GeneratingEnds ==
  []Undisturbed => \A f \in Floors : floor[f].state = "generating" ~> floor[f].state # "generating"

(* Retry is non-destructive (chat-service.ts:862): between turns a floor   *)
(* that has an output is committed.                                        *)
RetryIsNonDestructive ==
  At("idle") => \A f \in Floors : output[f].shown > 0 => floor[f].state = "committed"

=============================================================================
