-------------------------- MODULE FloorTurnProofs ---------------------------
(* Proofs about the turns of a branch, for any number of floors, turns,    *)
(* crashes and verifier rounds.                                            *)
EXTENDS FloorTurn, TLAPS

(* Once the floor of a turn is generating it stays so until the run of the *)
(* turn has ended: only a poll or a failure moves it, and both end the run.*)
GeneratingOrEnded ==
  turn.at \in {"started", "generating", "executed"} =>
    floor[turn.floor].state = "generating" \/ run[turn.floor].status # "running"

(* A regenerate and its source share a number, one of them is live until   *)
(* the commit, and no other floor has replaced the source.                 *)
SourceShares ==
  turn.at \notin {"idle", "committed"} /\ turn.source # None =>
    /\ turn.source # turn.floor
    /\ floor[turn.source].no = floor[turn.floor].no
    /\ Live(turn.source) \/ Live(turn.floor)
    /\ floor[turn.source].by \in {turn.floor, None}

-----------------------------------------------------------------------------
(* What the helpers do to the rows.                                        *)

(* Failing a floor leaves the other floors and the numbers alone.          *)
LEMMA FailedFloors ==
  ASSUME NEW fl \in [Floors -> FloorRow], NEW f \in Floors
  PROVE  /\ Failed(fl, f) \in [Floors -> FloorRow]
         /\ \A g \in Floors : /\ Failed(fl, f)[g].no = fl[g].no
                              /\ Failed(fl, f)[g].live = fl[g].live
                              /\ Failed(fl, f)[g].by = fl[g].by
  BY DEF Failed, FloorRow, States

(* So does the restoration of a retried floor.                             *)
LEMMA RecommittedFloors ==
  ASSUME NEW fl \in [Floors -> FloorRow], NEW f \in Floors
  PROVE  /\ Recommitted(fl, f) \in [Floors -> FloorRow]
         /\ \A g \in Floors : /\ Recommitted(fl, f)[g].no = fl[g].no
                              /\ Recommitted(fl, f)[g].live = fl[g].live
  BY DEF Recommitted, FloorRow, States

(* Restoring a source hides the floor that was to replace it and never     *)
(* hides anything else.                                                    *)
LEMMA RestoredFloors ==
  ASSUME NEW fl \in [Floors -> FloorRow], NEW f \in Floors, NEW s \in Floors \cup {None}, s # f
  PROVE  /\ Restored(fl, f, s) \in [Floors -> FloorRow]
         /\ \A g \in Floors : /\ Restored(fl, f, s)[g].no = fl[g].no
                              /\ Restored(fl, f, s)[g].live =>
                                   fl[g].live \/ g = s
         /\ s # None => ~Restored(fl, f, s)[f].live
         /\ s # None /\ fl[s].by \in {f, None} =>
              Restored(fl, f, s)[s].live /\ Restored(fl, f, s)[s].by = None
<1>1. CASE s = None
  BY <1>1 DEF Restored
<1>2. CASE s # None
  <2> DEFINE r == Restored(fl, f, s)
  <2>1. s \in Floors
    BY <1>2
  <2>2. r = [fl EXCEPT ![f] = [fl[f] EXCEPT !.live = FALSE, !.by = None],
                       ![s] = [fl[s] EXCEPT !.live = fl[s].live \/ fl[s].by \in {f, None},
                                            !.by = IF fl[s].by = f THEN None ELSE fl[s].by]]
    BY <1>2, <2>1 DEF Restored, FloorRow
  <2>3. [fl[f] EXCEPT !.live = FALSE, !.by = None] \in FloorRow
    BY DEF FloorRow
  <2>4. (fl[s].live \/ fl[s].by \in {f, None}) \in BOOLEAN
    OBVIOUS
  <2>5. [fl[s] EXCEPT !.live = fl[s].live \/ fl[s].by \in {f, None},
                      !.by = IF fl[s].by = f THEN None ELSE fl[s].by] \in FloorRow
    BY <2>1, <2>4 DEF FloorRow
  <2> HIDE DEF r
  <2>6. r \in [Floors -> FloorRow]
    BY <2>2, <2>3, <2>5
  <2>7. \A g \in Floors : r[g].no = fl[g].no /\ (r[g].live => fl[g].live \/ g = s)
    BY <2>1, <2>2 DEF FloorRow
  <2>8. ~r[f].live /\ (fl[s].by \in {f, None} => r[s].live /\ r[s].by = None)
    BY <2>1, <2>2 DEF FloorRow
  <2> QED  BY <2>6, <2>7, <2>8 DEF r
<1> QED  BY <1>1, <1>2

(* A run row whose status alone changes.                                   *)
LEMMA MarkedRuns ==
  ASSUME run \in [Floors -> RunRow], NEW f \in Floors,
         NEW status \in {"none", "running", "completed", "failed", "cancelled"}
  PROVE  Marked(f, status) \in [Floors -> RunRow]
  BY DEF Marked, RunRow

-----------------------------------------------------------------------------
(* Type correctness, one variable at a time.                               *)

TurnOK == turn \in Turn /\ (At("idle") \/ turn.floor \in Floors \ {turn.source})

LEMMA NoTurnType == NoTurn \in Turn
  BY DEF NoTurn, Turn, Stages, AllKinds

(* The three requests                                                      *)
LEMMA RequestType == TypeOK /\ Request => TypeOK'
<1> SUFFICES ASSUME TypeOK, Request PROVE TypeOK'
  OBVIOUS
<1> PICK f \in Floors : Respond(f) \/ RetryFloor(f) \/ \E s \in Floors : Regenerate(f, s)
  BY DEF Request
<1>1. ASSUME NEW kind \in AllKinds, NEW s \in Floors \cup {None}, s # f, Begin(kind, f, s)
      PROVE  TurnOK' /\ turns' \in Nat
  <2>1. output[f].shown \in Nat
    BY DEF TypeOK
  <2>2. turn' = [at |-> "created", kind |-> kind, floor |-> f, source |-> s,
                 page |-> output[f].shown, id |-> 0, attempt |-> 0, round |-> 0, how |-> "failed"]
    BY <1>1 DEF Begin, NoTurn
  <2>3. turn' \in Turn
    BY <2>1, <2>2 DEF Turn, Stages
  <2>4. turns' \in Nat
    BY <1>1 DEF Begin, TypeOK
  <2> QED  BY <1>1, <2>2, <2>3, <2>4 DEF TurnOK
<1>2. ASSUME NEW n \in Nat
      PROVE  [state |-> "draft", no |-> n, live |-> TRUE, by |-> None] \in FloorRow
  BY DEF FloorRow, States
<1>3. CASE Respond(f)
  <2>1. PICK n \in (0 - 1) .. MaxTurns :
          /\ IsNextFloorNo(n)
          /\ floor' = [floor EXCEPT ![f] = [state |-> "draft", no |-> n, live |-> TRUE,
                                            by |-> None]]
    BY <1>3 DEF Respond
  <2>2. n \in Nat
    <3>1. CASE n = 0
      BY <3>1
    <3>2. CASE n # 0
      <4>1. PICK g \in Floors : floor[g].no = n - 1
        BY <2>1, <3>2 DEF IsNextFloorNo
      <4>2. floor[g].no \in Nat
        BY DEF TypeOK, FloorRow
      <4>3. n \in Int
        BY <2>1, TurnAssumption
      <4> QED  BY <4>1, <4>2, <4>3
    <3> QED  BY <3>1, <3>2
  <2>3. floor' \in [Floors -> FloorRow]
    BY <1>2, <2>1, <2>2 DEF TypeOK
  <2>4. TurnOK' /\ turns' \in Nat
    BY <1>1, <1>3, TurnAssumption DEF Respond, AllKinds
  <2> QED  BY <1>3, <2>3, <2>4 DEF Respond, Begin, Wrote, TypeOK, TurnOK
<1>4. CASE RetryFloor(f)
  <2>1. TurnOK' /\ turns' \in Nat
    BY <1>1, <1>4, TurnAssumption DEF RetryFloor, AllKinds
  <2> QED  BY <1>4, <2>1 DEF RetryFloor, Begin, TypeOK, TurnOK
<1>5. ASSUME NEW s \in Floors, Regenerate(f, s) PROVE TypeOK'
  <2>1. s # f
    BY <1>5 DEF Regenerate, IsRegenerationTarget
  <2>2. floor' \in [Floors -> FloorRow]
    <3>1. [state |-> "draft", no |-> floor[s].no, live |-> TRUE, by |-> None] \in FloorRow
      BY <1>2 DEF TypeOK, FloorRow
    <3>2. [floor[s] EXCEPT !.live = FALSE, !.by = None] \in FloorRow
      <4>1. floor[s] \in FloorRow
        BY DEF TypeOK
      <4> QED  BY <4>1 DEF FloorRow
    <3>3. floor' = [floor EXCEPT
                      ![f] = [state |-> "draft", no |-> floor[s].no, live |-> TRUE, by |-> None],
                      ![s] = [floor[s] EXCEPT !.live = FALSE, !.by = None]]
      BY <1>5, <2>1 DEF Regenerate, TypeOK, FloorRow
    <3> QED  BY <3>1, <3>2, <3>3 DEF TypeOK
  <2>3. TurnOK' /\ turns' \in Nat
    BY <1>1, <1>5, <2>1 DEF Regenerate, AllKinds
  <2> QED  BY <1>5, <2>2, <2>3 DEF Regenerate, Begin, Wrote, TypeOK, TurnOK
<1> QED  BY <1>3, <1>4, <1>5

-----------------------------------------------------------------------------
(* The steps of a turn                                                     *)
LEMMA StepType == TypeOK /\ Step => TypeOK'
<1> SUFFICES ASSUME TypeOK, Step PROVE TypeOK'
  OBVIOUS
<1>0. TurnOK /\ (~At("idle") => turn.floor \in Floors /\ turn.source \in Floors \cup {None}
                                /\ turn.source # turn.floor)
  BY DEF TypeOK, TurnOK, Turn
<1>1. ASSUME ~At("idle"), NEW stage \in Stages, turn' = [turn EXCEPT !.at = stage] PROVE TurnOK'
  BY <1>0, <1>1 DEF TurnOK, Turn, At
<1>2. ASSUME turn' = NoTurn PROVE TurnOK'
  BY <1>2, NoTurnType DEF TurnOK, At, NoTurn
<1>3. CASE InitializeRun
  <2>1. run' \in [Floors -> RunRow]
    <3>1. [status |-> "running", kind |-> turn.kind, id |-> turns, attempt |-> 1,
           phase |-> "preparing"] \in RunRow
      BY DEF TypeOK, Turn, RunRow
    <3> QED  BY <1>3, <3>1 DEF InitializeRun, TypeOK
  <2> QED  BY <1>1, <1>3, <2>1 DEF InitializeRun, TypeOK, TurnOK, Wrote, At, Stages
<1>4. CASE ResolveAttempt
  <2>1. run[turn.floor].id \in Nat /\ run[turn.floor].attempt \in Nat
    BY <1>0, <1>4 DEF ResolveAttempt, At, TypeOK, RunRow
  <2>2. TurnOK'
    BY <1>0, <1>4, <2>1 DEF ResolveAttempt, TurnOK, Turn, At, Stages
  <2> QED  BY <1>4, <2>2 DEF ResolveAttempt, TypeOK, TurnOK, Wrote
<1>5. CASE PreparationFails
  BY <1>1, <1>5 DEF PreparationFails, TypeOK, TurnOK, data, At, Stages
<1>6. CASE EnsureGenerating
  <2>1. floor' \in [Floors -> FloorRow]
    <3>1. floor[turn.floor] \in FloorRow
      BY <1>0, <1>6 DEF EnsureGenerating, At, TypeOK
    <3>2. [floor[turn.floor] EXCEPT !.state = "generating"] \in FloorRow
      BY <3>1 DEF FloorRow, States
    <3>3. floor' = [floor EXCEPT ![turn.floor] = [floor[turn.floor] EXCEPT !.state = "generating"]]
      BY <1>6 DEF EnsureGenerating
    <3> QED  BY <3>2, <3>3 DEF TypeOK
  <2> QED  BY <1>1, <1>6, <2>1 DEF EnsureGenerating, TypeOK, TurnOK, Wrote, At, Stages
<1>7. CASE Generate
  <2>1. turn.round \in Nat /\ ~At("idle")
    BY <1>7 DEF Generate, At, TypeOK, Turn
  <2>2. run' \in [Floors -> RunRow]
    <3>1. run[turn.floor] \in RunRow
      BY <1>0, <2>1 DEF TypeOK
    <3>2. [run[turn.floor] EXCEPT !.phase = "generating", !.attempt = turn.round + 1] \in RunRow
      <4>1. turn.round + 1 \in Nat
        BY <2>1
      <4>2. ASSUME NEW n \in Nat
            PROVE  [run[turn.floor] EXCEPT !.phase = "generating", !.attempt = n] \in RunRow
        BY <3>1 DEF RunRow
      <4> QED  BY <4>1, <4>2
    <3>3. run' = [run EXCEPT ![turn.floor] =
                    [run[turn.floor] EXCEPT !.phase = "generating", !.attempt = turn.round + 1]]
      BY <1>0, <1>7, <2>1, <3>1 DEF Generate, TypeOK, RunRow
    <3> QED  BY <3>2, <3>3 DEF TypeOK
  <2>3. turn' = [turn EXCEPT !.at = "generating", !.round = turn.round + 1]
    BY <1>7 DEF Generate
  <2>4. TurnOK'
    <3>1. turn.round + 1 \in Nat
      BY <2>1
    <3>2. turn' \in Turn
      BY <2>3, <3>1 DEF TypeOK, Turn, Stages
    <3>3. turn'.floor = turn.floor /\ turn'.source = turn.source
      BY <2>3 DEF TypeOK, Turn
    <3> QED  BY <1>0, <2>1, <3>2, <3>3 DEF TurnOK
  <2> QED  BY <1>7, <2>2, <2>4 DEF Generate, TypeOK, TurnOK, Wrote
<1>8. CASE CandidateAccepted
  BY <1>1, <1>8 DEF CandidateAccepted, TypeOK, TurnOK, Wrote, At, Stages
<1>9. ASSUME NEW how \in {"failed", "cancelled"}, ExecutionFails(how) PROVE TypeOK'
  <2>1. TurnOK'
    BY <1>0, <1>9 DEF ExecutionFails, TurnOK, Turn, At, Stages
  <2>2. floor' \in [Floors -> FloorRow]
    BY <1>0, <1>9, FailedFloors DEF ExecutionFails, TypeOK, At
  <2> QED  BY <1>9, <2>1, <2>2 DEF ExecutionFails, TypeOK, TurnOK, Wrote
<1>10. ASSUME ~At("idle"), FailRunAndFloor PROVE TypeOK'
  <2>1. floor' \in [Floors -> FloorRow]
    BY <1>0, <1>10, FailedFloors DEF FailRunAndFloor, TypeOK
  <2>2. run' \in [Floors -> RunRow]
    BY <1>0, <1>10, MarkedRuns DEF FailRunAndFloor, TypeOK
  <2>3. TurnOK'
    BY <1>1, <1>10 DEF FailRunAndFloor, Stages
  <2> QED  BY <1>10, <2>1, <2>2, <2>3 DEF FailRunAndFloor, TypeOK, TurnOK, Wrote
<1>11. CASE ExecutionErrorCaught
  <2>1. CASE FailRunAndFloor
    BY <1>10, <1>11, <2>1 DEF ExecutionErrorCaught, At
  <2>2. CASE turn' = [turn EXCEPT !.at = "failing"] /\ UNCHANGED <<data, turns, crashes>>
    BY <1>1, <1>11, <2>2 DEF ExecutionErrorCaught, TypeOK, TurnOK, data, At, Stages
  <2> QED  BY <1>11, <2>1, <2>2 DEF ExecutionErrorCaught
<1>12. CASE GateBlocks
  <2>1. floor' \in [Floors -> FloorRow]
    BY <1>0, <1>12, RestoredFloors DEF GateBlocks, At, TypeOK
  <2> QED  BY <1>1, <1>12, <2>1 DEF GateBlocks, TypeOK, TurnOK, Wrote, At, Stages
<1>13. CASE CommitFails
  BY <1>10, <1>13 DEF CommitFails, At
<1>14. CASE Commit
  <2> DEFINE f == turn.floor
             s == turn.source
             done == [floor EXCEPT ![f].state = "committed"]
  <2>1. f \in Floors /\ s \in Floors \cup {None}
    BY <1>0, <1>14 DEF Commit, At
  <2>2. done \in [Floors -> FloorRow]
    BY <2>1 DEF TypeOK, FloorRow, States
  <2>3. s # None => [done EXCEPT ![s].live = FALSE, ![s].by = f] \in [Floors -> FloorRow]
    <3> HIDE DEF done
    <3> QED  BY <2>1, <2>2 DEF FloorRow
  <2>4. floor' \in [Floors -> FloorRow]
    BY <1>14, <2>2, <2>3 DEF Commit
  <2>5. output' \in [Floors -> [pages : Nat, shown : Nat]]
    BY <1>14, <2>1 DEF Commit, TypeOK
  <2>6. answered' \subseteq Nat
    BY <1>14, <2>1 DEF Commit, TypeOK, FloorRow
  <2>7. TurnOK'
    BY <1>1, <1>14 DEF Commit, At, Stages
  <2> QED  BY <1>14, <2>4, <2>5, <2>6, <2>7 DEF Commit, TypeOK, TurnOK, Wrote
<1>15. CASE CommitStale
  BY <1>1, <1>15 DEF CommitStale, TypeOK, TurnOK, data, At, Stages
<1>16. CASE Complete
  <2>1. run' \in [Floors -> RunRow]
    BY <1>0, <1>16, MarkedRuns DEF Complete, At, TypeOK
  <2> QED  BY <1>2, <1>16, <2>1 DEF Complete, TypeOK, TurnOK, Wrote
<1>17. CASE GiveUp
  BY <1>2, <1>17 DEF GiveUp, TypeOK, TurnOK, data
<1>18. CASE NoteOutcome
  <2>1. run' \in [Floors -> RunRow]
    BY <1>0, <1>18, MarkedRuns DEF NoteOutcome, At, TypeOK, Turn
  <2> QED  BY <1>1, <1>18, <2>1 DEF NoteOutcome, TypeOK, TurnOK, Wrote, At, Stages
<1>19. CASE Unwind
  <2>1. Failed(floor, turn.floor) \in [Floors -> FloorRow]
    BY <1>0, <1>19, FailedFloors DEF Unwind, At, TypeOK
  <2>2. Restored(Failed(floor, turn.floor), turn.floor, turn.source) \in [Floors -> FloorRow]
    BY <1>0, <1>19, <2>1, RestoredFloors DEF Unwind, At
  <2>3. floor' \in [Floors -> FloorRow]
    BY <1>0, <1>19, <2>2, RecommittedFloors DEF Unwind, Unwound, At, TypeOK
  <2> QED  BY <1>2, <1>19, <2>3 DEF Unwind, TypeOK, TurnOK, Wrote
<1> QED
  BY <1>3, <1>4, <1>5, <1>6, <1>7, <1>8, <1>9, <1>11, <1>12, <1>13, <1>14, <1>15, <1>16,
     <1>17, <1>18, <1>19 DEF Step

(* What happens beside a turn                                              *)
LEMMA BesideType ==
  ASSUME TypeOK, NEW f \in Floors,
         Silence(f) \/ Poll(f) \/ \E v \in 1 .. MaxPages : ActivatePage(f, v)
  PROVE  TypeOK'
<1>1. CASE Silence(f)
  BY <1>1 DEF Silence, TypeOK, At
<1>2. CASE Poll(f)
  <2>1. PollOf(f) \in {"completed", "failed", "running"}
    BY DEF PollOf
  <2>2. run' \in [Floors -> RunRow]
    BY <1>2, <2>1, MarkedRuns DEF Poll, TypeOK
  <2>3. floor' \in [Floors -> FloorRow]
    BY <1>2, FailedFloors DEF Poll, TypeOK
  <2> QED  BY <1>2, <2>2, <2>3 DEF Poll, TypeOK, Wrote, At
<1>3. ASSUME NEW v \in 1 .. MaxPages, ActivatePage(f, v) PROVE TypeOK'
  BY <1>3, TurnAssumption DEF ActivatePage, TypeOK, At
<1> QED  BY <1>1, <1>2, <1>3

(* Every state is well typed; in particular a turn that runs has a floor   *)
(* other than its source, and floor numbers start from 0 (chat-service.ts, *)
(* target-resolver.ts).                                                    *)
THEOREM TypeCorrect == Spec => []TypeOK
<1>1. Init => TypeOK
  BY NoTurnType DEF Init, TypeOK, At, NoTurn, FloorRow, RunRow, States, AllKinds
<1>2. TypeOK /\ [Next]_vars => TypeOK'
  <2> SUFFICES ASSUME TypeOK, [Next]_vars PROVE TypeOK'
    OBVIOUS
  <2>1. CASE Crash
    BY <2>1, NoTurnType DEF Crash, TypeOK, data, At, NoTurn
  <2>2. CASE UNCHANGED vars
    BY <2>2 DEF vars, TypeOK, At
  <2> QED  BY <2>1, <2>2, RequestType, StepType, BesideType DEF Next
<1> QED  BY <1>1, <1>2, PTL DEF Spec

-----------------------------------------------------------------------------
(* The floor of a current attempt                                          *)

(* The rows a step of the turn or a poll can touch are those of one floor; *)
(* GeneratingOrEnded is about the floor of the turn.                       *)
LEMMA GeneratingStep == TypeOK /\ GeneratingOrEnded /\ [Next]_vars => GeneratingOrEnded'
<1> SUFFICES ASSUME TypeOK, GeneratingOrEnded, [Next]_vars PROVE GeneratingOrEnded'
  OBVIOUS
<1>0. ~At("idle") => turn.floor \in Floors
  BY DEF TypeOK
<1>1. CASE Request
  <2>1. PICK kind \in AllKinds, f \in Floors, s \in Floors \cup {None} : Begin(kind, f, s)
    BY <1>1 DEF Request, Respond, RetryFloor, Regenerate, AllKinds
  <2>2. turn'.at = "created"
    BY <2>1 DEF Begin, NoTurn
  <2> QED  BY <2>2 DEF GeneratingOrEnded
<1>2. CASE EnsureGenerating
  BY <1>0, <1>2 DEF EnsureGenerating, GeneratingOrEnded, TypeOK, FloorRow, Turn, At
<1>3. CASE Generate
  <2>1. run'[turn.floor].status = run[turn.floor].status
    BY <1>0, <1>3 DEF Generate, TypeOK, RunRow, At
  <2>2. turn'.floor = turn.floor /\ floor' = floor
    BY <1>3 DEF Generate, TypeOK, Turn
  <2> QED  BY <1>3, <2>1, <2>2 DEF Generate, GeneratingOrEnded, At
<1>4. CASE CandidateAccepted
  BY <1>4 DEF CandidateAccepted, GeneratingOrEnded, TypeOK, Turn, At
<1>5. CASE Step /\ ~EnsureGenerating /\ ~Generate /\ ~CandidateAccepted
  <2>1. CASE Complete \/ GiveUp \/ Unwind
    BY <2>1 DEF Complete, GiveUp, Unwind, NoTurn, GeneratingOrEnded
  <2>2. CASE InitializeRun \/ ResolveAttempt \/ PreparationFails \/ GateBlocks \/ CommitFails
             \/ CommitStale \/ NoteOutcome \/ Commit
    <3>1. turn'.at \in {"preparing", "prepared", "failing", "stale", "noted", "committed"}
      BY <2>2 DEF InitializeRun, ResolveAttempt, PreparationFails, GateBlocks, CommitFails,
         FailRunAndFloor, CommitStale, NoteOutcome, Commit, TypeOK, Turn
    <3> QED  BY <3>1 DEF GeneratingOrEnded
  <2>3. CASE ExecutionFails("failed") \/ ExecutionFails("cancelled") \/ ExecutionErrorCaught
    <3>1. turn'.at \in {"thrown", "failing"}
      BY <2>3 DEF ExecutionFails, ExecutionErrorCaught, FailRunAndFloor, TypeOK, Turn
    <3> QED  BY <3>1 DEF GeneratingOrEnded
  <2> QED  BY <1>5, <2>1, <2>2, <2>3 DEF Step
<1>6. ASSUME NEW f \in Floors, Poll(f) PROVE GeneratingOrEnded'
  <2>1. run'[f].status # "running" /\ \A g \in Floors \ {f} : run'[g] = run[g]
    BY <1>6 DEF Poll, Marked, PollOf, TypeOK, RunRow
  <2>2. \A g \in Floors \ {f} : floor'[g] = floor[g]
    BY <1>6 DEF Poll, Failed, TypeOK
  <2> QED  BY <1>0, <1>6, <2>1, <2>2 DEF Poll, GeneratingOrEnded, At
<1>7. ASSUME NEW f \in Floors, Silence(f) \/ \E v \in 1 .. MaxPages : ActivatePage(f, v)
      PROVE  GeneratingOrEnded'
  BY <1>7 DEF Silence, ActivatePage, GeneratingOrEnded
<1>8. CASE Crash \/ UNCHANGED vars
  BY <1>8 DEF Crash, NoTurn, GeneratingOrEnded, vars
<1> QED  BY <1>1, <1>2, <1>3, <1>4, <1>5, <1>6, <1>7, <1>8 DEF Next

(* An attempt that is still current when it is committed finds its floor   *)
(* in a state it may commit, however late, slow or interrupted the turn    *)
(* was and whoever polled it: the checks of turn-commit-service.ts never   *)
(* raise FloorStateConflictError after the attempt check passed.           *)
THEOREM CurrentAttemptsCommit == Spec => []CurrentMeansCommittable
<1>1. Init => GeneratingOrEnded
  BY DEF Init, NoTurn, GeneratingOrEnded
<1>2. GeneratingOrEnded => CurrentMeansCommittable
  BY DEF GeneratingOrEnded, CurrentMeansCommittable, AttemptCurrent, CanCommit, At
<1> QED  BY <1>1, <1>2, GeneratingStep, TypeCorrect, PTL DEF Spec

-----------------------------------------------------------------------------
(* One live floor per number                                               *)

(* A step that does not touch the number or the visibility of a floor, nor *)
(* the floor and the source of the turn, keeps both parts.                 *)
Numbered == OneLiveFloorPerNumber /\ SourceShares

LEMMA QuietStep ==
  ASSUME TypeOK, Numbered,
         \A g \in Floors : /\ floor'[g].no = floor[g].no /\ floor'[g].live = floor[g].live
                           /\ floor'[g].by = floor[g].by,
         \/ turn' = NoTurn
         \/ /\ turn'.floor = turn.floor /\ turn'.source = turn.source
            /\ turn.at \notin {"idle", "committed"}
         \/ turn' = turn
  PROVE  Numbered'
<1>1. OneLiveFloorPerNumber'
  BY DEF Numbered, OneLiveFloorPerNumber, Live
<1>2. SourceShares'
  <2>1. CASE turn' = NoTurn
    BY <2>1 DEF SourceShares, NoTurn
  <2>2. CASE turn' # NoTurn
    BY <2>2 DEF Numbered, SourceShares, Live, TypeOK, Turn, At
  <2> QED  BY <2>1, <2>2
<1> QED  BY <1>1, <1>2 DEF Numbered

(* The restoration of the source after a failure: at any time one of the   *)
(* two floors that share the number is live, never both.                   *)
LEMMA RestoringStep ==
  ASSUME TypeOK, Numbered, turn.at \notin {"idle", "committed"},
         NEW fl \in [Floors -> FloorRow],
         \A g \in Floors : /\ fl[g].no = floor[g].no /\ fl[g].live = floor[g].live
                           /\ fl[g].by = floor[g].by,
         floor' = Restored(fl, turn.floor, turn.source)
  PROVE  /\ OneLiveFloorPerNumber'
         /\ turn'.at = "failing" /\ turn'.floor = turn.floor /\ turn'.source = turn.source
              => SourceShares'
<1>1. turn.floor \in Floors /\ turn.source \in Floors \cup {None} /\ turn.source # turn.floor
  BY DEF TypeOK, At, Turn
<1>2. CASE turn.source = None
  BY <1>2 DEF Restored, Numbered, OneLiveFloorPerNumber, SourceShares, Live
<1>3. CASE turn.source # None
  <2>1. \A g \in Floors : /\ floor'[g].no = floor[g].no
                          /\ floor'[g].live => floor[g].live \/ g = turn.source
    BY <1>1, RestoredFloors
  <2>2. ~floor'[turn.floor].live
    BY <1>1, <1>3, RestoredFloors
  <2>3. \A g \in Floors \ {turn.source, turn.floor} :
          floor[g].live => floor[g].no # floor[turn.source].no
    BY <1>1, <1>3 DEF Numbered, OneLiveFloorPerNumber, SourceShares, Live
  <2>4. floor'[turn.source].live /\ floor'[turn.source].by = None
    BY <1>1, <1>3, RestoredFloors DEF Numbered, SourceShares
  <2>5. ASSUME NEW f \in Floors, NEW g \in Floors, floor'[f].live, floor'[g].live,
               floor'[f].no = floor'[g].no
        PROVE  f = g
    <3>1. f # turn.floor /\ g # turn.floor /\ floor[f].no = floor[g].no
      BY <2>1, <2>2, <2>5
    <3>2. CASE f = turn.source \/ g = turn.source
      BY <2>1, <2>3, <2>5, <3>1, <3>2
    <3>3. CASE f # turn.source /\ g # turn.source
      BY <2>1, <2>5, <3>1, <3>3 DEF Numbered, OneLiveFloorPerNumber, Live
    <3> QED  BY <3>2, <3>3
  <2>6. OneLiveFloorPerNumber'
    BY <2>5 DEF OneLiveFloorPerNumber, Live
  <2> QED  BY <1>1, <1>3, <2>1, <2>4, <2>6 DEF Numbered, SourceShares, Live
<1> QED  BY <1>2, <1>3

(* The three requests: only here does a floor appear in the live window.   *)
LEMMA RequestNumbers == TypeOK /\ Numbered /\ Request => Numbered'
<1> SUFFICES ASSUME TypeOK, Numbered, Request PROVE Numbered'
  OBVIOUS
<1> PICK f \in Floors : Respond(f) \/ RetryFloor(f) \/ \E s \in Floors : Regenerate(f, s)
  BY DEF Request
<1>1. CASE Respond(f)
  <2>1. PICK n \in (0 - 1) .. MaxTurns :
          /\ IsNextFloorNo(n)
          /\ floor' = [floor EXCEPT ![f] = [state |-> "draft", no |-> n, live |-> TRUE,
                                            by |-> None]]
    BY <1>1 DEF Respond
  <2>2. \A g \in Floors \ {f} : floor[g].live => floor[g].no # n
    <3>1. n \in Int /\ \A g \in Floors : floor[g].no \in Nat
      BY <2>1, TurnAssumption DEF TypeOK, FloorRow
    <3> QED  BY <2>1, <3>1 DEF IsNextFloorNo, Live
  <2>3. floor'[f].no = n /\ \A g \in Floors \ {f} : floor'[g] = floor[g]
    BY <2>1 DEF TypeOK
  <2>4. OneLiveFloorPerNumber'
    BY <2>2, <2>3 DEF Numbered, OneLiveFloorPerNumber, Live
  <2>5. turn'.source = None
    BY <1>1 DEF Respond, Begin, NoTurn
  <2> QED  BY <2>4, <2>5 DEF Numbered, SourceShares
<1>2. CASE RetryFloor(f)
  <2>1. turn'.source = None /\ floor' = floor
    BY <1>2 DEF RetryFloor, Begin, NoTurn
  <2> QED  BY <2>1 DEF Numbered, OneLiveFloorPerNumber, SourceShares, Live
<1>3. ASSUME NEW s \in Floors, Regenerate(f, s) PROVE Numbered'
  <2>1. s # f /\ Live(s)
    BY <1>3 DEF Regenerate, IsRegenerationTarget
  <2>2. /\ floor'[f].no = floor[s].no /\ floor'[f].live
        /\ floor'[s].no = floor[s].no /\ ~floor'[s].live /\ floor'[s].by = None
        /\ \A g \in Floors \ {f, s} : floor'[g] = floor[g]
    BY <1>3, <2>1 DEF Regenerate, TypeOK, FloorRow
  <2>3. OneLiveFloorPerNumber'
    BY <2>1, <2>2 DEF Numbered, OneLiveFloorPerNumber, Live
  <2>4. turn'.source = s /\ turn'.floor = f
    BY <1>3 DEF Regenerate, Begin, NoTurn
  <2> QED  BY <2>1, <2>2, <2>3, <2>4 DEF Numbered, SourceShares, Live
<1> QED  BY <1>1, <1>2, <1>3

(* The other steps: a commit hides the source, a restoration swaps the two *)
(* floors, and nothing else touches the live window.                       *)
LEMMA StepNumbers == TypeOK /\ Numbered /\ Step => Numbered'
<1> SUFFICES ASSUME TypeOK, Numbered, Step PROVE Numbered'
  OBVIOUS
<1>0. ~At("idle") => turn.floor \in Floors /\ turn.source \in Floors \cup {None}
                      /\ turn.source # turn.floor
  BY DEF TypeOK, Turn
<1>1. CASE InitializeRun \/ ResolveAttempt \/ PreparationFails \/ CandidateAccepted
           \/ CommitStale \/ NoteOutcome
  BY <1>1, QuietStep DEF InitializeRun, ResolveAttempt, PreparationFails, CandidateAccepted,
     CommitStale, NoteOutcome, data, TypeOK, Turn, At
<1>2. CASE Generate
  BY <1>2, QuietStep DEF Generate, TypeOK, Turn, At
<1>3. CASE Complete \/ GiveUp
  BY <1>3, QuietStep DEF Complete, GiveUp, data
<1>4. CASE EnsureGenerating
  <2>1. \A g \in Floors : /\ floor'[g].no = floor[g].no /\ floor'[g].live = floor[g].live
                          /\ floor'[g].by = floor[g].by
    BY <1>4 DEF EnsureGenerating, TypeOK, FloorRow
  <2> QED  BY <1>4, <2>1, QuietStep DEF EnsureGenerating, TypeOK, Turn, At
<1>5. ASSUME ~At("idle"), ~At("committed"), floor' = Failed(floor, turn.floor),
             turn'.floor = turn.floor, turn'.source = turn.source
      PROVE  Numbered'
  BY <1>0, <1>5, FailedFloors, QuietStep DEF TypeOK, At
<1>6. ASSUME NEW how \in {"failed", "cancelled"}, ExecutionFails(how) PROVE Numbered'
  BY <1>5, <1>6 DEF ExecutionFails, TypeOK, Turn, At
<1>7. CASE ExecutionErrorCaught
  <2>1. CASE FailRunAndFloor
    BY <1>5, <1>7, <2>1 DEF ExecutionErrorCaught, FailRunAndFloor, TypeOK, Turn, At
  <2>2. CASE turn' = [turn EXCEPT !.at = "failing"] /\ floor' = floor
    BY <1>7, <2>2, QuietStep DEF ExecutionErrorCaught, TypeOK, Turn, At
  <2> QED  BY <1>7, <2>1, <2>2 DEF ExecutionErrorCaught, data
<1>8. CASE CommitFails
  BY <1>5, <1>8 DEF CommitFails, FailRunAndFloor, TypeOK, Turn, At
<1>9. CASE GateBlocks
  BY <1>9, RestoringStep DEF GateBlocks, Numbered, TypeOK, Turn, At
<1>10. CASE Commit
  <2>1. \A g \in Floors : floor'[g].no = floor[g].no /\ (floor'[g].live => floor[g].live)
    <3> DEFINE done == [floor EXCEPT ![turn.floor].state = "committed"]
    <3>1. done \in [Floors -> FloorRow]
          /\ \A g \in Floors : done[g].no = floor[g].no /\ done[g].live = floor[g].live
      BY <1>0, <1>10 DEF Commit, TypeOK, FloorRow, States, At
    <3>2. floor' = IF turn.source = None THEN done
                   ELSE [done EXCEPT ![turn.source].live = FALSE, ![turn.source].by = turn.floor]
      BY <1>10 DEF Commit
    <3> HIDE DEF done
    <3>3. CASE turn.source = None
      BY <3>1, <3>2, <3>3
    <3>4. CASE turn.source # None
      <4>1. turn.source \in Floors
        BY <1>0, <1>10, <3>4 DEF Commit, At
      <4> QED  BY <3>1, <3>2, <3>4, <4>1 DEF FloorRow
    <3> QED  BY <3>3, <3>4
  <2>2. turn'.at = "committed"
    BY <1>10 DEF Commit, TypeOK, Turn
  <2> QED  BY <2>1, <2>2 DEF Numbered, OneLiveFloorPerNumber, SourceShares, Live
<1>11. CASE Unwind
  <2>1. turn' = NoTurn /\ ~At("idle") /\ ~At("committed")
    BY <1>11 DEF Unwind, At
  <2>2. CASE turn.kind = "retry"
    <3>1. floor' = Recommitted(floor, turn.floor)
      BY <1>11, <2>2 DEF Unwind, Unwound
    <3>2. \A g \in Floors : floor'[g].no = floor[g].no /\ floor'[g].live = floor[g].live
      BY <1>0, <2>1, <3>1, RecommittedFloors DEF TypeOK
    <3>3. OneLiveFloorPerNumber'
      BY <3>2 DEF Numbered, OneLiveFloorPerNumber, Live
    <3> QED  BY <2>1, <3>3 DEF Numbered, SourceShares, NoTurn
  <2>3. CASE turn.kind # "retry"
    <3>1. floor' = Restored(Failed(floor, turn.floor), turn.floor, turn.source)
      BY <1>11, <2>3 DEF Unwind, Unwound
    <3>2. OneLiveFloorPerNumber'
      BY <1>0, <2>1, <3>1, FailedFloors, RestoringStep DEF TypeOK, At
    <3> QED  BY <2>1, <3>2 DEF Numbered, SourceShares, NoTurn
  <2> QED  BY <2>2, <2>3
<1> QED  BY <1>1, <1>2, <1>3, <1>4, <1>6, <1>7, <1>8, <1>9, <1>10, <1>11 DEF Step

LEMMA NumberedInvariant == Spec => []Numbered
<1>1. Init => Numbered
  BY DEF Init, NoTurn, Numbered, SourceShares, OneLiveFloorPerNumber, Live
<1>2. TypeOK /\ Numbered /\ [Next]_vars => Numbered'
  <2> SUFFICES ASSUME TypeOK, Numbered, [Next]_vars PROVE Numbered'
    OBVIOUS
  <2>1. CASE Crash \/ UNCHANGED vars
    BY <2>1, QuietStep DEF Crash, data, vars
  <2>2. ASSUME NEW f \in Floors, Silence(f) \/ \E v \in 1 .. MaxPages : ActivatePage(f, v)
        PROVE  Numbered'
    BY <2>2, QuietStep DEF Silence, ActivatePage
  <2>3. ASSUME NEW f \in Floors, Poll(f) PROVE Numbered'
    BY <2>3, FailedFloors, QuietStep DEF Poll, TypeOK
  <2> QED  BY <2>1, <2>2, <2>3, RequestNumbers, StepNumbers DEF Next
<1> QED  BY <1>1, <1>2, TypeCorrect, PTL DEF Spec

(* No floor number of a branch ever has two live floors, so the unique     *)
(* index floor_session_no_branch_live_uq refuses no write of a turn or of  *)
(* a failure handler, even after crashes and refused commits               *)
(* (turn-run-tracker.ts, restoreSupersededSourceFloorBestEffort).          *)
THEOREM LiveNumbersUnique == Spec => []OneLiveFloorPerNumber
<1>1. Numbered => OneLiveFloorPerNumber
  BY DEF Numbered
<1> QED  BY <1>1, NumberedInvariant, PTL

=============================================================================
