----------------------- MODULE FloorTurnOutcomeProofs -----------------------
(* Proofs about what a turn leaves behind: the output versions of a floor, *)
(* the commit of an accepted turn, and the answers a branch keeps, for any *)
(* number of floors, turns and output versions.                            *)
EXTENDS FloorTurnProofs

(* No turn that could still commit                                         *)
Ended == {"idle", "committed"}

SameTurn == /\ turn'.floor = turn.floor /\ turn'.source = turn.source
            /\ turn'.kind = turn.kind /\ turn'.page = turn.page

-----------------------------------------------------------------------------
(* What the helpers do to the states of the floors.                        *)

(* Failing a floor is the only change of FloorStateMachine.fail.           *)
LEMMA FailedStates ==
  ASSUME NEW fl \in [Floors -> FloorRow], NEW f \in Floors
  PROVE  \A g \in Floors : \/ Failed(fl, f)[g] = fl[g]
                           \/ /\ g = f /\ Failed(fl, f)[g].state = "failed"
                              /\ fl[g].state \in {"draft", "generating"}
  BY DEF Failed, FloorRow

LEMMA RecommittedStates ==
  ASSUME NEW fl \in [Floors -> FloorRow], NEW f \in Floors
  PROVE  \A g \in Floors : \/ Recommitted(fl, f)[g] = fl[g]
                           \/ /\ g = f /\ Recommitted(fl, f)[g].state = "committed"
                              /\ fl[g].state = "generating"
  BY DEF Recommitted, FloorRow

(* The restoration of a source moves floors in and out of the live window, *)
(* never from one state to another, and only two of them.                  *)
LEMMA RestoredStates ==
  ASSUME NEW fl \in [Floors -> FloorRow], NEW f \in Floors, NEW s \in Floors \cup {None}, s # f
  PROVE  /\ \A g \in Floors : Restored(fl, f, s)[g].state = fl[g].state
         /\ \A g \in Floors \ {f, s} : Restored(fl, f, s)[g] = fl[g]
         /\ s = None => Restored(fl, f, s) = fl
  BY DEF Restored, FloorRow

(* A step of a turn keeps what the turn is about, or ends it.              *)
LEMMA TurnMoves ==
  ASSUME TypeOK, Step
  PROVE  turn' = NoTurn \/ (SameTurn /\ turn.at \notin Ended)
<1>1. CASE InitializeRun \/ ResolveAttempt \/ PreparationFails \/ EnsureGenerating \/ Generate
           \/ CandidateAccepted
  BY <1>1 DEF InitializeRun, ResolveAttempt, PreparationFails, EnsureGenerating, Generate,
     CandidateAccepted, TypeOK, Turn, At, SameTurn, Ended
<1>2. CASE ExecutionFails("failed") \/ ExecutionFails("cancelled") \/ ExecutionErrorCaught
           \/ GateBlocks \/ CommitFails
  BY <1>2 DEF ExecutionFails, ExecutionErrorCaught, FailRunAndFloor, GateBlocks, CommitFails,
     TypeOK, Turn, At, SameTurn, Ended
<1>3. CASE Commit \/ CommitStale \/ NoteOutcome
  BY <1>3 DEF Commit, CommitStale, NoteOutcome, TypeOK, Turn, At, SameTurn, Ended
<1>4. CASE Complete \/ GiveUp \/ Unwind
  BY <1>4 DEF Complete, GiveUp, Unwind
<1> QED  BY <1>1, <1>2, <1>3, <1>4 DEF Step

(* Short of the commit, a step of a turn touches no output and no number;  *)
(* no floor becomes absent, and the floor of a retry alone committed.      *)
KeepsOutputs ==
  /\ output' = output /\ answered' = answered
  /\ \A g \in Floors :
       /\ floor'[g].no = floor[g].no
       /\ floor'[g].state = "absent" => floor[g].state = "absent"
       /\ floor'[g].state = "committed" =>
            \/ floor[g].state = "committed"
            \/ g = turn.floor /\ turn.at \notin Ended /\ turn.kind = "retry"

LEMMA StatesMove ==
  ASSUME TypeOK, Step, ~Commit
  PROVE  KeepsOutputs
<1>0. ~At("idle") => turn.floor \in Floors /\ turn.source \in Floors \cup {None}
                      /\ turn.source # turn.floor
  BY DEF TypeOK, Turn
<1>1. CASE InitializeRun \/ ResolveAttempt \/ PreparationFails \/ Generate \/ CandidateAccepted
           \/ CommitStale \/ Complete \/ GiveUp \/ NoteOutcome
  BY <1>1 DEF InitializeRun, ResolveAttempt, PreparationFails, Generate, CandidateAccepted,
     CommitStale, Complete, GiveUp, NoteOutcome, data, KeepsOutputs
<1>2. CASE EnsureGenerating
  BY <1>2 DEF EnsureGenerating, TypeOK, FloorRow, KeepsOutputs
<1>3. ASSUME ~At("idle"), floor' = Failed(floor, turn.floor),
             output' = output, answered' = answered
      PROVE  KeepsOutputs
  <2>1. turn.floor \in Floors /\ floor \in [Floors -> FloorRow]
    BY <1>0, <1>3 DEF TypeOK
  <2>2. \A g \in Floors : \/ floor'[g] = floor[g]
                          \/ g = turn.floor /\ floor'[g].state = "failed"
    BY <1>3, <2>1, FailedStates
  <2>3. \A g \in Floors : floor'[g].no = floor[g].no
    BY <1>3, <2>1, FailedFloors
  <2> QED  BY <1>3, <2>2, <2>3 DEF KeepsOutputs
<1>4. CASE ExecutionFails("failed") \/ ExecutionFails("cancelled") \/ CommitFails
  BY <1>3, <1>4 DEF ExecutionFails, CommitFails, FailRunAndFloor, At
<1>5. CASE ExecutionErrorCaught
  <2>1. CASE FailRunAndFloor
    BY <1>3, <1>5, <2>1 DEF ExecutionErrorCaught, FailRunAndFloor, At
  <2>2. CASE UNCHANGED data
    BY <2>2 DEF data, KeepsOutputs
  <2> QED  BY <1>5, <2>1, <2>2 DEF ExecutionErrorCaught
<1>6. CASE GateBlocks
  BY <1>0, <1>6, RestoredStates, RestoredFloors DEF GateBlocks, At, KeepsOutputs, TypeOK
<1>7. CASE Unwind
  <2>1. turn.at = "noted" /\ output' = output /\ answered' = answered /\ floor' = Unwound(turn)
    BY <1>7 DEF Unwind, At
  <2>2. CASE turn.kind = "retry"
    <3>1. turn.floor \in Floors /\ floor \in [Floors -> FloorRow]
      BY <1>0, <2>1 DEF At, TypeOK
    <3>2. floor' = Recommitted(floor, turn.floor)
      BY <2>1, <2>2 DEF Unwound
    <3>3. \A g \in Floors : \/ floor'[g] = floor[g]
                            \/ g = turn.floor /\ floor'[g].state = "committed"
      BY <3>1, <3>2, RecommittedStates
    <3>4. \A g \in Floors : floor'[g].no = floor[g].no
      BY <3>1, <3>2, RecommittedFloors
    <3> QED  BY <2>1, <2>2, <3>3, <3>4 DEF KeepsOutputs, Ended
  <2>3. CASE turn.kind # "retry"
    <3>1. Failed(floor, turn.floor) \in [Floors -> FloorRow]
      BY <1>0, <2>1, FailedFloors DEF At, TypeOK
    <3>2. floor' = Restored(Failed(floor, turn.floor), turn.floor, turn.source)
      BY <2>1, <2>3 DEF Unwound
    <3>3. \A g \in Floors : /\ floor'[g].no = Failed(floor, turn.floor)[g].no
                            /\ floor'[g].state = Failed(floor, turn.floor)[g].state
      BY <1>0, <2>1, <3>1, <3>2, RestoredStates, RestoredFloors DEF At
    <3> QED  BY <1>0, <2>1, <3>3, FailedStates, FailedFloors DEF At, KeepsOutputs, TypeOK
  <2> QED  BY <2>2, <2>3
<1> QED  BY <1>1, <1>2, <1>4, <1>5, <1>6, <1>7 DEF Step

-----------------------------------------------------------------------------
(* Output versions.  A floor that has one shows one of them, a committed   *)
(* floor has one, and its number is among the answered.                    *)
OutputSound(f) ==
  /\ output[f].shown <= output[f].pages /\ (output[f].pages > 0 => output[f].shown > 0)
  /\ floor[f].state = "absent" => output[f].pages = 0
  /\ floor[f].state = "committed" => output[f].pages > 0
  /\ output[f].pages > 0 => floor[f].no \in answered

(* Until it commits, a turn works on a floor without an output, unless it  *)
(* is a retry, which has no source.                                        *)
TurnFresh ==
  turn.at \notin Ended =>
    /\ turn.kind = "retry" => turn.source = None /\ output[turn.floor].pages > 0
    /\ turn.kind # "retry" => output[turn.floor].pages = 0

OutputInv == TurnFresh /\ \A f \in Floors : OutputSound(f)

LEMMA QuietOutputs ==
  ASSUME TypeOK, OutputInv, KeepsOutputs,
         turn' = NoTurn \/ turn' = turn \/ (SameTurn /\ turn.at \notin Ended)
  PROVE  OutputInv'
<1>1. ASSUME NEW f \in Floors PROVE OutputSound(f)'
  BY DEF KeepsOutputs, OutputInv, OutputSound, TurnFresh
<1>2. TurnFresh'
  <2>1. CASE turn' = NoTurn
    BY <2>1 DEF NoTurn, TurnFresh, Ended
  <2>2. CASE turn' # NoTurn
    BY <2>2 DEF KeepsOutputs, OutputInv, TurnFresh, SameTurn, Ended
  <2> QED  BY <2>1, <2>2
<1> QED  BY <1>1, <1>2 DEF OutputInv

(* A request begins on an absent floor, or on a committed one to retry it. *)
LEMMA RequestOutputs == TypeOK /\ OutputInv /\ Request => OutputInv'
<1> SUFFICES ASSUME TypeOK, OutputInv, Request PROVE OutputInv'
  OBVIOUS
<1> PICK f \in Floors : Respond(f) \/ RetryFloor(f) \/ \E s \in Floors : Regenerate(f, s)
  BY DEF Request
<1>1. output' = output /\ answered' = answered
  BY DEF Respond, RetryFloor, Regenerate, Begin
<1>2. CASE RetryFloor(f)
  <2>1. floor' = floor /\ turn'.kind = "retry" /\ turn'.source = None /\ turn'.floor = f
    BY <1>2 DEF RetryFloor, Begin, NoTurn
  <2>2. output[f].pages > 0
    BY <1>2 DEF RetryFloor, OutputInv, OutputSound
  <2> QED  BY <1>1, <2>1, <2>2 DEF OutputInv, OutputSound, TurnFresh
<1>3. ASSUME floor[f].state = "absent", floor'[f].state = "draft",
             \A g \in Floors \ {f} : /\ floor'[g].state = floor[g].state
                                     /\ floor'[g].no = floor[g].no,
             turn'.floor = f, turn'.kind # "retry"
      PROVE  OutputInv'
  <2>1. output[f].pages = 0
    BY <1>3 DEF OutputInv, OutputSound
  <2>2. ASSUME NEW g \in Floors PROVE OutputSound(g)'
    BY <1>1, <1>3, <2>1, <2>2 DEF OutputInv, OutputSound
  <2> QED  BY <1>1, <1>3, <2>1, <2>2 DEF OutputInv, TurnFresh
<1>4. CASE Respond(f)
  <2>1. turn'.floor = f /\ turn'.kind # "retry" /\ floor[f].state = "absent"
    BY <1>4 DEF Respond, Begin, NoTurn
  <2> QED  BY <1>3, <1>4, <2>1 DEF Respond, TypeOK
<1>5. ASSUME NEW s \in Floors, Regenerate(f, s) PROVE OutputInv'
  <2>1. turn'.floor = f /\ turn'.kind # "retry" /\ floor[f].state = "absent" /\ s # f
    BY <1>5 DEF Regenerate, IsRegenerationTarget, Begin, NoTurn
  <2> QED  BY <1>3, <1>5, <2>1 DEF Regenerate, TypeOK, FloorRow
<1> QED  BY <1>2, <1>4, <1>5

(* The commit gives its floor one version more and shows it.               *)
LEMMA CommitOutputs == TypeOK /\ OutputInv /\ Commit => OutputInv'
<1> SUFFICES ASSUME TypeOK, OutputInv, Commit PROVE OutputInv'
  OBVIOUS
<1> DEFINE f == turn.floor
           s == turn.source
           done == [floor EXCEPT ![f].state = "committed"]
<1>1. f \in Floors /\ s \in Floors \cup {None} /\ s # f
  BY DEF Commit, At, TypeOK, Turn
<1>2. /\ done \in [Floors -> FloorRow] /\ done[f].state = "committed"
      /\ \A g \in Floors : done[g].no = floor[g].no
      /\ \A g \in Floors \ {f} : done[g].state = floor[g].state
  BY <1>1 DEF TypeOK, FloorRow, States
<1>3. floor' = IF s = None THEN done ELSE [done EXCEPT ![s].live = FALSE, ![s].by = f]
  BY DEF Commit
<1> HIDE DEF done
<1>4. \A g \in Floors : floor'[g].no = done[g].no /\ floor'[g].state = done[g].state
  BY <1>1, <1>2, <1>3 DEF FloorRow
<1>5. /\ output'[f] = [pages |-> output[f].pages + 1, shown |-> output[f].pages + 1]
      /\ \A g \in Floors \ {f} : output'[g] = output[g]
      /\ output[f].pages \in Nat
  BY <1>1 DEF Commit, TypeOK
<1>6. answered' = answered \cup {floor[f].no}
  BY DEF Commit
<1>7. ASSUME NEW g \in Floors PROVE OutputSound(g)'
  BY <1>1, <1>2, <1>4, <1>5, <1>6 DEF OutputInv, OutputSound
<1>8. turn'.at = "committed"
  BY DEF Commit, TypeOK, Turn
<1> QED  BY <1>7, <1>8 DEF OutputInv, TurnFresh, Ended

LEMMA OutputInvariant == Spec => []OutputInv
<1>1. Init => OutputInv
  BY DEF Init, NoTurn, OutputInv, OutputSound, TurnFresh, Ended
<1>2. TypeOK /\ OutputInv /\ [Next]_vars => OutputInv'
  <2> SUFFICES ASSUME TypeOK, OutputInv, [Next]_vars PROVE OutputInv'
    OBVIOUS
  <2>1. CASE Crash \/ UNCHANGED vars
    BY <2>1, QuietOutputs DEF Crash, data, vars, KeepsOutputs
  <2>2. ASSUME NEW f \in Floors, Silence(f) \/ Poll(f) PROVE OutputInv'
    <3>1. floor' = floor \/ floor' = Failed(floor, f)
      BY <2>2 DEF Silence, Poll
    <3>2. floor \in [Floors -> FloorRow]
      BY DEF TypeOK
    <3>3. \A g \in Floors : /\ floor'[g].no = floor[g].no
                            /\ floor'[g] = floor[g] \/ floor'[g].state = "failed"
      BY <3>1, <3>2, FailedStates, FailedFloors
    <3>4. output' = output /\ answered' = answered /\ turn' = turn
      BY <2>2 DEF Silence, Poll
    <3>5. KeepsOutputs
      BY <3>3, <3>4 DEF KeepsOutputs
    <3> QED  BY <3>4, <3>5, QuietOutputs
  <2>3. ASSUME NEW f \in Floors, NEW v \in 1 .. MaxPages, ActivatePage(f, v) PROVE OutputInv'
    <3>1. /\ output'[f].pages = output[f].pages /\ output'[f].shown = v
          /\ v \in Nat /\ 1 <= v /\ v <= output[f].pages
          /\ \A g \in Floors \ {f} : output'[g] = output[g]
      BY <2>3, TurnAssumption DEF ActivatePage, TypeOK
    <3>2. floor' = floor /\ turn' = turn /\ answered' = answered
      BY <2>3 DEF ActivatePage
    <3>3. \A g \in Floors : output'[g].pages = output[g].pages /\ OutputSound(g)'
      BY <3>1, <3>2 DEF OutputInv, OutputSound, TypeOK
    <3>4. turn.at \notin Ended => turn.floor \in Floors
      BY DEF TypeOK, At, Ended
    <3> QED  BY <3>2, <3>3, <3>4 DEF OutputInv, TurnFresh
  <2>4. CASE Step /\ ~Commit
    BY <2>4, TurnMoves, StatesMove, QuietOutputs
  <2> QED  BY <2>1, <2>2, <2>3, <2>4, RequestOutputs, CommitOutputs DEF Next, Step
<1> QED  BY <1>1, <1>2, TypeCorrect, PTL DEF Spec

(* Only the commit of a retry adds a version to a floor that has one, and  *)
(* only while the version it was made from is the one shown: whoever       *)
(* swipes meanwhile keeps what he chose (outputReplacement in              *)
(* turn-commit-service.ts).                                                *)
THEOREM SwipesSurvive == Spec => SwipeSurvivesRetry
<1> DEFINE Kept == \A f \in Floors : output'[f].pages > output[f].pages /\ output[f].pages > 0 =>
                     turn.floor = f /\ output[f].shown = turn.page
<1>1. TypeOK /\ OutputInv /\ [Next]_vars => [Kept]_vars
  <2> SUFFICES ASSUME TypeOK, OutputInv, [Next]_vars PROVE Kept
    OBVIOUS
  <2>1. CASE Commit
    <3>1. turn.floor \in Floors /\ turn.at \notin Ended
      BY <2>1 DEF Commit, At, Ended, TypeOK
    <3>2. \A g \in Floors \ {turn.floor} : output'[g] = output[g]
      BY <2>1, <3>1 DEF Commit, TypeOK
    <3>3. output[turn.floor].pages > 0 => output[turn.floor].shown = turn.page
      BY <2>1, <3>1 DEF Commit, SourcePageActive, OutputInv, TurnFresh
    <3> QED  BY <3>2, <3>3 DEF TypeOK
  <2>2. CASE ~Commit
    <3>1. \A f \in Floors : output'[f].pages = output[f].pages
      <4>1. CASE Step
        BY <2>2, <4>1, StatesMove DEF KeepsOutputs
      <4>2. ASSUME NEW f \in Floors, NEW v \in 1 .. MaxPages, ActivatePage(f, v)
            PROVE  \A g \in Floors : output'[g].pages = output[g].pages
        BY <4>2 DEF ActivatePage, TypeOK
      <4> QED
        BY <4>1, <4>2 DEF Next, Request, Respond, RetryFloor, Regenerate, Begin, Crash, Silence,
           Poll, data, vars
    <3> QED  BY <3>1 DEF TypeOK
  <2> QED  BY <2>1, <2>2
<1> QED  BY <1>1, OutputInvariant, TypeCorrect, PTL DEF Spec, SwipeSurvivesRetry

-----------------------------------------------------------------------------
(* The commit of an accepted turn, when no turn is silent for longer than  *)
(* the stale window.  The run row goes on saying what the turn put there,  *)
(* for a poll finds nothing to heal: the floor of the turn is still a      *)
(* draft, or committed with a retry in preparation, or generating.         *)
FloorFollows ==
  /\ turn.at \in {"created", "preparing", "prepared"} =>
       floor[turn.floor].state = IF turn.kind = "retry" THEN "committed" ELSE "draft"
  /\ turn.at \in {"started", "generating", "executed"} => floor[turn.floor].state = "generating"

Running == {"preparing", "prepared", "started", "generating", "executed"}

RunFollows ==
  /\ turn.at \in Running =>
       /\ turn.floor \notin silent
       /\ run[turn.floor].status = "running" /\ run[turn.floor].kind = turn.kind
  /\ turn.at \in {"preparing", "prepared"} => run[turn.floor].phase = "preparing"
  /\ turn.at \in Running \ {"preparing"} => run[turn.floor].id = turn.id /\ turn.attempt = 1

(* The row counts the rounds of the verifier where it counted attempts.    *)
RoundFollows ==
  /\ turn.at \in {"created", "preparing", "prepared", "started"} => turn.round = 0
  /\ turn.at \in {"preparing", "prepared", "started"} => run[turn.floor].attempt = 1
  /\ turn.at \in {"generating", "executed"} =>
       turn.round > 0 /\ run[turn.floor].attempt = turn.round

TurnFollows == FloorFollows /\ RunFollows /\ RoundFollows

Working == {"created"} \cup Running

LEMMA NotWorking ==
  ASSUME turn.at \notin Working
  PROVE  TurnFollows
  BY DEF Working, Running, TurnFollows, FloorFollows, RunFollows, RoundFollows

(* Whatever leaves the rows of the turn's floor alone                      *)
LEMMA QuietTurn ==
  ASSUME TurnFollows, turn' = turn, turn.floor \notin silent \/ At("created"),
         turn.floor \in silent' => turn.floor \in silent,
         floor'[turn.floor].state = floor[turn.floor].state,
         At("created") \/ run'[turn.floor] = run[turn.floor]
  PROVE  TurnFollows'
  BY DEF TurnFollows, FloorFollows, RunFollows, RoundFollows, At, Running

LEMMA FollowingStep ==
  ASSUME TypeOK, TurnFollows, Step
  PROVE  TurnFollows'
<1>0. turn.at # "idle" => turn.floor \in Floors
  BY DEF TypeOK, At
<1>1. CASE InitializeRun
  <2>1. turn.floor \in Floors
    BY <1>0, <1>1 DEF InitializeRun, At
  <2>2. /\ turn'.at = "preparing" /\ turn'.round = turn.round
        /\ turn'.floor = turn.floor /\ turn'.kind = turn.kind
    BY <1>1 DEF InitializeRun, TypeOK, Turn
  <2>3. run'[turn.floor] = [status |-> "running", kind |-> turn.kind, id |-> turns,
                            attempt |-> 1, phase |-> "preparing"]
    BY <1>1, <2>1 DEF InitializeRun, TypeOK
  <2>4. floor' = floor /\ turn.floor \notin silent'
    BY <1>1 DEF InitializeRun, Wrote
  <2> QED
    BY <1>1, <2>2, <2>3, <2>4
       DEF InitializeRun, At, TurnFollows, FloorFollows, RunFollows, RoundFollows, Running
<1>2. CASE ResolveAttempt
  <2>1. /\ turn'.at = "prepared" /\ turn'.round = turn.round /\ turn'.kind = turn.kind
        /\ turn'.floor = turn.floor /\ turn'.id = run[turn.floor].id
        /\ turn'.attempt = run[turn.floor].attempt
    BY <1>2 DEF ResolveAttempt, TypeOK, Turn
  <2> QED
    BY <1>2, <2>1 DEF ResolveAttempt, At, Wrote, TurnFollows, FloorFollows, RunFollows,
                      RoundFollows, Running
<1>3. CASE EnsureGenerating
  <2>1. /\ turn'.at = "started" /\ turn'.round = turn.round /\ turn'.kind = turn.kind
        /\ turn'.floor = turn.floor /\ turn'.id = turn.id /\ turn'.attempt = turn.attempt
    BY <1>3 DEF EnsureGenerating, TypeOK, Turn
  <2>2. floor'[turn.floor].state = "generating"
    BY <1>0, <1>3 DEF EnsureGenerating, At, TypeOK, FloorRow
  <2> QED
    BY <1>3, <2>1, <2>2 DEF EnsureGenerating, At, Wrote, TurnFollows, FloorFollows, RunFollows,
                            RoundFollows, Running
<1>4. CASE Generate
  <2>1. turn.floor \in Floors /\ turn.round \in Nat /\ turn.at \in {"started", "generating"}
    BY <1>0, <1>4 DEF Generate, At, TypeOK, Turn
  <2>2. /\ turn'.at = "generating" /\ turn'.round = turn.round + 1 /\ turn'.kind = turn.kind
        /\ turn'.floor = turn.floor /\ turn'.id = turn.id /\ turn'.attempt = turn.attempt
    BY <1>4 DEF Generate, TypeOK, Turn
  <2>3. /\ run'[turn.floor].attempt = turn.round + 1
        /\ run'[turn.floor].status = run[turn.floor].status
        /\ run'[turn.floor].kind = run[turn.floor].kind /\ run'[turn.floor].id = run[turn.floor].id
    BY <1>4, <2>1 DEF Generate, TypeOK, RunRow
  <2>4. floor' = floor /\ turn.floor \notin silent'
    BY <1>4 DEF Generate, Wrote
  <2> QED
    BY <2>1, <2>2, <2>3, <2>4 DEF TurnFollows, FloorFollows, RunFollows, RoundFollows, Running
<1>5. CASE CandidateAccepted
  <2>1. /\ turn'.at = "executed" /\ turn'.round = turn.round /\ turn'.kind = turn.kind
        /\ turn'.floor = turn.floor /\ turn'.id = turn.id /\ turn'.attempt = turn.attempt
    BY <1>5 DEF CandidateAccepted, TypeOK, Turn
  <2> QED
    BY <1>5, <2>1 DEF CandidateAccepted, At, Wrote, TurnFollows, FloorFollows, RunFollows,
                      RoundFollows, Running
<1>6. ASSUME turn' = NoTurn \/ \E stage \in Stages \ Working : turn'.at = stage PROVE TurnFollows'
  <2>1. turn'.at \notin Working
    BY <1>6 DEF NoTurn, Working, Running
  <2> QED
    BY <2>1 DEF Working, Running, TurnFollows, FloorFollows, RunFollows, RoundFollows
<1>7. CASE PreparationFails \/ ExecutionFails("failed") \/ ExecutionFails("cancelled")
           \/ ExecutionErrorCaught \/ GateBlocks \/ CommitFails \/ Commit \/ CommitStale
           \/ NoteOutcome
  <2>1. turn'.at \in {"failing", "thrown", "committed", "stale", "noted"}
    BY <1>7 DEF PreparationFails, ExecutionFails, ExecutionErrorCaught, FailRunAndFloor,
       GateBlocks, CommitFails, Commit, CommitStale, NoteOutcome, TypeOK, Turn
  <2> QED  BY <1>6, <2>1 DEF Stages, Working, Running
<1>8. CASE Complete \/ GiveUp \/ Unwind
  BY <1>6, <1>8 DEF Complete, GiveUp, Unwind
<1> QED  BY <1>1, <1>2, <1>3, <1>4, <1>5, <1>7, <1>8 DEF Step

(* A poll of the run of a working turn finds it running; nothing silences  *)
(* it.                                                                     *)
LEMMA FollowingBeside ==
  ASSUME TypeOK, TurnFollows, ~SlowTurns, NEW f \in Floors, Silence(f) \/ Poll(f)
  PROVE  TurnFollows'
<1>0. turn' = turn
  BY DEF Silence, Poll
<1>1. CASE turn.at \notin Working
  BY <1>0, <1>1 DEF Working, Running, TurnFollows, FloorFollows, RunFollows, RoundFollows
<1>2. CASE turn.at \in Working /\ Silence(f)
  <2>1. floor' = floor /\ run' = run
    BY <1>2 DEF Silence
  <2>2. CASE turn.floor # f
    BY <1>0, <1>2, <2>1, <2>2, QuietTurn
       DEF Silence, TurnFollows, RunFollows, Working, At
  <2>3. CASE turn.floor = f
    BY <1>2, <2>3 DEF Silence
  <2> QED  BY <2>2, <2>3
<1>3. CASE turn.at \in Working /\ Poll(f)
  <2>1. turn.floor \in Floors
    BY <1>3 DEF TypeOK, At, Working, Running
  <2>2. turn.floor \in silent' => turn.floor \in silent
    BY <1>3 DEF Poll, Wrote
  <2>3. turn.floor \notin silent \/ At("created")
    BY <1>3 DEF TurnFollows, RunFollows, Working, At
  <2>4. CASE turn.floor # f
    <3>1. floor'[turn.floor] = floor[turn.floor] /\ run'[turn.floor] = run[turn.floor]
      BY <1>3, <2>1, <2>4 DEF Poll, Failed, Marked, TypeOK
    <3> QED  BY <1>0, <2>2, <2>3, <3>1, QuietTurn
  <2>5. CASE turn.floor = f /\ At("created")
    <3>1. floor[f].state \in {"draft", "committed"}
      BY <2>5 DEF At, TurnFollows, FloorFollows
    <3>2. PollOf(f) # "failed"
      BY <3>1 DEF PollOf
    <3>3. floor' = floor
      BY <1>3, <3>2 DEF Poll
    <3> QED  BY <1>0, <2>2, <2>5, <3>3, QuietTurn
  <2>6. CASE turn.floor = f /\ ~At("created")
    <3>1. turn.at \in Running /\ f \notin silent
      BY <1>3, <2>6 DEF At, Working, TurnFollows, RunFollows
    <3>2. CASE turn.at \in {"preparing", "prepared"}
      <4>1. floor[f].state = "draft" \/ (floor[f].state = "committed" /\ PreparesRetry(f))
        BY <2>6, <3>1, <3>2 DEF TurnFollows, FloorFollows, RunFollows, PreparesRetry
      <4> QED  BY <1>3, <4>1 DEF Poll, PollOf
    <3>3. CASE turn.at \in {"started", "generating", "executed"}
      BY <1>3, <2>6, <3>1, <3>3 DEF TurnFollows, FloorFollows, Poll, PollOf
    <3> QED  BY <3>1, <3>2, <3>3 DEF Running
  <2> QED  BY <2>4, <2>5, <2>6
<1> QED  BY <1>1, <1>2, <1>3

LEMMA TurnInvariant == ASSUME ~SlowTurns PROVE Spec => []TurnFollows
<1>1. Init => TurnFollows
  BY NotWorking DEF Init, NoTurn, Working, Running
<1>2. TypeOK /\ TurnFollows /\ [Next]_vars => TurnFollows'
  <2> SUFFICES ASSUME TypeOK, TurnFollows, [Next]_vars PROVE TurnFollows'
    OBVIOUS
  <2>1. CASE Request
    <3>1. PICK f \in Floors : Respond(f) \/ RetryFloor(f) \/ \E s \in Floors : Regenerate(f, s)
      BY <2>1 DEF Request
    <3>2. turn'.at = "created" /\ turn'.floor = f /\ turn'.round = 0
      BY <3>1 DEF Respond, RetryFloor, Regenerate, Begin, NoTurn
    <3>3. floor'[f].state = IF turn'.kind = "retry" THEN "committed" ELSE "draft"
      <4>1. CASE Respond(f)
        BY <4>1 DEF Respond, Begin, NoTurn, TypeOK
      <4>2. CASE RetryFloor(f)
        BY <4>2 DEF RetryFloor, Begin, NoTurn
      <4>3. ASSUME NEW s \in Floors, Regenerate(f, s)
            PROVE  floor'[f].state = "draft" /\ turn'.kind = "regenerate"
        BY <4>3 DEF Regenerate, IsRegenerationTarget, Begin, NoTurn, TypeOK, FloorRow
      <4> QED  BY <3>1, <4>1, <4>2, <4>3
    <3> QED
      BY <3>2, <3>3 DEF TurnFollows, FloorFollows, RunFollows, RoundFollows, Running
  <2>2. CASE Crash \/ UNCHANGED vars
    <3>1. CASE Crash
      BY <3>1 DEF Crash, NoTurn, Running, TurnFollows, FloorFollows, RunFollows, RoundFollows
    <3>2. CASE UNCHANGED vars
      BY <3>2 DEF vars, Running, TurnFollows, FloorFollows, RunFollows, RoundFollows
    <3> QED  BY <2>2, <3>1, <3>2
  <2>3. ASSUME NEW f \in Floors, NEW v \in 1 .. MaxPages, ActivatePage(f, v) PROVE TurnFollows'
    BY <2>3 DEF ActivatePage, Running, TurnFollows, FloorFollows, RunFollows, RoundFollows
  <2> QED  BY <2>1, <2>2, <2>3, FollowingStep, FollowingBeside DEF Next
<1> QED  BY <1>1, <1>2, TypeCorrect, PTL DEF Spec

(* What a refused commit means: the verifier asked for another round, or   *)
(* somebody swiped away the version the retry was made from.               *)
RefusalExplained ==
  turn.round > 1 \/ (turn.kind = "retry" /\ output[turn.floor].shown # turn.page)

LEMMA RefusalStep ==
  ASSUME TypeOK, Numbered, TurnFollows, CommitStale
  PROVE  RefusalExplained
<1>1. turn.at = "executed" /\ turn.round \in Nat
  BY DEF CommitStale, At, TypeOK, Turn
<1>2. SourceFree(turn)
  BY <1>1 DEF Numbered, SourceShares, SourceFree
<1>3. turn.round = 1 => AttemptCurrent(turn)
  BY <1>1 DEF TurnFollows, RunFollows, RoundFollows, Running, AttemptCurrent
<1>4. turn.round # 1 => turn.round > 1
  BY <1>1 DEF TurnFollows, RoundFollows
<1> QED  BY <1>2, <1>3, <1>4 DEF CommitStale, SourcePageActive, RefusalExplained

(* No turn whose output was accepted is refused at its commit but for one  *)
(* of these two reasons, whatever polled the run, crashed before it or     *)
(* failed on the branch: turn_attempt_stale (turn-commit-service.ts) never *)
(* comes from a reader of the run.  Turns that stay silent beyond the      *)
(* stale window are left out: a poll ends their runs.                      *)
THEOREM RefusalsExplained ==
  ASSUME ~SlowTurns
  PROVE  Spec => [][CommitStale => RefusalExplained]_vars
<1>1. TypeOK /\ Numbered /\ TurnFollows => [CommitStale => RefusalExplained]_vars
  BY RefusalStep
<1> QED  BY <1>1, TypeCorrect, NumberedInvariant, TurnInvariant, PTL DEF Spec

-----------------------------------------------------------------------------
(* A request begins a turn that has run no round.                          *)
LEMMA RequestBegins ==
  ASSUME Request
  PROVE  turn'.at = "created" /\ turn'.round = 0
<1>1. PICK kind \in AllKinds, f \in Floors, s \in Floors \cup {None} : Begin(kind, f, s)
  BY DEF Request, Respond, RetryFloor, Regenerate, AllKinds
<1> QED  BY <1>1 DEF Begin, NoTurn

(* One round, and at most two versions: nothing refuses an accepted turn.  *)
RoundBounded == turn.round <= MaxAttempts

LEMMA RoundInvariant == ASSUME ~SlowTurns PROVE Spec => []RoundBounded
<1>0. MaxAttempts \in Nat \ {0}
  BY TurnAssumption
<1>1. Init => RoundBounded
  BY <1>0 DEF Init, NoTurn, RoundBounded
<1>2. TypeOK /\ TurnFollows /\ RoundBounded /\ [Next]_vars => RoundBounded'
  <2> SUFFICES ASSUME TypeOK, TurnFollows, RoundBounded, [Next]_vars PROVE RoundBounded'
    OBVIOUS
  <2>1. CASE Generate
    BY <1>0, <2>1 DEF Generate, At, RoundBounded, TurnFollows, RoundFollows, TypeOK, Turn
  <2>2. CASE turn'.round = turn.round
    BY <2>2 DEF RoundBounded
  <2>3. CASE turn'.round = 0
    BY <1>0, <2>3 DEF RoundBounded
  <2>4. CASE Step /\ ~Generate
    <3>1. CASE Complete \/ GiveUp \/ Unwind
      BY <2>3, <3>1 DEF Complete, GiveUp, Unwind, NoTurn
    <3>2. CASE InitializeRun \/ ResolveAttempt \/ PreparationFails \/ EnsureGenerating
               \/ CandidateAccepted
      BY <2>2, <3>2 DEF InitializeRun, ResolveAttempt, PreparationFails, EnsureGenerating,
         CandidateAccepted, TypeOK, Turn
    <3>3. CASE ExecutionFails("failed") \/ ExecutionFails("cancelled") \/ ExecutionErrorCaught
               \/ GateBlocks \/ CommitFails \/ Commit \/ CommitStale \/ NoteOutcome
      BY <2>2, <3>3 DEF ExecutionFails, ExecutionErrorCaught, FailRunAndFloor, GateBlocks,
         CommitFails, Commit, CommitStale, NoteOutcome, TypeOK, Turn
    <3> QED  BY <2>4, <3>1, <3>2, <3>3 DEF Step
  <2>5. CASE Request \/ Crash
    BY <2>3, <2>5, RequestBegins DEF Crash, NoTurn
  <2>6. CASE UNCHANGED vars \/ \E f \in Floors : \/ Silence(f) \/ Poll(f)
                                                 \/ \E v \in 1 .. MaxPages : ActivatePage(f, v)
    BY <2>2, <2>6 DEF vars, Silence, Poll, ActivatePage
  <2> QED  BY <2>1, <2>4, <2>5, <2>6 DEF Next
<1> QED  BY <1>1, <1>2, TypeCorrect, TurnInvariant, PTL DEF Spec

(* A retry of a floor with its only version has nothing to swipe to.       *)
PageShown ==
  turn.at \notin Ended /\ turn.kind = "retry" =>
    output[turn.floor].pages < MaxPages /\ output[turn.floor].shown = turn.page

LEMMA PageInvariant == ASSUME MaxPages <= 2 PROVE Spec => []PageShown
<1>1. Init => PageShown
  BY DEF Init, NoTurn, PageShown, Ended
<1>2. TypeOK /\ OutputInv /\ PageShown /\ [Next]_vars => PageShown'
  <2> SUFFICES ASSUME TypeOK, OutputInv, PageShown, [Next]_vars PROVE PageShown'
    OBVIOUS
  <2>1. CASE Request
    <3>1. PICK f \in Floors : Respond(f) \/ RetryFloor(f) \/ \E s \in Floors : Regenerate(f, s)
      BY <2>1 DEF Request
    <3>2. CASE RetryFloor(f)
      BY <3>2 DEF RetryFloor, Begin, NoTurn, PageShown
    <3>3. CASE Respond(f) \/ \E s \in Floors : Regenerate(f, s)
      BY <3>3 DEF Respond, Regenerate, Begin, NoTurn, PageShown
    <3> QED  BY <3>1, <3>2, <3>3
  <2>2. ASSUME output' = output, turn' = NoTurn \/ turn' = turn \/ (SameTurn /\ turn.at \notin Ended)
        PROVE  PageShown'
    BY <2>2 DEF PageShown, NoTurn, SameTurn, Ended
  <2>3. CASE Step /\ ~Commit
    BY <2>2, <2>3, TurnMoves, StatesMove DEF KeepsOutputs
  <2>4. CASE Commit
    BY <2>4 DEF Commit, TypeOK, Turn, PageShown, Ended
  <2>5. ASSUME NEW f \in Floors, NEW v \in 1 .. MaxPages, ActivatePage(f, v) PROVE PageShown'
    <3>1. CASE turn.at \notin Ended /\ turn.kind = "retry" /\ turn.floor = f
      <4>1. output[f].pages < MaxPages /\ output[f].pages \in Nat /\ MaxPages \in Nat
        BY <3>1, TurnAssumption DEF PageShown, TypeOK
      <4>2. output[f].pages = 1 /\ output[f].shown = 1
        <5>1. output[f].pages > 0 /\ OutputSound(f)
          BY <3>1 DEF OutputInv, TurnFresh
        <5>2. output[f].shown \in Nat
          BY DEF TypeOK
        <5> QED  BY <4>1, <5>1, <5>2 DEF OutputSound
      <4>3. v = 1 /\ v # output[f].shown
        BY <2>5, <4>2, TurnAssumption DEF ActivatePage
      <4> QED  BY <4>2, <4>3
    <3>2. CASE ~(turn.at \notin Ended /\ turn.kind = "retry" /\ turn.floor = f)
      <4>1. turn' = turn /\ \A g \in Floors \ {f} : output'[g] = output[g]
        BY <2>5 DEF ActivatePage, TypeOK
      <4>2. turn.at \notin Ended => turn.floor \in Floors
        BY DEF TypeOK, At, Ended
      <4> QED  BY <3>2, <4>1, <4>2 DEF PageShown
    <3> QED  BY <3>1, <3>2
  <2>6. CASE Crash \/ UNCHANGED vars \/ \E f \in Floors : Silence(f) \/ Poll(f)
    BY <2>2, <2>6 DEF Crash, data, vars, Silence, Poll
  <2> QED  BY <2>1, <2>3, <2>4, <2>5, <2>6 DEF Next, Step
<1> QED  BY <1>1, <1>2, TypeCorrect, OutputInvariant, PTL DEF Spec

(* Whether a step refuses a turn                                           *)
LEMMA StaleStep ==
  ASSUME TypeOK, [Next]_vars, ~CommitStale, ~At("stale")
  PROVE  ~At("stale")'
<1>1. CASE Step
  <2>1. CASE InitializeRun \/ ResolveAttempt \/ PreparationFails \/ EnsureGenerating \/ Generate
             \/ CandidateAccepted
    BY <2>1 DEF InitializeRun, ResolveAttempt, PreparationFails, EnsureGenerating, Generate,
       CandidateAccepted, TypeOK, Turn, At
  <2>2. CASE ExecutionFails("failed") \/ ExecutionFails("cancelled") \/ ExecutionErrorCaught
             \/ GateBlocks \/ CommitFails \/ Commit \/ NoteOutcome
    BY <2>2 DEF ExecutionFails, ExecutionErrorCaught, FailRunAndFloor, GateBlocks, CommitFails,
       Commit, NoteOutcome, TypeOK, Turn, At
  <2>3. CASE Complete \/ GiveUp \/ Unwind
    BY <2>3 DEF Complete, GiveUp, Unwind, NoTurn, At
  <2> QED  BY <1>1, <2>1, <2>2, <2>3 DEF Step
<1>2. CASE Request \/ Crash
  BY <1>2, RequestBegins DEF Crash, NoTurn, At
<1>3. CASE UNCHANGED vars \/ \E f \in Floors : \/ Silence(f) \/ Poll(f)
                                               \/ \E v \in 1 .. MaxPages : ActivatePage(f, v)
  BY <1>3 DEF vars, Silence, Poll, ActivatePage, At
<1> QED  BY <1>1, <1>2, <1>3 DEF Next

(* With one round per turn and no version to swipe to, every accepted turn *)
(* is committed or fails for a reason of its own; crashes of earlier turns *)
(* do not matter.  The hypotheses rule out exactly the two reasons of      *)
(* RefusalExplained, and the poll that ends a silent run: each of them     *)
(* makes turn-commit-service.ts refuse output the verifier accepted.       *)
THEOREM AcceptedTurnsCommit ==
  ASSUME ~SlowTurns, MaxAttempts = 1, MaxPages <= 2
  PROVE  Spec => []AcceptedIsCommitted
<1>1. Init => AcceptedIsCommitted
  BY DEF Init, NoTurn, AcceptedIsCommitted
<1>2. /\ TypeOK /\ Numbered /\ TurnFollows /\ RoundBounded /\ PageShown /\ AcceptedIsCommitted
      /\ [Next]_vars
      => AcceptedIsCommitted'
  <2> SUFFICES ASSUME TypeOK, Numbered, TurnFollows, RoundBounded, PageShown,
                      AcceptedIsCommitted, [Next]_vars
               PROVE  AcceptedIsCommitted'
    OBVIOUS
  <2>1. ~CommitStale
    <3> SUFFICES ASSUME CommitStale PROVE FALSE
      OBVIOUS
    <3>1. RefusalExplained
      BY RefusalStep
    <3>2. turn.round \in Nat /\ turn.at \notin Ended
      BY DEF CommitStale, At, Ended, TypeOK, Turn
    <3> QED  BY <3>1, <3>2 DEF RefusalExplained, RoundBounded, PageShown
  <2> QED  BY <2>1, StaleStep DEF AcceptedIsCommitted, At
<1> QED
  BY <1>1, <1>2, TypeCorrect, NumberedInvariant, TurnInvariant, RoundInvariant, PageInvariant,
     PTL DEF Spec

-----------------------------------------------------------------------------
(* Answers.  Only a retry is ever refused, and a retry has no source that  *)
(* a refused turn would leave behind.                                      *)
OnlyRetriesRefused == At("stale") => turn.kind = "retry"

LEMMA RefusedInvariant ==
  ASSUME ~SlowTurns, MaxAttempts = 1
  PROVE  Spec => []OnlyRetriesRefused
<1>1. Init => OnlyRetriesRefused
  BY DEF Init, NoTurn, OnlyRetriesRefused, At
<1>2. /\ TypeOK /\ Numbered /\ TurnFollows /\ RoundBounded /\ OnlyRetriesRefused /\ [Next]_vars
      => OnlyRetriesRefused'
  <2> SUFFICES ASSUME TypeOK, Numbered, TurnFollows, RoundBounded, OnlyRetriesRefused,
                      [Next]_vars
               PROVE  OnlyRetriesRefused'
    OBVIOUS
  <2>1. CASE CommitStale
    <3>1. RefusalExplained /\ turn.round \in Nat
      BY <2>1, RefusalStep DEF TypeOK, Turn
    <3>2. turn'.kind = turn.kind
      BY <2>1 DEF CommitStale, TypeOK, Turn
    <3> QED  BY <3>1, <3>2 DEF RefusalExplained, RoundBounded, OnlyRetriesRefused
  <2>2. CASE ~CommitStale /\ ~At("stale")
    BY <2>2, StaleStep DEF OnlyRetriesRefused
  <2>3. CASE ~CommitStale /\ At("stale")
    <3>1. CASE Step
      BY <2>3, <3>1, TurnMoves DEF OnlyRetriesRefused, SameTurn, NoTurn, At
    <3>2. CASE Request \/ Crash
      BY <3>2, RequestBegins DEF Crash, NoTurn, At, OnlyRetriesRefused
    <3>3. CASE UNCHANGED vars \/ \E f \in Floors : \/ Silence(f) \/ Poll(f)
                                                   \/ \E v \in 1 .. MaxPages : ActivatePage(f, v)
      BY <3>3 DEF vars, Silence, Poll, ActivatePage, At, OnlyRetriesRefused
    <3> QED  BY <3>1, <3>2, <3>3 DEF Next
  <2> QED  BY <2>1, <2>2, <2>3
<1> QED
  BY <1>1, <1>2, TypeCorrect, NumberedInvariant, TurnInvariant, RoundInvariant, PTL DEF Spec

(* An answered number is kept by a live floor that shows an output, or by  *)
(* the source of the turn, which its failure would restore.                *)
Keeps(f, n) ==
  /\ floor[f].no = n /\ output[f].shown > 0
  /\ Live(f) \/ (turn.at \notin Ended /\ f = turn.source)

AnswersKept ==
  /\ turn.at \in Working /\ turn.kind # "retry" => Live(turn.floor)
  /\ \A n \in answered : \E f \in Floors : Keeps(f, n)

(* A turn that moves on, or ends without a source to restore               *)
LEMMA QuietAnswers ==
  ASSUME TypeOK, AnswersKept, answered' = answered,
         \A g \in Floors : /\ floor'[g].no = floor[g].no /\ floor'[g].live = floor[g].live
                           /\ output[g].shown > 0 => output'[g].shown > 0,
         \/ turn' = turn
         \/ turn' = NoTurn /\ (turn.source = None \/ At("committed"))
         \/ /\ SameTurn /\ turn'.at \notin Ended
            /\ turn'.at \in Working => turn.at \in Working
  PROVE  AnswersKept'
<1>1. turn'.at \in Working /\ turn'.kind # "retry" => floor'[turn'.floor].live
  <2>1. CASE turn' = NoTurn
    BY <2>1 DEF NoTurn, Working, Running
  <2>2. CASE turn' # NoTurn
    <3>1. turn.at \in Working => turn.floor \in Floors
      BY DEF TypeOK, At, Working, Running
    <3> QED  BY <2>2, <3>1 DEF AnswersKept, SameTurn, Live
  <2> QED  BY <2>1, <2>2
<1>2. ASSUME NEW n \in answered' PROVE \E f \in Floors : Keeps(f, n)'
  <2>1. PICK f \in Floors : Keeps(f, n)
    BY <1>2 DEF AnswersKept
  <2>2. Live(f) \/ (turn.at \notin Ended /\ f = turn.source)
    BY <2>1 DEF Keeps
  <2>3. floor'[f].no = n /\ output'[f].shown > 0 /\ floor'[f].live = floor[f].live
    BY <2>1 DEF Keeps
  <2>4. CASE Live(f)
    BY <2>3, <2>4 DEF Keeps, Live
  <2>5. CASE turn.at \notin Ended /\ f = turn.source
    <3>1. turn.source # None
      BY <2>5, TurnAssumption
    <3>2. turn'.at \notin Ended /\ turn'.source = f
      BY <2>5, <3>1 DEF At, Ended, SameTurn
    <3> QED  BY <2>3, <3>2 DEF Keeps
  <2> QED  BY <2>2, <2>4, <2>5
<1> QED  BY <1>1, <1>2 DEF AnswersKept, Live

(* A floor that is restored shows what it showed; the one that was to      *)
(* replace it shows nothing.                                               *)
LEMMA RestoredAnswers ==
  ASSUME TypeOK, OutputInv, Numbered, AnswersKept, turn.at \notin Ended,
         NEW fl \in [Floors -> FloorRow],
         \A g \in Floors : /\ fl[g].no = floor[g].no /\ fl[g].live = floor[g].live
                           /\ fl[g].by = floor[g].by,
         floor' = Restored(fl, turn.floor, turn.source),
         output' = output, answered' = answered,
         turn'.at \notin Working, (SameTurn /\ turn'.at \notin Ended) \/ turn' = NoTurn
  PROVE  AnswersKept'
<1>1. turn.floor \in Floors /\ turn.source \in Floors \cup {None} /\ turn.source # turn.floor
  BY DEF TypeOK, At, Turn, Ended
<1>2. CASE turn.source = None
  <2>1. floor' = fl
    BY <1>1, <1>2, RestoredStates
  <2> QED  BY <1>2, <2>1, QuietAnswers
<1>3. CASE turn.source # None
  <2>1. output[turn.floor].shown = 0
    <3>1. output[turn.floor].pages = 0 /\ OutputSound(turn.floor)
      BY <1>1, <1>3 DEF OutputInv, TurnFresh
    <3> QED  BY <1>1, <3>1 DEF OutputSound, TypeOK
  <2>2. floor'[turn.source].live
    BY <1>1, <1>3, RestoredFloors DEF Numbered, SourceShares, Ended
  <2>3. \A g \in Floors : floor'[g].no = floor[g].no
    BY <1>1, RestoredFloors
  <2>4. \A g \in Floors \ {turn.floor, turn.source} : floor'[g].live = floor[g].live
    BY <1>1, RestoredStates
  <2>5. ASSUME NEW n \in answered' PROVE \E f \in Floors : Keeps(f, n)'
    <3>1. PICK f \in Floors : Keeps(f, n)
      BY <2>5 DEF AnswersKept
    <3>2. f # turn.floor
      BY <2>1, <3>1 DEF Keeps
    <3>3. floor'[f].live
      BY <2>2, <2>4, <3>1, <3>2 DEF Keeps, Live
    <3> QED  BY <2>3, <3>1, <3>3 DEF Keeps, Live
  <2> QED  BY <2>5 DEF AnswersKept
<1> QED  BY <1>2, <1>3

(* The commit of a regenerate puts its floor in the place of the source,   *)
(* with which it shares the number.                                        *)
LEMMA CommitAnswers ==
  ASSUME TypeOK, OutputInv, Numbered, AnswersKept, Commit
  PROVE  AnswersKept'
<1> DEFINE f == turn.floor
           s == turn.source
           done == [floor EXCEPT ![f].state = "committed"]
<1>0. turn.at = "executed" /\ turn.at \in Working /\ turn.at \notin Ended
  BY DEF Commit, At, Working, Running, Ended
<1>1. f \in Floors /\ s \in Floors \cup {None} /\ s # f
  BY <1>0 DEF At, TypeOK, Turn
<1>2. /\ done \in [Floors -> FloorRow]
      /\ \A g \in Floors : done[g].no = floor[g].no /\ done[g].live = floor[g].live
  BY <1>1 DEF TypeOK, FloorRow, States
<1>3. floor' = IF s = None THEN done ELSE [done EXCEPT ![s].live = FALSE, ![s].by = f]
  BY DEF Commit
<1> HIDE DEF done
<1>4. /\ \A g \in Floors : floor'[g].no = floor[g].no
      /\ \A g \in Floors \ {s} : floor'[g].live = floor[g].live
  BY <1>1, <1>2, <1>3 DEF FloorRow
<1>5. output'[f].shown > 0 /\ \A g \in Floors \ {f} : output'[g] = output[g]
  BY <1>1 DEF Commit, TypeOK
<1>6. turn'.at = "committed"
  BY DEF Commit, TypeOK, Turn
<1>7. ASSUME NEW n \in answered PROVE \E g \in Floors : Keeps(g, n)'
  <2>1. PICK g \in Floors : Keeps(g, n)
    BY <1>7 DEF AnswersKept
  <2>2. CASE g = s
    <3>1. turn.kind # "retry" /\ Live(f) /\ floor[f].no = n
      BY <1>0, <1>1, <2>1, <2>2, TurnAssumption
         DEF OutputInv, TurnFresh, AnswersKept, Numbered, SourceShares, Keeps, Ended
    <3> QED  BY <1>1, <1>4, <1>5, <3>1 DEF Keeps, Live
  <2>3. CASE g # s
    BY <1>4, <1>5, <2>1, <2>3 DEF Keeps, Live
  <2> QED  BY <2>2, <2>3
<1>8. answered' = answered \cup {floor[f].no}
  BY DEF Commit
<1>9. ASSUME NEW n \in Nat, n = floor[f].no PROVE \E g \in Floors : Keeps(g, n)'
  <2>1. CASE turn.kind = "retry"
    BY <1>0, <1>1, <1>7, <1>9, <2>1 DEF OutputInv, TurnFresh, OutputSound
  <2>2. CASE turn.kind # "retry"
    BY <1>0, <1>1, <1>4, <1>5, <1>9, <2>2 DEF AnswersKept, Keeps, Live
  <2> QED  BY <2>1, <2>2
<1>10. floor[f].no \in Nat
  BY <1>1 DEF TypeOK, FloorRow
<1>11. ASSUME NEW n \in answered' PROVE \E g \in Floors : Keeps(g, n)'
  <2>1. CASE n \in answered
    BY <1>7, <2>1
  <2>2. CASE n = floor[f].no
    BY <1>9, <1>10, <2>2
  <2> QED  BY <1>8, <1>11, <2>1, <2>2
<1> QED  BY <1>6, <1>11 DEF AnswersKept, Working, Running

LEMMA RequestAnswers ==
  ASSUME TypeOK, OutputInv, AnswersKept, Request
  PROVE  AnswersKept'
<1> PICK f \in Floors : Respond(f) \/ RetryFloor(f) \/ \E s \in Floors : Regenerate(f, s)
  BY DEF Request
<1>1. output' = output /\ answered' = answered /\ At("idle")
  BY DEF Respond, RetryFloor, Regenerate, Begin
<1>2. CASE RetryFloor(f)
  <2>1. floor' = floor /\ turn'.kind = "retry"
    BY <1>2 DEF RetryFloor, Begin, NoTurn
  <2> QED  BY <1>1, <2>1 DEF AnswersKept, Keeps, Live, At, Ended
<1>3. ASSUME floor[f].state = "absent" PROVE output[f].shown = 0
  BY <1>3 DEF OutputInv, OutputSound, TypeOK
<1>4. CASE Respond(f)
  <2>1. floor[f].state = "absent" /\ turn'.floor = f
    BY <1>4 DEF Respond, Begin, NoTurn
  <2>2. floor'[f].live /\ \A g \in Floors \ {f} : floor'[g] = floor[g]
    BY <1>4 DEF Respond, TypeOK
  <2> QED  BY <1>1, <1>3, <2>1, <2>2 DEF AnswersKept, Keeps, Live, At, Ended
<1>5. ASSUME NEW s \in Floors, Regenerate(f, s) PROVE AnswersKept'
  <2>1. floor[f].state = "absent" /\ s # f
    BY <1>5 DEF Regenerate, IsRegenerationTarget
  <2>2. turn'.floor = f /\ turn'.source = s /\ turn'.at = "created"
    BY <1>5 DEF Regenerate, Begin, NoTurn
  <2>3. /\ floor'[f].live /\ floor'[s].no = floor[s].no
        /\ \A g \in Floors \ {f, s} : floor'[g] = floor[g]
    BY <1>5, <2>1 DEF Regenerate, TypeOK, FloorRow
  <2>4. ASSUME NEW n \in answered' PROVE \E g \in Floors : Keeps(g, n)'
    <3>1. PICK g \in Floors : Keeps(g, n)
      BY <1>1, <2>4 DEF AnswersKept
    <3>2. g # f
      BY <1>3, <2>1, <3>1 DEF Keeps
    <3> QED  BY <1>1, <2>2, <2>3, <3>1, <3>2 DEF Keeps, Live, At, Ended
  <2> QED  BY <2>2, <2>3, <2>4 DEF AnswersKept, Live
<1> QED  BY <1>2, <1>4, <1>5

LEMMA StepAnswers ==
  ASSUME TypeOK, OutputInv, Numbered, OnlyRetriesRefused, AnswersKept, Step
  PROVE  AnswersKept'
<1>0. ~At("idle") => turn.floor \in Floors /\ turn.source \in Floors \cup {None}
                      /\ turn.source # turn.floor
  BY DEF TypeOK, Turn
<1>1. CASE InitializeRun \/ ResolveAttempt \/ PreparationFails \/ Generate \/ CandidateAccepted
           \/ CommitStale \/ NoteOutcome
  <2>1. SameTurn /\ turn'.at \notin Ended /\ (turn'.at \in Working => turn.at \in Working)
    BY <1>1 DEF InitializeRun, ResolveAttempt, PreparationFails, Generate, CandidateAccepted,
       CommitStale, NoteOutcome, TypeOK, Turn, At, SameTurn, Ended, Working, Running
  <2>2. floor' = floor /\ output' = output /\ answered' = answered
    BY <1>1 DEF InitializeRun, ResolveAttempt, PreparationFails, Generate, CandidateAccepted,
       CommitStale, NoteOutcome, data
  <2> QED  BY <2>1, <2>2, QuietAnswers
<1>2. CASE EnsureGenerating
  <2>1. SameTurn /\ turn'.at \notin Ended /\ turn.at \in Working
    BY <1>2 DEF EnsureGenerating, TypeOK, Turn, At, SameTurn, Ended, Working, Running
  <2>2. \A g \in Floors : floor'[g].no = floor[g].no /\ floor'[g].live = floor[g].live
    BY <1>2 DEF EnsureGenerating, TypeOK, FloorRow
  <2> QED  BY <1>2, <2>1, <2>2, QuietAnswers DEF EnsureGenerating
<1>3. ASSUME ~At("idle"), floor' = Failed(floor, turn.floor) \/ floor' = floor,
             output' = output, answered' = answered,
             SameTurn, turn'.at \notin Ended, turn'.at \notin Working
      PROVE  AnswersKept'
  <2>1. \A g \in Floors : floor'[g].no = floor[g].no /\ floor'[g].live = floor[g].live
    BY <1>0, <1>3, FailedFloors DEF TypeOK
  <2> QED  BY <1>3, <2>1, QuietAnswers
<1>4. CASE ExecutionFails("failed") \/ ExecutionFails("cancelled") \/ CommitFails
           \/ ExecutionErrorCaught
  <2>1. ~At("idle") /\ SameTurn /\ turn'.at \in {"thrown", "failing"}
    BY <1>4 DEF ExecutionFails, CommitFails, ExecutionErrorCaught, FailRunAndFloor, At,
       TypeOK, Turn, SameTurn
  <2>2. /\ floor' = Failed(floor, turn.floor) \/ floor' = floor
        /\ output' = output /\ answered' = answered
    BY <1>4 DEF ExecutionFails, CommitFails, ExecutionErrorCaught, FailRunAndFloor, data
  <2> QED  BY <1>3, <2>1, <2>2 DEF Ended, Working, Running
<1>5. CASE GateBlocks
  <2>1. turn.at \notin Ended /\ SameTurn /\ turn'.at = "failing"
    BY <1>5 DEF GateBlocks, At, Ended, SameTurn, TypeOK, Turn
  <2>2. /\ floor' = Restored(floor, turn.floor, turn.source) /\ output' = output
        /\ answered' = answered /\ floor \in [Floors -> FloorRow]
    BY <1>5 DEF GateBlocks, TypeOK
  <2> QED  BY <2>1, <2>2, RestoredAnswers DEF Ended, Working, Running
<1>6. CASE Unwind
  <2>1. /\ turn.at = "noted" /\ output' = output /\ answered' = answered
        /\ floor' = Unwound(turn) /\ turn' = NoTurn
    BY <1>6 DEF Unwind, At
  <2>2. CASE turn.kind = "retry"
    <3>1. \A g \in Floors : floor'[g].no = floor[g].no /\ floor'[g].live = floor[g].live
      BY <1>0, <2>1, <2>2, RecommittedFloors DEF At, Unwound, TypeOK
    <3>2. turn.source = None
      BY <2>1, <2>2 DEF OutputInv, TurnFresh, Ended
    <3> QED  BY <2>1, <3>1, <3>2, QuietAnswers
  <2>3. CASE turn.kind # "retry"
    <3>1. floor' = Restored(Failed(floor, turn.floor), turn.floor, turn.source)
      BY <2>1, <2>3 DEF Unwound
    <3>2. /\ Failed(floor, turn.floor) \in [Floors -> FloorRow]
          /\ \A g \in Floors : /\ Failed(floor, turn.floor)[g].no = floor[g].no
                               /\ Failed(floor, turn.floor)[g].live = floor[g].live
                               /\ Failed(floor, turn.floor)[g].by = floor[g].by
      BY <1>0, <2>1, FailedFloors DEF At, TypeOK
    <3> HIDE DEF Failed
    <3>3. turn.at \notin Ended /\ turn'.at \notin Working
      BY <2>1 DEF Ended, NoTurn, Working, Running
    <3> QED  BY <2>1, <3>1, <3>2, <3>3, RestoredAnswers
  <2> QED  BY <2>2, <2>3
<1>7. CASE Complete \/ GiveUp
  <2>1. /\ turn' = NoTurn /\ floor' = floor /\ output' = output /\ answered' = answered
        /\ At("committed") \/ At("stale")
    BY <1>7 DEF Complete, GiveUp, data
  <2>2. At("stale") => turn.source = None
    BY DEF OnlyRetriesRefused, OutputInv, TurnFresh, At, Ended
  <2> QED  BY <2>1, <2>2, QuietAnswers
<1> QED  BY <1>1, <1>2, <1>4, <1>5, <1>6, <1>7, CommitAnswers DEF Step

(* What the user was shown is never lost.  Whatever mixture of responds,   *)
(* regenerates and retries succeeds, fails, is cancelled, blocked or       *)
(* refused, with polls and swipes at any moment, every floor number that   *)
(* was answered once has a live floor that shows an output when no turn is *)
(* in progress.  The hypotheses are those under which the code keeps this: *)
(* nothing restores the source of a regenerate after a crash, nor after a  *)
(* refused commit (chat-service.ts, handlePreparedFloorGenerationFailure). *)
THEOREM AnswersNeverLost ==
  ASSUME MaxCrashes = 0, ~SlowTurns, MaxAttempts = 1
  PROVE  Spec => []AnswersSurvive
<1>1. Init => AnswersKept
  BY DEF Init, NoTurn, AnswersKept, Working, Running
<1>2. TypeOK /\ OutputInv /\ Numbered /\ OnlyRetriesRefused /\ AnswersKept /\ [Next]_vars
      => AnswersKept'
  <2> SUFFICES ASSUME TypeOK, OutputInv, Numbered, OnlyRetriesRefused, AnswersKept, [Next]_vars
               PROVE  AnswersKept'
    OBVIOUS
  <2>1. ~Crash
    BY DEF Crash, TypeOK
  <2>2. CASE UNCHANGED vars
    BY <2>2, QuietAnswers DEF vars
  <2>3. ASSUME NEW f \in Floors, Silence(f) \/ Poll(f) PROVE AnswersKept'
    <3>1. \A g \in Floors : floor'[g].no = floor[g].no /\ floor'[g].live = floor[g].live
      BY <2>3, FailedFloors DEF Silence, Poll, TypeOK
    <3> QED  BY <2>3, <3>1, QuietAnswers DEF Silence, Poll
  <2>4. ASSUME NEW f \in Floors, NEW v \in 1 .. MaxPages, ActivatePage(f, v) PROVE AnswersKept'
    <3>1. \A g \in Floors : output[g].shown > 0 => output'[g].shown > 0
      BY <2>4, TurnAssumption DEF ActivatePage, TypeOK
    <3> QED  BY <2>4, <3>1, QuietAnswers DEF ActivatePage
  <2> QED  BY <2>1, <2>2, <2>3, <2>4, RequestAnswers, StepAnswers DEF Next
<1>3. AnswersKept => AnswersSurvive
  BY DEF AnswersKept, AnswersSurvive, Keeps, At, Ended
<1> QED
  BY <1>1, <1>2, <1>3, TypeCorrect, OutputInvariant, NumberedInvariant, RefusedInvariant,
     PTL DEF Spec

=============================================================================
