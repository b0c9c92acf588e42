------------------------------- MODULE RunLog -------------------------------
(***************************************************************************)
(* The realtime run log of the API server: RealtimeSequencer,              *)
(* RealtimeRunEventBuffer and RealtimeRunLog                               *)
(* (apps/api/src/realtime/run-log).  It listens to the event bus, numbers  *)
(* the events of every floor run and keeps the newest of them in memory.   *)
(*                                                                         *)
(* An entry of the buffer holds consecutive events: they enter with the    *)
(* next number of the sequencer and leave from the front only.  So its     *)
(* events are minSeq .. maxSeq, and an empty entry has minSeq > maxSeq.    *)
(*                                                                         *)
(* The clock is left out: sweep finds any set of ended runs expired, and   *)
(* among the runs of the class evictOne takes from, any may be the oldest. *)
(***************************************************************************)
EXTENDS Integers, FiniteSets

CONSTANTS
  Floors,           \* floor ids
  Runs,             \* run ids, fresh nanoids of initializeRun
  FloorOf,          \* the floor each run is a run of
  MaxEventsPerRun,  \* RealtimeRunEventBufferOptions.maxEventsPerRun
  MaxRuns,          \* RealtimeRunEventBufferOptions.maxRuns
  MaxEvents,        \* model bound: events published
  NoRun             \* the map of a floor has no value

ASSUME LogConstants ==
  /\ FloorOf \in [Runs -> Floors]
  /\ IsFiniteSet(Runs)
  /\ MaxEventsPerRun \in Nat \ {0}
  /\ MaxRuns \in Nat \ {0}
  /\ MaxEvents \in Nat
  /\ NoRun \notin Runs

VARIABLES
  floorRun,    \* floor_run_states: the newest run of each floor
  counters,    \* RealtimeSequencer.counters; 0: the run has no counter
  buffer,      \* RealtimeRunEventBuffer.runs
  floorToRun,  \* RealtimeRunLog.floorToRun
  runToFloor,  \* the keys of RealtimeRunLog.runToFloor; its values are FloorOf
  published,   \* events numbered so far (bounded by MaxEvents)
  base         \* history: events of a run that were numbered and forgotten

logVars == <<counters, buffer, floorToRun, runToFloor, published, base>>

NoWindow == [present |-> FALSE, minSeq |-> 0, maxSeq |-> 0, ended |-> FALSE]

Entry == [present : BOOLEAN, minSeq : Nat, maxSeq : Nat, ended : BOOLEAN]

LogTypeOK ==
  /\ floorRun \in [Floors -> Runs \cup {NoRun}]
  /\ counters \in [Runs -> Nat]
  /\ buffer \in [Runs -> Entry]
  /\ floorToRun \in [Floors -> Runs \cup {NoRun}]
  /\ runToFloor \subseteq Runs
  /\ published \in Nat
  /\ base \in [Runs -> Nat]

LogInit ==
  /\ floorRun = [f \in Floors |-> NoRun]
  /\ counters = [r \in Runs |-> 0]
  /\ buffer = [r \in Runs |-> NoWindow]
  /\ floorToRun = [f \in Floors |-> NoRun]
  /\ runToFloor = {}
  /\ published = 0
  /\ base = [r \in Runs |-> 0]

-----------------------------------------------------------------------------
(* The buffer.                                                             *)

Buffered == {r \in Runs : buffer[r].present}

Larger(a, b) == IF a < b THEN b ELSE a
Smaller(a, b) == IF a < b THEN a ELSE b

\* append, once there is room: the event takes the place of the oldest ones
\* beyond maxEventsPerRun.
Appended(r, seq) ==
  [present |-> TRUE,
   minSeq  |-> IF buffer[r].present
                 THEN Larger(buffer[r].minSeq, seq - MaxEventsPerRun + 1)
                 ELSE seq,
   maxSeq  |-> seq,
   ended   |-> buffer[r].ended]

\* evictOne: ended runs go first.
Victims ==
  LET ended == {r \in Buffered : buffer[r].ended}
  IN  IF ended # {} THEN ended ELSE Buffered

BadEvictions(r) ==
  IF ~buffer[r].present /\ Cardinality(Buffered) > MaxRuns
    THEN {{v} : v \in Victims}
    ELSE {{}}

\* The runs append evicts to make room for run r: none or one.
Evictions(r) ==
  IF ~buffer[r].present /\ Cardinality(Buffered) >= MaxRuns
    THEN {{v} : v \in Victims}
    ELSE {{}}

BadReplayable(r, lastSeq) ==
  /\ buffer[r].present
  /\ \/ lastSeq >= buffer[r].maxSeq
     \/ lastSeq >= buffer[r].minSeq - 2

\* What getEnvelopesSince answers "ok" to.
Replayable(r, lastSeq) ==
  /\ buffer[r].present
  /\ \/ lastSeq >= buffer[r].maxSeq
     \/ lastSeq >= buffer[r].minSeq - 1

\* releaseUpTo: the acknowledged prefix goes, the entry stays.
ReleasedUpTo(entry, ackSeq) ==
  LET effectiveAck == Smaller(ackSeq, entry.maxSeq)
  IN  IF entry.present /\ effectiveAck >= entry.minSeq
        THEN [entry EXCEPT !.minSeq = effectiveAck + 1]
        ELSE entry

-----------------------------------------------------------------------------
(* The log.  `gone` is a set of runs released in the step; onRelease       *)
(* resets the counter of each and calls forgetRun.                         *)

BadCounted(gone) == [x \in Runs |-> IF x \in gone THEN -1 ELSE counters[x]]
Counted(gone) == [x \in Runs |-> IF x \in gone THEN 0 ELSE counters[x]]
Forgotten(gone) == [x \in Runs |-> IF x \in gone THEN base[x] + counters[x] ELSE base[x]]
\* The floor may be mapped to a newer run already, which stays.
Unmapped(map, gone) == [f \in Floors |-> IF map[f] \in gone THEN NoRun ELSE map[f]]
Emptied(gone) == [x \in Runs |-> IF x \in gone THEN NoWindow ELSE buffer[x]]

\* ingest: number the event and append it.  over: markEnded follows.
Ingest(r, gone, over) ==
  LET seq == counters[r] + 1
  IN  /\ gone \in Evictions(r)
      /\ published < MaxEvents
      /\ published' = published + 1
      /\ counters' = [Counted(gone) EXCEPT ![r] = seq]
      /\ buffer' = [Emptied(gone) EXCEPT
                      ![r] = [Appended(r, seq) EXCEPT !.ended = @ \/ over]]
      /\ base' = Forgotten(gone)

\* handleFloorRun, for the event emitSnapshot publishes after every write of a
\* run row.  over: its status is completed or failed; a cancelled run is
\* published as floor.run.updated, like a running one.
HandleFloorRun(r, over, gone) ==
  /\ Ingest(r, gone, over)
  /\ floorToRun' = Unmapped([floorToRun EXCEPT ![FloorOf[r]] = r], gone)
  /\ runToFloor' = (runToFloor \cup {r}) \ gone

\* handleGeneration: the event goes to the run its floor is mapped to.
HandleGeneration(f, gone) ==
  /\ floorToRun[f] # NoRun
  /\ Ingest(floorToRun[f], gone, FALSE)
  /\ floorToRun' = Unmapped(floorToRun, gone)
  /\ runToFloor' = runToFloor \ gone
  /\ UNCHANGED floorRun

\* release of several runs.
Release(gone) ==
  /\ UNCHANGED published
  /\ counters' = Counted(gone)
  /\ buffer' = Emptied(gone)
  /\ base' = Forgotten(gone)
  /\ floorToRun' = Unmapped(floorToRun, gone)
  /\ runToFloor' = runToFloor \ gone

\* sweep, from the timer of start: the ended runs whose time is over.
Sweep(gone) ==
  /\ gone # {}
  /\ \A r \in gone : buffer[r].present /\ buffer[r].ended
  /\ Release(gone)
  /\ UNCHANGED floorRun

\* initializeRun: a fresh run takes over the row of its floor.
InitializeRun(r, gone) ==
  /\ base[r] + counters[r] = 0
  /\ floorRun' = [floorRun EXCEPT ![FloorOf[r]] = r]
  /\ HandleFloorRun(r, FALSE, gone)

\* advancePhase, startAttempt, updatePendingOutput, markCompleted, markFailed
\* and markCancelled write the row of the floor, whatever its status is, and
\* publish it: a run that is over may be published again, or go on.
WriteRun(f, over, gone) ==
  /\ floorRun[f] # NoRun
  /\ HandleFloorRun(floorRun[f], over, gone)
  /\ UNCHANGED floorRun

-----------------------------------------------------------------------------
(* Properties.                                                             *)

\* The three maps and the counters know the same runs: a run that is released
\* leaves nothing behind, whatever floor it ran on and whatever run took that
\* floor over, and the buffer stays within its size.
NothingLeaks ==
  /\ \A r \in Runs : (counters[r] > 0) <=> buffer[r].present
  /\ \A r \in Runs : buffer[r].present => counters[r] = buffer[r].maxSeq
  /\ runToFloor = Buffered
  /\ \A f \in Floors : floorToRun[f] # NoRun =>
       floorToRun[f] \in Buffered /\ FloorOf[floorToRun[f]] = f
  /\ Cardinality(Buffered) <= MaxRuns

\* What a generation produces is logged for the newest run of its floor, even
\* when an older run of the floor is released in between.
EventsReachNewest ==
  \A f \in Floors : floorRun[f] \in Buffered => floorToRun[f] = floorRun[f]

=============================================================================
