-------------------------- MODULE RunStreamsProofs --------------------------
(***************************************************************************)
(* Proofs about the realtime run log and the resume coordinator, for every *)
(* number of runs, floors, sockets and handlers and every buffer size.     *)
(*                                                                         *)
(* The argument has two layers.  LogInv is inductive for the log alone:    *)
(* Ingest and Release keep the counters, the entries and the maps in step. *)
(* StreamInv adds the subscriptions.  What makes it inductive is that      *)
(* `since` never exceeds base[r], and that forgetting a run raises base[r] *)
(* by a counter that is not 0: a subscription whose run was forgotten can  *)
(* never be mistaken for a current one.                                    *)
(***************************************************************************)
EXTENDS RunStreams, FiniteSetTheorems, WellFoundedInduction, TLAPS

\* An entry is a window of numbers that starts at 1 or later.
EntriesSound ==
  \A r \in Runs : buffer[r].present =>
    buffer[r].minSeq >= 1 /\ buffer[r].minSeq <= buffer[r].maxSeq + 1

\* The row of a floor names a run of that floor.
RowsSound == \A f \in Floors : floorRun[f] # NoRun => FloorOf[floorRun[f]] = f

LogInv == LogTypeOK /\ NothingLeaks /\ EntriesSound /\ RowsSound /\ EventsReachNewest

\* Runs that an event on run r may push out are others that are in the buffer.
LEMMA EvictionsAreOthers ==
  ASSUME NEW r \in Runs, NEW gone \in Evictions(r)
  PROVE  gone \subseteq Buffered /\ r \notin gone
<1>1. Victims \subseteq Buffered
  BY DEF Victims
<1>2. CASE ~buffer[r].present /\ Cardinality(Buffered) >= MaxRuns
  <2>1. PICK v \in Victims : gone = {v}
    BY <1>2 DEF Evictions
  <2>2. v \in Buffered
    BY <1>1
  <2>3. buffer[v].present /\ v \in Runs
    BY <2>2 DEF Buffered
  <2>4. v # r
    BY <1>2, <2>3
  <2> QED
    BY <2>1, <2>2, <2>4
<1>3. CASE ~(~buffer[r].present /\ Cardinality(Buffered) >= MaxRuns)
  BY <1>3 DEF Evictions
<1> QED
  BY <1>2, <1>3

\* What numbering and appending one event does to the log.
LEMMA IngestFacts ==
  ASSUME LogInv, NEW r \in Runs, NEW gone, NEW over \in BOOLEAN, Ingest(r, gone, over)
  PROVE  /\ gone \subseteq Buffered /\ r \notin gone
         /\ counters' \in [Runs -> Nat] /\ buffer' \in [Runs -> Entry]
         /\ base' \in [Runs -> Nat] /\ published' \in Nat
         /\ \A x \in Runs : counters'[x] = IF x = r THEN counters[r] + 1
                                           ELSE IF x \in gone THEN 0 ELSE counters[x]
         /\ \A x \in Runs : base'[x] = IF x \in gone THEN base[x] + counters[x] ELSE base[x]
         /\ \A x \in Runs \ {r} : buffer'[x] = IF x \in gone THEN NoWindow ELSE buffer[x]
         /\ buffer'[r].present
         /\ buffer'[r].minSeq =
              IF buffer[r].present
                THEN Larger(buffer[r].minSeq, (counters[r] + 1) - MaxEventsPerRun + 1)
                ELSE counters[r] + 1
         /\ buffer'[r].maxSeq = counters[r] + 1
<1> DEFINE seq == counters[r] + 1
<1> USE DEF LogInv, LogTypeOK
<1>1. gone \subseteq Buffered /\ r \notin gone
  BY EvictionsAreOthers DEF Ingest
<1>2. seq \in Nat /\ counters[r] \in Nat
  OBVIOUS
<1>3. Counted(gone) \in [Runs -> Nat] /\ Forgotten(gone) \in [Runs -> Nat]
  BY DEF Counted, Forgotten
<1>4. Emptied(gone) \in [Runs -> Entry]
  BY DEF Emptied, NoWindow, Entry
<1>5. Appended(r, seq).minSeq \in Nat
  <2>1. buffer[r] \in Entry
    OBVIOUS
  <2>2. buffer[r].minSeq \in Nat
    BY <2>1 DEF Entry
  <2>3. Larger(buffer[r].minSeq, seq - MaxEventsPerRun + 1) \in Nat
    BY <1>2, <2>2, LogConstants DEF Larger
  <2> QED
    BY <1>2, <2>3 DEF Appended
<1>0. Appended(r, seq).minSeq = IF buffer[r].present
         THEN Larger(buffer[r].minSeq, seq - MaxEventsPerRun + 1) ELSE seq
  BY DEF Appended
<1>6. Appended(r, seq).ended \in BOOLEAN
  BY DEF Appended, Entry
<1> DEFINE entry == [Appended(r, seq) EXCEPT !.ended = @ \/ over]
<1>7. /\ entry \in Entry /\ entry.present /\ entry.maxSeq = seq
      /\ entry.minSeq = Appended(r, seq).minSeq
  BY <1>2, <1>5, <1>6 DEF Appended, Entry
<1>8. /\ counters' = [Counted(gone) EXCEPT ![r] = seq]
      /\ buffer' = [Emptied(gone) EXCEPT ![r] = entry]
      /\ base' = Forgotten(gone)
      /\ published' = published + 1
  BY DEF Ingest
<1> HIDE DEF entry, seq
<1>9. counters' \in [Runs -> Nat] /\ buffer' \in [Runs -> Entry] /\ base' \in [Runs -> Nat]
  BY <1>2, <1>3, <1>4, <1>7, <1>8
<1>10. published' \in Nat
  BY <1>8
<1>11. \A x \in Runs : counters'[x] = IF x = r THEN seq ELSE Counted(gone)[x]
  BY <1>3, <1>8
<1>12. \A x \in Runs : buffer'[x] = IF x = r THEN entry ELSE Emptied(gone)[x]
  BY <1>4, <1>8
<1>13. \A x \in Runs : x # r => counters'[x] = IF x \in gone THEN 0 ELSE counters[x]
  BY <1>11 DEF Counted
<1>14. \A x \in Runs : base'[x] = IF x \in gone THEN base[x] + counters[x] ELSE base[x]
  BY <1>8 DEF Forgotten
<1>15. \A x \in Runs \ {r} : buffer'[x] = IF x \in gone THEN NoWindow ELSE buffer[x]
  BY <1>12 DEF Emptied
<1>16. buffer'[r] = entry /\ counters'[r] = seq
  BY <1>11, <1>12
<1>17. /\ buffer'[r].present /\ buffer'[r].maxSeq = seq
       /\ buffer'[r].minSeq =
            IF buffer[r].present THEN Larger(buffer[r].minSeq, seq - MaxEventsPerRun + 1) ELSE seq
  BY <1>0, <1>7, <1>16
<1>18. \A x \in Runs : counters'[x] = IF x = r THEN seq ELSE IF x \in gone THEN 0 ELSE counters[x]
  BY <1>13, <1>16
<1> QED
  BY <1>1, <1>9, <1>10, <1>14, <1>15, <1>17, <1>18 DEF seq

\* The buffer makes room before it takes a new run in.
LEMMA IngestKeepsSize ==
  ASSUME LogInv, NEW r \in Runs, NEW gone, NEW over \in BOOLEAN, Ingest(r, gone, over)
  PROVE  /\ Buffered' = (Buffered \ gone) \cup {r}
         /\ Cardinality(Buffered') <= MaxRuns
<1>1. /\ gone \subseteq Buffered /\ r \notin gone
      /\ \A x \in Runs \ {r} : buffer'[x] = IF x \in gone THEN NoWindow ELSE buffer[x]
      /\ buffer'[r].present
  BY IngestFacts
<1>2. \A x \in Runs : buffer'[x].present <=> x = r \/ (buffer[x].present /\ x \notin gone)
  <2>1. ASSUME NEW x \in Runs, x # r
        PROVE  buffer'[x].present <=> (buffer[x].present /\ x \notin gone)
    <3>1. CASE x \in gone
      BY <1>1, <2>1, <3>1 DEF NoWindow
    <3>2. CASE x \notin gone
      BY <1>1, <2>1, <3>2
    <3> QED
      BY <3>1, <3>2
  <2> QED
    BY <1>1, <2>1
<1>3. Buffered' = (Buffered \ gone) \cup {r}
  BY <1>2 DEF Buffered
<1>4. IsFiniteSet(Buffered) /\ Cardinality(Buffered) \in Nat /\ Cardinality(Buffered) <= MaxRuns
  BY FS_Subset, FS_CardinalityType, LogConstants DEF Buffered, LogInv, NothingLeaks
<1>5. gone \in Evictions(r)
  BY DEF Ingest
<1>6. CASE buffer[r].present
  <2>1. gone = {} /\ r \in Buffered
    BY <1>5, <1>6 DEF Evictions, Buffered
  <2> QED
    BY <1>3, <1>4, <2>1
<1>7. CASE ~buffer[r].present /\ Cardinality(Buffered) >= MaxRuns
  <2>1. PICK v \in Victims : gone = {v}
    BY <1>5, <1>7 DEF Evictions
  <2>2. v \in Buffered
    BY <1>1, <2>1
  <2>3. /\ IsFiniteSet(Buffered \ {v})
        /\ Cardinality(Buffered \ {v}) = Cardinality(Buffered) - 1
    BY <1>4, <2>2, FS_RemoveElement
  <2>4. r \notin Buffered \ {v}
    BY <1>7 DEF Buffered
  <2>5. Cardinality((Buffered \ {v}) \cup {r}) = Cardinality(Buffered \ {v}) + 1
    BY <2>3, <2>4, FS_AddElement
  <2> QED
    BY <1>3, <1>4, <2>1, <2>3, <2>5
<1>8. CASE ~buffer[r].present /\ ~(Cardinality(Buffered) >= MaxRuns)
  <2>1. gone = {}
    BY <1>5, <1>8 DEF Evictions
  <2>2. r \notin Buffered
    BY <1>8 DEF Buffered
  <2>3. Cardinality(Buffered \cup {r}) = Cardinality(Buffered) + 1
    BY <1>4, <2>2, FS_AddElement
  <2>4. Buffered' = Buffered \cup {r}
    BY <1>3, <2>1
  <2>5. Cardinality(Buffered) + 1 <= MaxRuns
    BY <1>4, <1>8, LogConstants
  <2> QED
    BY <1>3, <2>3, <2>4, <2>5
<1> QED
  BY <1>3, <1>6, <1>7, <1>8

\* The parts of LogInv that only numbering and appending can disturb.
LEMMA IngestKeepsEntries ==
  ASSUME LogInv, NEW r \in Runs, NEW gone, NEW over \in BOOLEAN, Ingest(r, gone, over)
  PROVE  /\ \A x \in Runs : (counters'[x] > 0) <=> buffer'[x].present
         /\ \A x \in Runs : buffer'[x].present => counters'[x] = buffer'[x].maxSeq
         /\ EntriesSound'
<1> USE DEF LogInv, LogTypeOK, NothingLeaks, EntriesSound
<1>1. /\ \A x \in Runs : counters'[x] = IF x = r THEN counters[r] + 1
                                         ELSE IF x \in gone THEN 0 ELSE counters[x]
      /\ \A x \in Runs \ {r} : buffer'[x] = IF x \in gone THEN NoWindow ELSE buffer[x]
      /\ buffer'[r].present
      /\ buffer'[r].minSeq =
           IF buffer[r].present
             THEN Larger(buffer[r].minSeq, (counters[r] + 1) - MaxEventsPerRun + 1)
             ELSE counters[r] + 1
      /\ buffer'[r].maxSeq = counters[r] + 1
  BY IngestFacts
<1>2. counters[r] \in Nat /\ buffer[r] \in Entry
  OBVIOUS
<1>3. /\ (counters'[r] > 0) <=> buffer'[r].present
      /\ counters'[r] = buffer'[r].maxSeq
  BY <1>1, <1>2
<1>4. buffer'[r].minSeq >= 1 /\ buffer'[r].minSeq <= buffer'[r].maxSeq + 1
  <2>1. CASE buffer[r].present
    <3>1. /\ buffer[r].minSeq \in Nat /\ buffer[r].minSeq >= 1
          /\ buffer[r].minSeq <= counters[r] + 1
      BY <1>2, <2>1 DEF Entry
    <3>2. buffer'[r].minSeq = Larger(buffer[r].minSeq, (counters[r] + 1) - MaxEventsPerRun + 1)
      BY <1>1, <2>1
    <3> QED
      BY <1>1, <1>2, <3>1, <3>2, LogConstants DEF Larger
  <2>2. CASE ~buffer[r].present
    <3>1. buffer'[r].minSeq = counters[r] + 1
      BY <1>1, <2>2
    <3> QED
      BY <1>1, <1>2, <3>1
  <2> QED
    BY <2>1, <2>2
<1>5. ASSUME NEW x \in Runs \ {r}
      PROVE  /\ (counters'[x] > 0) <=> buffer'[x].present
             /\ buffer'[x].present => counters'[x] = buffer'[x].maxSeq
             /\ buffer'[x].present =>
                  buffer'[x].minSeq >= 1 /\ buffer'[x].minSeq <= buffer'[x].maxSeq + 1
  <2>1. CASE x \in gone
    <3>1. counters'[x] = 0 /\ ~buffer'[x].present
      BY <1>1, <2>1 DEF NoWindow
    <3> QED
      BY <3>1
  <2>2. CASE x \notin gone
    BY <1>1, <2>2
  <2> QED
    BY <2>1, <2>2
<1> QED
  BY <1>3, <1>4, <1>5

\* An event of a floor run: initializeRun gives the floor to r, the other
\* writes find r there.
LEMMA FloorRunKeepsLog ==
  ASSUME LogInv, NEW r \in Runs, NEW gone, NEW over \in BOOLEAN,
         HandleFloorRun(r, over, gone),
         floorRun' = [floorRun EXCEPT ![FloorOf[r]] = r]
  PROVE  LogInv'
<1> USE DEF LogInv
<1>1. Ingest(r, gone, over)
  BY DEF HandleFloorRun
<1>2. /\ gone \subseteq Buffered /\ r \notin gone
      /\ counters' \in [Runs -> Nat] /\ buffer' \in [Runs -> Entry]
      /\ base' \in [Runs -> Nat] /\ published' \in Nat
  BY <1>1, IngestFacts
<1>3. Buffered' = (Buffered \ gone) \cup {r} /\ Cardinality(Buffered') <= MaxRuns
  BY <1>1, IngestKeepsSize
<1>4. FloorOf[r] \in Floors
  BY LogConstants
<1>5. /\ floorToRun' = [f \in Floors |->
           IF [floorToRun EXCEPT ![FloorOf[r]] = r][f] \in gone THEN NoRun
           ELSE [floorToRun EXCEPT ![FloorOf[r]] = r][f]]
      /\ runToFloor' = (runToFloor \cup {r}) \ gone
  BY DEF HandleFloorRun, Unmapped
<1>6. \A f \in Floors : floorToRun'[f] =
        IF f = FloorOf[r] THEN r
        ELSE IF floorToRun[f] \in gone THEN NoRun ELSE floorToRun[f]
  BY <1>2, <1>4, <1>5 DEF LogTypeOK
<1>7. LogTypeOK'
  <2>1. floorRun' \in [Floors -> Runs \cup {NoRun}]
    BY <1>4 DEF LogTypeOK
  <2>2. floorToRun' \in [Floors -> Runs \cup {NoRun}]
    BY <1>5, <1>6 DEF LogTypeOK
  <2>3. runToFloor' \subseteq Runs
    BY <1>5 DEF LogTypeOK
  <2> QED
    BY <1>2, <2>1, <2>2, <2>3 DEF LogTypeOK
<1>8. NothingLeaks'
  <2>1. runToFloor' = Buffered'
    BY <1>2, <1>3, <1>5 DEF NothingLeaks
  <2>2. ASSUME NEW f \in Floors, floorToRun'[f] # NoRun
        PROVE  floorToRun'[f] \in Buffered' /\ FloorOf[floorToRun'[f]] = f
    BY <1>3, <1>6, <2>2 DEF NothingLeaks
  <2> QED
    BY <1>1, <1>3, <2>1, <2>2, IngestKeepsEntries DEF NothingLeaks
<1>9. RowsSound'
  BY <1>4 DEF RowsSound, LogTypeOK
<1>10. EventsReachNewest'
  <2> SUFFICES ASSUME NEW f \in Floors, floorRun'[f] \in Buffered'
               PROVE  floorToRun'[f] = floorRun'[f]
    BY DEF EventsReachNewest
  <2>1. CASE f = FloorOf[r]
    BY <1>4, <1>6, <2>1 DEF LogTypeOK
  <2>2. CASE f # FloorOf[r]
    <3>1. floorRun'[f] = floorRun[f] /\ floorRun[f] # r
      BY <1>4, <2>2, LogConstants DEF RowsSound, LogTypeOK
    <3>2. floorRun[f] \in Buffered /\ floorRun[f] \notin gone
      BY <1>3, <3>1
    <3> QED
      BY <1>6, <2>2, <3>1, <3>2 DEF EventsReachNewest
  <2> QED
    BY <2>1, <2>2
<1> QED
  BY <1>1, <1>7, <1>8, <1>9, <1>10, IngestKeepsEntries

\* An event of a generation goes to a run the log knows.
LEMMA GenerationKeepsLog ==
  ASSUME LogInv, NEW f0 \in Floors, NEW gone, HandleGeneration(f0, gone)
  PROVE  LogInv'
<1> DEFINE r == floorToRun[f0]
<1> USE DEF LogInv
<1>1. r \in Runs /\ r \in Buffered /\ Ingest(r, gone, FALSE)
  BY DEF HandleGeneration, LogTypeOK, NothingLeaks
<1>2. /\ floorToRun' = Unmapped(floorToRun, gone)
      /\ runToFloor' = runToFloor \ gone
      /\ UNCHANGED floorRun
  BY DEF HandleGeneration
<1> HIDE DEF r
<1>3. /\ gone \subseteq Buffered /\ r \notin gone
      /\ counters' \in [Runs -> Nat] /\ buffer' \in [Runs -> Entry]
      /\ base' \in [Runs -> Nat] /\ published' \in Nat
  BY <1>1, IngestFacts
<1>4. Buffered' = Buffered \ gone /\ Cardinality(Buffered') <= MaxRuns
  <2>1. /\ Buffered' = (Buffered \ gone) \cup {r}
        /\ Cardinality(Buffered') <= MaxRuns
    BY <1>1, IngestKeepsSize, Zenon
  <2> QED
    BY <1>1, <1>3, <2>1
<1>5. \A f \in Floors : floorToRun'[f] = IF floorToRun[f] \in gone THEN NoRun ELSE floorToRun[f]
  BY <1>2 DEF Unmapped
<1>6. LogTypeOK'
  BY <1>2, <1>3 DEF LogTypeOK, Unmapped
<1>7. NothingLeaks'
  BY <1>1, <1>2, <1>4, <1>5, IngestKeepsEntries DEF NothingLeaks
<1>8. RowsSound' /\ EventsReachNewest'
  BY <1>2, <1>4, <1>5 DEF RowsSound, EventsReachNewest
<1> QED
  BY <1>1, <1>6, <1>7, <1>8, IngestKeepsEntries

\* Runs the sweep finds expired leave every map at once.
LEMMA SweepKeepsLog ==
  ASSUME LogInv, NEW gone \in SUBSET Buffered, Sweep(gone)
  PROVE  LogInv'
<1> USE DEF LogInv
<1>1. /\ counters' = Counted(gone) /\ buffer' = Emptied(gone) /\ base' = Forgotten(gone)
      /\ floorToRun' = Unmapped(floorToRun, gone) /\ runToFloor' = runToFloor \ gone
      /\ UNCHANGED <<floorRun, published>>
  BY DEF Sweep, Release
<1>2. LogTypeOK'
  BY <1>1 DEF LogTypeOK, Counted, Emptied, Forgotten, Unmapped, NoWindow, Entry
<1>3. \A x \in Runs : /\ counters'[x] = IF x \in gone THEN 0 ELSE counters[x]
                      /\ buffer'[x] = IF x \in gone THEN NoWindow ELSE buffer[x]
  BY <1>1 DEF Counted, Emptied
<1>4. Buffered' = Buffered \ gone
  BY <1>3 DEF Buffered, NoWindow
<1>5. IsFiniteSet(Buffered) /\ Cardinality(Buffered') <= Cardinality(Buffered)
  BY <1>4, FS_Subset, LogConstants DEF Buffered
<1>6. Cardinality(Buffered') <= MaxRuns
  <2>1. IsFiniteSet(Buffered')
    BY <1>4, <1>5, FS_Subset
  <2> QED
    BY <1>5, <2>1, FS_CardinalityType, LogConstants DEF NothingLeaks
<1>7. \A f \in Floors : floorToRun'[f] = IF floorToRun[f] \in gone THEN NoRun ELSE floorToRun[f]
  BY <1>1 DEF Unmapped
<1>8. NothingLeaks'
  <2>1. ASSUME NEW x \in Runs
        PROVE  /\ (counters'[x] > 0) <=> buffer'[x].present
               /\ buffer'[x].present => counters'[x] = buffer'[x].maxSeq
    BY <1>3 DEF NothingLeaks, NoWindow
  <2>2. runToFloor' = Buffered'
    BY <1>1, <1>4 DEF NothingLeaks
  <2>3. ASSUME NEW f \in Floors, floorToRun'[f] # NoRun
        PROVE  floorToRun'[f] \in Buffered' /\ FloorOf[floorToRun'[f]] = f
    BY <1>4, <1>7, <2>3 DEF NothingLeaks
  <2> QED
    BY <1>6, <2>1, <2>2, <2>3 DEF NothingLeaks
<1>9. EntriesSound'
  BY <1>3 DEF EntriesSound, NoWindow
<1>10. RowsSound' /\ EventsReachNewest'
  BY <1>1, <1>4, <1>7 DEF RowsSound, EventsReachNewest
<1> QED
  BY <1>2, <1>8, <1>9, <1>10

-----------------------------------------------------------------------------
(* The subscriptions.                                                      *)

\* The smallest acknowledgement is one of them.
LEMMA ReleaseSeqIsLeast ==
  ASSUME NEW acked \in SUBSET Nat, acked # {}
  PROVE  ReleaseSeq(acked) \in acked /\ \A b \in acked : ReleaseSeq(acked) <= b
<1>1. IsWellFoundedOn(OpToRel(<, Nat), Nat)
  BY NatLessThanWellFounded
<1>2. PICK a \in acked : \A b \in acked : ~(<<b, a>> \in OpToRel(<, Nat))
  BY <1>1, WFMin
<1>3. \A b \in acked : ~(b < a)
  BY <1>2 DEF OpToRel
<1>4. a \in acked /\ \A b \in acked : a <= b
  BY <1>3
<1> QED
  BY <1>4 DEF ReleaseSeq

\* What a subscription s of a run guarantees, when n events of the run have been
\* numbered, e is its entry and b events of it were forgotten.
Sound(s, n, e, b) ==
  s.present /\ s.mode = "live" =>
    /\ s.since <= b
    /\ s.since = b =>
         /\ e.present
         /\ s.sent = {k \in 1 .. n : k > s.from}
         /\ s.lastSentSeq = Larger(s.from, n)
         /\ s.liveQueue = {}
         /\ e.minSeq - 1 <= Larger(Larger(s.from, s.ackSeq), n - MaxEventsPerRun)

SubsSound ==
  \A r \in Runs, c \in Conns : Sound(subs[r][c], counters[r], buffer[r], base[r])

\* A handler that is busy has a connection and a run.
HandlersSound ==
  \A h \in Handlers : handler[h].stage # "idle" =>
    handler[h].conn \in Conns /\ handler[h].run \in Runs

StreamInv == LogInv /\ TypeOK /\ HandlersSound /\ SubsSound /\ SocketsInStep /\ NobodyForgotten

\* A subscription after the next event of its run, whose entry is e2 now.
LEMMA RoutedSound ==
  ASSUME NEW s \in Subscription, NEW n \in Nat, NEW e \in Entry, NEW b \in Nat,
         Sound(s, n, e, b), NEW e2 \in Entry, e2.present,
         e.present => e2.minSeq = Larger(e.minSeq, (n + 1) - MaxEventsPerRun + 1)
  PROVE  /\ Routed(s, n + 1) \in Subscription
         /\ Sound(Routed(s, n + 1), n + 1, e2, b)
         /\ Routed(s, n + 1).present = s.present
         /\ Routed(s, n + 1).mode = s.mode
         /\ Routed(s, n + 1).since = s.since
         /\ s.present /\ s.mode = "live" =>
              Routed(s, n + 1).lastSentSeq = IF s.lastSentSeq < n + 1 THEN n + 1 ELSE s.lastSentSeq
<1> DEFINE t == Routed(s, n + 1)
<1>1. CASE ~s.present
  BY <1>1 DEF Routed, Sound
<1>2. CASE s.present /\ s.mode = "resuming"
  <2>1. t = [s EXCEPT !.liveQueue = s.liveQueue \cup {n + 1}]
    BY <1>2 DEF Routed
  <2>2. s.liveQueue \cup {n + 1} \in SUBSET Nat
    BY DEF Subscription
  <2>3. t \in Subscription
    BY <2>1, <2>2 DEF Subscription
  <2>4. t.present = s.present /\ t.mode = s.mode /\ t.since = s.since
    BY <2>1 DEF Subscription
  <2> QED
    BY <1>2, <2>3, <2>4 DEF Sound
<1>3. CASE s.present /\ s.mode = "live"
  <2>1. /\ s.lastSentSeq \in Nat /\ s.from \in Nat /\ s.ackSeq \in Nat /\ s.since \in Nat
        /\ s.sent \in SUBSET Nat /\ s.liveQueue \in SUBSET Nat
        /\ e.minSeq \in Nat /\ e2.minSeq \in Nat /\ MaxEventsPerRun \in Nat \ {0}
    BY LogConstants DEF Subscription, Entry
  <2>2. CASE n + 1 > s.lastSentSeq
    <3>1. t = [s EXCEPT !.lastSentSeq = n + 1, !.sent = s.sent \cup {n + 1}]
      BY <1>3, <2>2 DEF Routed
    <3>2. t \in Subscription
      <4>1. n + 1 \in Nat /\ s.sent \cup {n + 1} \in SUBSET Nat
        BY <2>1
      <4> QED
        BY <3>1, <4>1 DEF Subscription
    <3>3. /\ t.present = s.present /\ t.mode = s.mode /\ t.since = s.since
          /\ t.lastSentSeq = n + 1 /\ t.sent = s.sent \cup {n + 1}
          /\ t.from = s.from /\ t.ackSeq = s.ackSeq /\ t.liveQueue = s.liveQueue
      BY <3>1 DEF Subscription
    <3>4. ASSUME s.since = b
          PROVE  /\ t.sent = {k \in 1 .. n + 1 : k > t.from}
                 /\ t.lastSentSeq = Larger(t.from, n + 1)
                 /\ t.liveQueue = {}
                 /\ e2.minSeq - 1 <= Larger(Larger(t.from, t.ackSeq), (n + 1) - MaxEventsPerRun)
      <4>1. /\ s.sent = {k \in 1 .. n : k > s.from} /\ s.lastSentSeq = Larger(s.from, n)
            /\ s.liveQueue = {} /\ e.present
            /\ e.minSeq - 1 <= Larger(Larger(s.from, s.ackSeq), n - MaxEventsPerRun)
        BY <1>3, <3>4 DEF Sound
      <4>2. s.from < n + 1
        BY <2>1, <2>2, <4>1 DEF Larger
      <4>3. t.sent = {k \in 1 .. n + 1 : k > t.from}
        BY <2>1, <3>3, <4>1, <4>2
      <4>4. t.lastSentSeq = Larger(t.from, n + 1)
        BY <3>3, <4>2 DEF Larger
      <4>5. e2.minSeq - 1 <= Larger(Larger(t.from, t.ackSeq), (n + 1) - MaxEventsPerRun)
        BY <2>1, <3>3, <4>1 DEF Larger
      <4> QED
        BY <3>3, <4>1, <4>3, <4>4, <4>5
    <3>5. t.since <= b
      BY <1>3, <3>3 DEF Sound
    <3>6. Sound(t, n + 1, e2, b)
      BY <3>3, <3>4, <3>5, Zenon DEF Sound
    <3> QED
      BY <2>1, <2>2, <3>2, <3>3, <3>6
  <2>3. CASE ~(n + 1 > s.lastSentSeq)
    <3>1. t = s
      BY <1>3, <2>3 DEF Routed
    <3>2. ASSUME s.since = b
          PROVE  /\ s.sent = {k \in 1 .. n + 1 : k > s.from}
                 /\ s.lastSentSeq = Larger(s.from, n + 1)
                 /\ s.liveQueue = {}
                 /\ e2.minSeq - 1 <= Larger(Larger(s.from, s.ackSeq), (n + 1) - MaxEventsPerRun)
      <4>1. /\ s.sent = {k \in 1 .. n : k > s.from} /\ s.lastSentSeq = Larger(s.from, n)
            /\ s.liveQueue = {} /\ e.present
            /\ e.minSeq - 1 <= Larger(Larger(s.from, s.ackSeq), n - MaxEventsPerRun)
        BY <1>3, <3>2 DEF Sound
      <4>2. s.from >= n + 1
        BY <2>1, <2>3, <4>1 DEF Larger
      <4> QED
        BY <2>1, <4>1, <4>2 DEF Larger
    <3>3. Sound(s, n + 1, e2, b)
      BY <1>3, <3>2, Zenon DEF Sound
    <3> QED
      BY <1>3, <2>1, <2>3, <3>1, <3>3
  <2> QED
    BY <2>2, <2>3
<1> QED
  BY <1>1, <1>2, <1>3 DEF Subscription

\* Forgetting n > 0 events leaves no subscription current.
LEMMA GoneSound ==
  ASSUME NEW s \in Subscription, NEW n \in Nat, n > 0, NEW e, NEW b \in Nat, NEW e2,
         Sound(s, n, e, b)
  PROVE  Sound(s, 0, e2, b + n)
<1>1. s.since \in Nat
  BY DEF Subscription
<1>2. CASE s.present /\ s.mode = "live"
  <2>1. s.since <= b
    BY <1>2 DEF Sound
  <2>2. s.since <= b + n /\ s.since # b + n
    BY <1>1, <2>1
  <2> QED
    BY <2>2 DEF Sound
<1> QED
  BY <1>2 DEF Sound

\* What the socket's place in the feed of a run is.
PosOf(c, r) ==
  IF ~(subs[r][c].present /\ subs[r][c].mode = "live") THEN -1
  ELSE IF subs[r][c].since # base[r] THEN -2
  ELSE subs[r][c].lastSentSeq

\* An event of a run, and the runs it pushes out of the buffer.
LEMMA EventKeepsStreams ==
  ASSUME StreamInv, NEW r \in Runs, NEW gone, NEW over \in BOOLEAN,
         Ingest(r, gone, over), RouteLiveEnvelope(r), LogInv'
  PROVE  StreamInv' /\ Feed!Advance({r}, gone)
<1> USE DEF StreamInv
<1>1. /\ gone \subseteq Buffered /\ r \notin gone
      /\ \A x \in Runs : counters'[x] = IF x = r THEN counters[r] + 1
                                        ELSE IF x \in gone THEN 0 ELSE counters[x]
      /\ \A x \in Runs : base'[x] = IF x \in gone THEN base[x] + counters[x] ELSE base[x]
      /\ \A x \in Runs \ {r} : buffer'[x] = IF x \in gone THEN NoWindow ELSE buffer[x]
      /\ buffer'[r].present
      /\ buffer'[r].minSeq =
           IF buffer[r].present
             THEN Larger(buffer[r].minSeq, (counters[r] + 1) - MaxEventsPerRun + 1)
             ELSE counters[r] + 1
      /\ counters' \in [Runs -> Nat]
  BY IngestFacts
<1>2. /\ subs \in [Runs -> [Conns -> Subscription]]
      /\ counters \in [Runs -> Nat] /\ base \in [Runs -> Nat]
      /\ buffer \in [Runs -> Entry] /\ buffer' \in [Runs -> Entry]
  BY DEF TypeOK, LogTypeOK, LogInv
<1>3. /\ UNCHANGED <<open, socketRuns, handler, frames, owed>>
      /\ \A x \in Runs, c \in Conns :
           subs'[x][c] = IF x = r THEN Routed(subs[r][c], counters[r] + 1) ELSE subs[x][c]
  BY <1>2 DEF RouteLiveEnvelope
<1>4. ASSUME NEW c \in Conns
      PROVE  /\ subs'[r][c] \in Subscription
             /\ Sound(subs'[r][c], counters'[r], buffer'[r], base'[r])
             /\ subs'[r][c].present = subs[r][c].present
             /\ subs'[r][c].mode = subs[r][c].mode
             /\ subs'[r][c].since = subs[r][c].since
             /\ subs[r][c].present /\ subs[r][c].mode = "live" =>
                  subs'[r][c].lastSentSeq =
                    IF subs[r][c].lastSentSeq < counters[r] + 1 THEN counters[r] + 1
                    ELSE subs[r][c].lastSentSeq
  <2>1. /\ subs[r][c] \in Subscription /\ counters[r] \in Nat /\ base[r] \in Nat
        /\ buffer[r] \in Entry /\ buffer'[r] \in Entry
        /\ Sound(subs[r][c], counters[r], buffer[r], base[r])
    BY <1>2 DEF SubsSound
  <2>2. /\ buffer'[r].present
        /\ buffer[r].present =>
             buffer'[r].minSeq = Larger(buffer[r].minSeq, (counters[r] + 1) - MaxEventsPerRun + 1)
        /\ base'[r] = base[r] /\ counters'[r] = counters[r] + 1
        /\ subs'[r][c] = Routed(subs[r][c], counters[r] + 1)
    BY <1>1, <1>3
  <2> QED
    BY <2>1, <2>2, RoutedSound
<1>5. ASSUME NEW x \in Runs, NEW c \in Conns
      PROVE  /\ subs'[x][c] \in Subscription
             /\ subs'[x][c].present = subs[x][c].present
             /\ subs'[x][c].mode = subs[x][c].mode
             /\ subs'[x][c].since = subs[x][c].since
  BY <1>2, <1>3, <1>4
<1>6. ASSUME NEW x \in gone
      PROVE  x \in Runs /\ x # r /\ counters[x] \in Nat /\ counters[x] > 0
  BY <1>1, <1>2 DEF LogInv, NothingLeaks, Buffered
<1>7. SubsSound'
  <2> SUFFICES ASSUME NEW x \in Runs, NEW c \in Conns
               PROVE  Sound(subs'[x][c], counters'[x], buffer'[x], base'[x])
    BY DEF SubsSound
  <2>1. subs[x][c] \in Subscription /\ Sound(subs[x][c], counters[x], buffer[x], base[x])
    BY <1>2 DEF SubsSound
  <2>2. CASE x = r
    BY <1>4, <2>2
  <2>3. CASE x \in gone
    <3>1. Sound(subs[x][c], 0, buffer'[x], base[x] + counters[x])
      BY <1>2, <1>6, <2>1, <2>3, GoneSound
    <3> QED
      BY <1>1, <1>3, <1>6, <2>3, <3>1
  <2>4. CASE x # r /\ x \notin gone
    BY <1>1, <1>3, <2>1, <2>4
  <2> QED
    BY <2>2, <2>3, <2>4
<1>8. TypeOK'
  <2>1. subs' \in [Runs -> [Conns -> Subscription]]
    <3>1. subs' = [subs EXCEPT ![r] = [c \in Conns |-> Routed(subs[r][c], counters[r] + 1)]]
      BY DEF RouteLiveEnvelope
    <3>2. [c \in Conns |-> Routed(subs[r][c], counters[r] + 1)] \in [Conns -> Subscription]
      BY <1>3, <1>4
    <3> QED
      BY <1>2, <3>1, <3>2
  <2> QED
    BY <1>3, <2>1 DEF TypeOK, LogInv
<1>9. HandlersSound'
  BY <1>3 DEF HandlersSound
<1>10. SocketsInStep'
  BY <1>3, <1>5 DEF SocketsInStep
<1>11. NobodyForgotten'
  BY <1>3, <1>5 DEF NobodyForgotten
<1>12. Feed!Advance({r}, gone)
  <2>1. ASSUME NEW c \in Conns, NEW x \in Runs
        PROVE  PosOf(c, x)' = IF ~(PosOf(c, x) \notin {-1, -2}) THEN PosOf(c, x)
                              ELSE IF x \in gone THEN -2
                              ELSE IF x \in {r} THEN Feed!Moved(PosOf(c, x), counters[x] + 1)
                              ELSE PosOf(c, x)
    <3>1. /\ subs[x][c] \in Subscription /\ counters[x] \in Nat /\ base[x] \in Nat
          /\ subs[x][c].lastSentSeq \in Nat /\ subs[x][c].since \in Nat
          /\ subs[x][c].present /\ subs[x][c].mode = "live" => subs[x][c].since <= base[x]
      BY <1>2 DEF SubsSound, Sound, Subscription
    <3>2. /\ subs'[x][c].present = subs[x][c].present
          /\ subs'[x][c].mode = subs[x][c].mode
          /\ subs'[x][c].since = subs[x][c].since
      BY <1>5
    <3>3. base'[x] = IF x \in gone THEN base[x] + counters[x] ELSE base[x]
      BY <1>1
    <3>4. CASE x \in gone
      BY <1>6, <3>1, <3>2, <3>3, <3>4 DEF PosOf
    <3>5. CASE x = r
      <4>1. x \notin gone
        BY <1>1, <3>5
      <4> QED
        BY <1>4, <3>1, <3>2, <3>3, <3>5, <4>1 DEF PosOf, Feed!Moved
    <3>6. CASE x # r /\ x \notin gone
      BY <1>3, <3>1, <3>2, <3>3, <3>6 DEF PosOf
    <3> QED
      BY <3>4, <3>5, <3>6
  <2>2. {r} \cap gone = {}
    BY <1>1
  <2>3. counters' = [x \in Runs |-> IF x \in gone THEN 0
                                    ELSE IF x \in {r} THEN counters[x] + 1 ELSE counters[x]]
    BY <1>1
  <2> QED
    BY <2>1, <2>2, <2>3 DEF Feed!Advance, Feed!Following, PosOf
<1> QED
  BY <1>7, <1>8, <1>9, <1>10, <1>11, <1>12

\* The sweep: subscriptions stay, none of them is current for a run that went.
LEMMA SweepKeepsStreams ==
  ASSUME StreamInv, NEW gone \in SUBSET Buffered, Sweep(gone), UNCHANGED streamVars
  PROVE  StreamInv' /\ Feed!Advance({}, gone)
<1> USE DEF StreamInv
<1>1. LogInv'
  BY SweepKeepsLog
<1>2. UNCHANGED <<open, subs, socketRuns, handler, frames, owed>>
  BY DEF streamVars
<1>3. /\ subs \in [Runs -> [Conns -> Subscription]]
      /\ counters \in [Runs -> Nat] /\ base \in [Runs -> Nat]
  BY DEF TypeOK, LogTypeOK, LogInv
<1>4. \A x \in Runs : /\ counters'[x] = IF x \in gone THEN 0 ELSE counters[x]
                      /\ base'[x] = IF x \in gone THEN base[x] + counters[x] ELSE base[x]
                      /\ buffer'[x] = IF x \in gone THEN NoWindow ELSE buffer[x]
  BY DEF Sweep, Release, Counted, Emptied, Forgotten
<1>5. \A x \in gone : x \in Runs /\ counters[x] \in Nat /\ counters[x] > 0
  BY <1>3 DEF LogInv, NothingLeaks, Buffered
<1>6. SubsSound'
  <2> SUFFICES ASSUME NEW x \in Runs, NEW c \in Conns
               PROVE  Sound(subs[x][c], counters'[x], buffer'[x], base'[x])
    BY <1>2 DEF SubsSound
  <2>1. subs[x][c] \in Subscription /\ Sound(subs[x][c], counters[x], buffer[x], base[x])
    BY <1>3 DEF SubsSound
  <2>2. CASE x \in gone
    BY <1>3, <1>4, <1>5, <2>1, <2>2, GoneSound
  <2>3. CASE x \notin gone
    BY <1>4, <2>1, <2>3
  <2> QED
    BY <2>2, <2>3
<1>7. TypeOK' /\ HandlersSound' /\ SocketsInStep' /\ NobodyForgotten'
  BY <1>1, <1>2 DEF TypeOK, LogInv, HandlersSound, SocketsInStep, NobodyForgotten
<1>8. Feed!Advance({}, gone)
  <2>1. ASSUME NEW c \in Conns, NEW x \in Runs
        PROVE  PosOf(c, x)' = IF ~(PosOf(c, x) \notin {-1, -2}) THEN PosOf(c, x)
                              ELSE IF x \in gone THEN -2 ELSE PosOf(c, x)
    <3>1. /\ subs[x][c].since \in Nat /\ subs[x][c].lastSentSeq \in Nat /\ counters[x] \in Nat /\ base[x] \in Nat
          /\ subs[x][c].present /\ subs[x][c].mode = "live" => subs[x][c].since <= base[x]
      BY <1>3 DEF SubsSound, Sound, Subscription
    <3>2. CASE x \in gone
      <4>1. base'[x] = base[x] + counters[x] /\ counters[x] > 0
        BY <1>4, <1>5, <3>2
      <4>2. /\ subs'[x][c] = subs[x][c]
            /\ subs[x][c].present /\ subs[x][c].mode = "live" => subs[x][c].since # base'[x]
        BY <1>2, <3>1, <4>1
      <4> QED
        BY <3>1, <3>2, <4>2 DEF PosOf
    <3>3. CASE x \notin gone
      BY <1>2, <1>4, <3>3 DEF PosOf
    <3> QED
      BY <3>2, <3>3
  <2>2. counters' = [x \in Runs |-> IF x \in gone THEN 0 ELSE counters[x]]
    BY DEF Sweep, Release, Counted
  <2> QED
    BY <2>1, <2>2 DEF Feed!Advance, Feed!Following, PosOf
<1> QED
  BY <1>1, <1>6, <1>7, <1>8

\* Four kinds of steps leave the log alone and change at most one connection.
\* Its subscriptions after the step have to be sound, in step with socketRuns,
\* and waited for.
LEMMA FrameKeepsStreams ==
  ASSUME StreamInv, UNCHANGED <<floorRun, logVars>>,
         NEW c \in Conns, open' \subseteq Conns, frames' \in Nat,
         subs' \in [Runs -> [Conns -> Subscription]],
         socketRuns' \in [Conns -> SUBSET Runs], owed' \in [Conns -> SUBSET Runs],
         handler' \in [Handlers -> Handler], HandlersSound',
         \A r \in Runs, d \in Conns \ {c} : subs'[r][d] = subs[r][d],
         \A d \in Conns \ {c} : /\ socketRuns'[d] = socketRuns[d] /\ owed'[d] = owed[d]
                                /\ d \in open => d \in open',
         \A r \in Runs : Sound(subs'[r][c], counters[r], buffer[r], base[r]),
         socketRuns'[c] = {r \in Runs : subs'[r][c].present},
         socketRuns'[c] # {} => c \in open',
         \A r \in Runs : r \in owed'[c] =>
           \/ subs'[r][c].present /\ subs'[r][c].mode = "live"
           \/ \E h \in Handlers : handler'[h].conn = c /\ handler'[h].run = r,
         \A r \in Runs : subs'[r][c].present => r \in owed'[c],
         \A h \in Handlers, d \in Conns \ {c} : handler[h].conn = d =>
           handler'[h].conn = d /\ handler'[h].run = handler[h].run
  PROVE  StreamInv'
<1> USE DEF StreamInv
<1>1. UNCHANGED <<floorRun, counters, buffer, floorToRun, runToFloor, published, base>>
  BY DEF logVars
<1>2. LogInv'
  BY <1>1 DEF LogInv, LogTypeOK, NothingLeaks, Buffered, EntriesSound, RowsSound,
              EventsReachNewest
<1>3. TypeOK'
  BY <1>2 DEF TypeOK, LogInv
<1>4. SubsSound'
  BY <1>1 DEF SubsSound
<1>5. SocketsInStep'
  <2>1. ASSUME NEW d \in Conns
        PROVE  /\ socketRuns'[d] = {r \in Runs : subs'[r][d].present}
               /\ socketRuns'[d] # {} => d \in open'
    <3>1. CASE d = c
      BY <3>1
    <3>2. CASE d # c
      BY <3>2 DEF SocketsInStep
    <3> QED
      BY <3>1, <3>2
  <2> QED
    BY <2>1 DEF SocketsInStep
<1>6. NobodyForgotten'
  <2> SUFFICES ASSUME NEW d \in Conns, NEW r \in Runs
               PROVE  /\ r \in owed'[d] =>
                           \/ subs'[r][d].present /\ subs'[r][d].mode = "live"
                           \/ \E h \in Handlers : handler'[h].conn = d /\ handler'[h].run = r
                      /\ subs'[r][d].present => r \in owed'[d]
    BY DEF NobodyForgotten
  <2>1. CASE d = c
    BY <2>1
  <2>2. CASE d # c
    <3>1. /\ subs'[r][d] = subs[r][d] /\ owed'[d] = owed[d]
          /\ r \in owed[d] =>
               \/ subs[r][d].present /\ subs[r][d].mode = "live"
               \/ \E h \in Handlers : handler[h].conn = d /\ handler[h].run = r
          /\ subs[r][d].present => r \in owed[d]
      BY <2>2 DEF NobodyForgotten
    <3>2. \A h \in Handlers : handler[h].conn = d /\ handler[h].run = r =>
            handler'[h].conn = d /\ handler'[h].run = r
      BY <2>2
    <3> QED
      BY <3>1, <3>2
  <2> QED
    BY <2>1, <2>2
<1> QED
  BY <1>2, <1>3, <1>4, <1>5, <1>6

\* The feed sees a step of one connection that leaves the log alone as leaving
\* the runs whose subscription is no longer live, if the others stay as they are.
LEMMA FeedLeave ==
  ASSUME StreamInv, UNCHANGED <<floorRun, logVars>>, NEW c \in Conns, NEW left \in SUBSET Runs,
         \A r \in Runs, d \in Conns : (d # c \/ r \notin left) => subs'[r][d] = subs[r][d],
         \A r \in left : ~(subs'[r][c].present /\ subs'[r][c].mode = "live")
  PROVE  Feed!Leave(c, left)
<1>1. UNCHANGED <<counters, base>>
  BY DEF logVars
<1>2. \A d \in Conns, r \in Runs : (d # c \/ r \notin left) => PosOf(d, r)' = PosOf(d, r)
  BY <1>1 DEF PosOf
<1>3. \A r \in left : PosOf(c, r)' = -1
  BY DEF PosOf
<1> DEFINE pos == [d \in Conns |-> [r \in Runs |-> PosOf(d, r)]]
<1>4. pos' = [pos EXCEPT ![c] = [r \in Runs |-> IF r \in left THEN -1 ELSE @[r]]]
  <2>1. \A d \in Conns, r \in Runs :
          PosOf(d, r)' = IF d = c /\ r \in left THEN -1 ELSE PosOf(d, r)
    BY <1>2, <1>3
  <2>2. pos' = [d \in Conns |-> [r \in Runs |-> PosOf(d, r)']]
    OBVIOUS
  <2>3. [r \in Runs |-> PosOf(c, r)'] = [r \in Runs |-> IF r \in left THEN -1 ELSE pos[c][r]]
    BY <2>1
  <2>4. \A d \in Conns \ {c} : [r \in Runs |-> PosOf(d, r)'] = pos[d]
    BY <2>1
  <2>5. pos' = [d \in Conns |-> IF d = c THEN [r \in Runs |-> IF r \in left THEN -1 ELSE pos[c][r]]
                                ELSE pos[d]]
    BY <2>2, <2>3, <2>4, Zenon
  <2>6. pos = [d \in Conns |-> pos[d]]
    OBVIOUS
  <2> HIDE DEF pos
  <2> QED
    BY <2>5, <2>6
<1> QED
  BY <1>1, <1>4 DEF Feed!Leave, PosOf

\* A live resume of a run in the buffer.
LEMMA ResumeFromBufferSound ==
  ASSUME StreamInv, NEW c \in Conns, NEW r \in Runs, NEW n \in Nat,
         buffer[r].present, Replayable(r, n)
  PROVE  LET replayed == Delivered(Resuming(c, r, n), buffer[r].minSeq .. buffer[r].maxSeq)
             sub == [Flushed(replayed) EXCEPT !.from = n, !.since = base[r]]
         IN  /\ sub \in Subscription /\ sub.present /\ sub.mode = "live" /\ sub.since = base[r]
             /\ sub.lastSentSeq \in Nat /\ sub.lastSentSeq >= counters[r]
             /\ Sound(sub, counters[r], buffer[r], base[r])
<1> DEFINE s0 == Resuming(c, r, n)
           lo == buffer[r].minSeq
           hi == buffer[r].maxSeq
           fresh == {s \in lo .. hi : s > n}
           replayed == Delivered(s0, lo .. hi)
           sub == [Flushed(replayed) EXCEPT !.from = n, !.since = base[r]]
<1>1. /\ lo \in Nat /\ hi \in Nat /\ lo >= 1 /\ lo <= hi + 1 /\ hi = counters[r]
      /\ base[r] \in Nat /\ MaxEventsPerRun \in Nat \ {0}
      /\ n >= hi \/ n >= lo - 1
  BY LogConstants DEF StreamInv, LogInv, LogTypeOK, Entry, NothingLeaks, EntriesSound, Replayable
<1>2. /\ s0 \in Subscription /\ s0.present /\ s0.liveQueue = {} /\ s0.sent = {}
      /\ s0.lastSentSeq = n
  BY DEF Resuming, Subscription, StreamInv, TypeOK
<1> HIDE DEF s0, lo, hi
<1>3. /\ replayed \in Subscription /\ replayed.present /\ replayed.liveQueue = {}
      /\ replayed.sent = {k \in 1 .. hi : k > n}
      /\ replayed.lastSentSeq = Larger(n, hi)
  <2>1. fresh = {k \in 1 .. hi : k > n} /\ fresh \in SUBSET Nat
    BY <1>1
  <2>2. CASE fresh = {}
    <3>1. replayed = s0
      BY <1>2, <2>2 DEF Delivered
    <3>2. n >= hi
      <4>1. n < hi => hi \in fresh
        BY <1>1
      <4> QED
        BY <1>1, <2>2, <4>1
    <3> QED
      BY <1>1, <1>2, <2>1, <2>2, <3>1, <3>2 DEF Larger
  <2>3. CASE fresh # {}
    <3>1. hi \in fresh /\ \A t \in fresh : t <= hi
      BY <1>1, <2>3
    <3> DEFINE top == CHOOSE s \in fresh : \A t \in fresh : t <= s
    <3>2. top \in fresh /\ \A t \in fresh : t <= top
      BY <3>1
    <3>3. top = hi
      <4>1. top <= hi /\ hi <= top
        BY <3>1, <3>2
      <4> QED
        BY <1>1, <2>1, <3>2, <4>1
    <3>4. replayed = [s0 EXCEPT !.sent = s0.sent \cup fresh, !.lastSentSeq = top]
      BY <1>2, <2>3 DEF Delivered
    <3>5. replayed = [s0 EXCEPT !.sent = fresh, !.lastSentSeq = hi]
      BY <1>2, <3>3, <3>4
    <3>6. n < hi
      BY <1>1, <3>1
    <3> HIDE DEF fresh, replayed
    <3> QED
      BY <1>1, <1>2, <2>1, <3>5, <3>6 DEF Larger, Subscription
  <2> QED
    BY <2>2, <2>3
<1> HIDE DEF replayed
<1>4. Delivered(replayed, replayed.liveQueue) = replayed
  BY <1>3 DEF Delivered
<1>5. Flushed(replayed) = [replayed EXCEPT !.liveQueue = {}, !.mode = "live"]
  BY <1>4 DEF Flushed
<1>6. /\ sub \in Subscription /\ sub.present /\ sub.mode = "live"
      /\ sub.liveQueue = {} /\ sub.from = n /\ sub.since = base[r]
      /\ sub.sent = replayed.sent /\ sub.lastSentSeq = replayed.lastSentSeq
      /\ sub.ackSeq \in Nat
  BY <1>1, <1>3, <1>5 DEF Subscription
<1>7. lo - 1 <= Larger(Larger(n, sub.ackSeq), hi - MaxEventsPerRun)
  BY <1>1, <1>6 DEF Larger
<1> HIDE DEF sub
<1>8. Sound(sub, counters[r], buffer[r], base[r])
  BY <1>1, <1>3, <1>6, <1>7 DEF Sound, lo
<1>9. sub.lastSentSeq \in Nat /\ sub.lastSentSeq >= counters[r]
  BY <1>1, <1>3, <1>6 DEF Larger
<1> QED
  BY <1>6, <1>8, <1>9 DEF sub, replayed, s0, lo, hi

LEMMA ResumeFromBufferKeeps ==
  ASSUME StreamInv, NEW c \in Conns, NEW r \in Runs, NEW n \in ClientSeqs,
         ResumeFromBuffer(c, r, n)
  PROVE  StreamInv' /\ Feed!Join(c, r)
<1> USE DEF StreamInv
<1> DEFINE replayed == Delivered(Resuming(c, r, n), buffer[r].minSeq .. buffer[r].maxSeq)
           sub == [Flushed(replayed) EXCEPT !.from = n, !.since = base[r]]
<1>1. n \in Nat /\ buffer[r].present /\ Replayable(r, n)
  <2> HIDE DEF StreamInv
  <2> QED
    BY StreamConstants DEF ResumeFromBuffer
<1>2. /\ sub \in Subscription /\ sub.present /\ sub.mode = "live" /\ sub.since = base[r]
      /\ sub.lastSentSeq \in Nat /\ sub.lastSentSeq >= counters[r]
      /\ Sound(sub, counters[r], buffer[r], base[r])
  <2> HIDE DEF StreamInv
  <2> QED
    BY <1>1, ResumeFromBufferSound, Zenon
<1>3. /\ subs' = [subs EXCEPT ![r][c] = sub]
      /\ socketRuns' = [socketRuns EXCEPT ![c] = @ \cup {r}]
      /\ owed' = [owed EXCEPT ![c] = @ \cup {r}]
      /\ UNCHANGED <<floorRun, logVars, open, handler>>
      /\ frames' = frames + 1 /\ c \in open
  BY DEF ResumeFromBuffer, SetSub, Receives
<1> HIDE DEF sub
<1>4. /\ subs \in [Runs -> [Conns -> Subscription]] /\ socketRuns \in [Conns -> SUBSET Runs]
      /\ owed \in [Conns -> SUBSET Runs] /\ handler \in [Handlers -> Handler]
      /\ frames \in Nat /\ open \subseteq Conns
  BY DEF TypeOK
<1>5. /\ subs' \in [Runs -> [Conns -> Subscription]]
      /\ \A x \in Runs, d \in Conns :
           subs'[x][d] = IF x = r /\ d = c THEN sub ELSE subs[x][d]
  BY <1>2, <1>3, <1>4
<1>6. /\ socketRuns' \in [Conns -> SUBSET Runs] /\ owed' \in [Conns -> SUBSET Runs]
      /\ handler' \in [Handlers -> Handler] /\ open' \subseteq Conns /\ frames' \in Nat
      /\ socketRuns'[c] = socketRuns[c] \cup {r} /\ owed'[c] = owed[c] \cup {r}
      /\ \A d \in Conns \ {c} : /\ socketRuns'[d] = socketRuns[d] /\ owed'[d] = owed[d]
                                /\ d \in open => d \in open'
      /\ HandlersSound' /\ handler' = handler
  BY <1>3, <1>4 DEF HandlersSound
<1>7. \A x \in Runs : Sound(subs'[x][c], counters[x], buffer[x], base[x])
  BY <1>2, <1>5 DEF SubsSound
<1>8. socketRuns'[c] = {x \in Runs : subs'[x][c].present}
  BY <1>2, <1>5, <1>6 DEF SocketsInStep
<1>9. \A x \in Runs :
        /\ x \in owed'[c] => \/ subs'[x][c].present /\ subs'[x][c].mode = "live"
                             \/ \E h \in Handlers : handler'[h].conn = c /\ handler'[h].run = x
        /\ subs'[x][c].present => x \in owed'[c]
  BY <1>2, <1>5, <1>6 DEF NobodyForgotten
<1>10. StreamInv'
  <2>1. \A x \in Runs, d \in Conns \ {c} : subs'[x][d] = subs[x][d]
    BY <1>5
  <2>2. socketRuns'[c] # {} => c \in open'
    BY <1>3
  <2>3. \A h \in Handlers, d \in Conns \ {c} : handler[h].conn = d =>
          handler'[h].conn = d /\ handler'[h].run = handler[h].run
    BY <1>6
  <2> HIDE DEF StreamInv
  <2> QED
    BY <1>3, <1>5, <1>6, <1>7, <1>8, <1>9, <2>1, <2>2, <2>3, FrameKeepsStreams
<1>11. Feed!Join(c, r)
  <2>1. UNCHANGED <<counters, base>>
    BY <1>3 DEF logVars
  <2>2. \A d \in Conns, x \in Runs :
          PosOf(d, x)' = IF d = c /\ x = r THEN sub.lastSentSeq ELSE PosOf(d, x)
    BY <1>2, <1>5, <2>1 DEF PosOf
  <2> DEFINE pos == [d \in Conns |-> [x \in Runs |-> PosOf(d, x)]]
  <2>3. pos' = [d \in Conns |-> [x \in Runs |-> PosOf(d, x)']]
    OBVIOUS
  <2>4. /\ [x \in Runs |-> PosOf(c, x)'] = [pos[c] EXCEPT ![r] = sub.lastSentSeq]
        /\ \A d \in Conns \ {c} : [x \in Runs |-> PosOf(d, x)'] = pos[d]
    BY <2>2
  <2>5. pos' = [d \in Conns |-> IF d = c THEN [pos[c] EXCEPT ![r] = sub.lastSentSeq] ELSE pos[d]]
    BY <2>3, <2>4, Zenon
  <2>6. pos = [d \in Conns |-> pos[d]]
    OBVIOUS
  <2>7. pos[c] = [x \in Runs |-> pos[c][x]]
    OBVIOUS
  <2> HIDE DEF pos
  <2>8. pos'[c][r] = sub.lastSentSeq /\ pos' = [pos EXCEPT ![c][r] = sub.lastSentSeq]
    BY <2>5, <2>6, <2>7
  <2>9. /\ pos'[c][r] \in Nat /\ pos'[c][r] >= counters[r]
        /\ pos' = [pos EXCEPT ![c][r] = pos'[c][r]]
    BY <1>2, <2>8
  <2> QED
    BY <2>1, <2>9 DEF Feed!Join, pos, PosOf
<1> QED
  BY <1>10, <1>11

\* Refusals and the end of a handler: the subscription goes, and with it what
\* the connection was owed.
LEMMA RemovalKeeps ==
  ASSUME StreamInv, NEW c \in Conns, NEW r \in Runs, RemoveSub(c, r),
         owed' = [owed EXCEPT ![c] = @ \ {r}],
         UNCHANGED <<floorRun, logVars, open>>, frames' \in Nat,
         handler' \in [Handlers -> Handler], HandlersSound',
         \A h \in Handlers : \/ handler[h].conn = c /\ handler[h].run = r
                             \/ handler'[h] = handler[h]
  PROVE  StreamInv' /\ Feed!Leave(c, {r})
<1> USE DEF StreamInv
<1>1. /\ subs \in [Runs -> [Conns -> Subscription]] /\ socketRuns \in [Conns -> SUBSET Runs]
      /\ owed \in [Conns -> SUBSET Runs] /\ open \subseteq Conns
  BY DEF TypeOK
<1>2. NoSub \in Subscription /\ ~NoSub.present
  BY DEF NoSub, Subscription
<1>3. /\ subs' \in [Runs -> [Conns -> Subscription]]
      /\ \A x \in Runs, d \in Conns :
           subs'[x][d] = IF x = r /\ d = c THEN NoSub ELSE subs[x][d]
  BY <1>1, <1>2 DEF RemoveSub
<1>4. /\ socketRuns' \in [Conns -> SUBSET Runs] /\ owed' \in [Conns -> SUBSET Runs]
      /\ open' \subseteq Conns
      /\ socketRuns'[c] = socketRuns[c] \ {r} /\ owed'[c] = owed[c] \ {r}
      /\ \A d \in Conns \ {c} : /\ socketRuns'[d] = socketRuns[d] /\ owed'[d] = owed[d]
                                /\ d \in open => d \in open'
  BY <1>1 DEF RemoveSub
<1>5. \A x \in Runs : Sound(subs'[x][c], counters[x], buffer[x], base[x])
  BY <1>2, <1>3 DEF SubsSound, Sound
<1>6. socketRuns'[c] = {x \in Runs : subs'[x][c].present}
  BY <1>2, <1>3, <1>4 DEF SocketsInStep
<1>7. socketRuns'[c] # {} => c \in open'
  BY <1>4 DEF SocketsInStep
<1>8. ASSUME NEW x \in Runs
      PROVE  /\ x \in owed'[c] => \/ subs'[x][c].present /\ subs'[x][c].mode = "live"
                                  \/ \E h \in Handlers : handler'[h].conn = c /\ handler'[h].run = x
             /\ subs'[x][c].present => x \in owed'[c]
  <2>1. CASE x = r
    BY <1>2, <1>3, <1>4, <2>1
  <2>2. CASE x # r
    <3>1. /\ subs'[x][c] = subs[x][c] /\ (x \in owed'[c] <=> x \in owed[c])
          /\ x \in owed[c] => \/ subs[x][c].present /\ subs[x][c].mode = "live"
                              \/ \E h \in Handlers : handler[h].conn = c /\ handler[h].run = x
          /\ subs[x][c].present => x \in owed[c]
      BY <1>3, <1>4, <2>2 DEF NobodyForgotten
    <3>2. \A h \in Handlers : handler[h].conn = c /\ handler[h].run = x => handler'[h] = handler[h]
      BY <2>2
    <3> QED
      BY <3>1, <3>2
  <2> QED
    BY <2>1, <2>2
<1>9. StreamInv'
  <2>1. \A x \in Runs, d \in Conns \ {c} : subs'[x][d] = subs[x][d]
    BY <1>3
  <2>2. \A h \in Handlers, d \in Conns \ {c} : handler[h].conn = d =>
          handler'[h].conn = d /\ handler'[h].run = handler[h].run
    OBVIOUS
  <2> HIDE DEF StreamInv
  <2> QED
    BY <1>3, <1>4, <1>5, <1>6, <1>7, <1>8, <2>1, <2>2, FrameKeepsStreams
<1>10. Feed!Leave(c, {r})
  BY <1>2, <1>3, FeedLeave
<1> QED
  BY <1>9, <1>10

LEMMA ResumeRejectedKeeps ==
  ASSUME StreamInv, NEW c \in Conns, NEW r \in Runs, ResumeRejected(c, r)
  PROVE  StreamInv' /\ Feed!Leave(c, {r})
<1>1. handler' = handler /\ frames' = frames + 1 /\ UNCHANGED <<floorRun, logVars, open>>
  BY DEF ResumeRejected, Receives
<1>2. frames' \in Nat /\ handler' \in [Handlers -> Handler] /\ HandlersSound'
  BY <1>1 DEF StreamInv, TypeOK, HandlersSound
<1> QED
  BY <1>1, <1>2, RemovalKeeps DEF ResumeRejected

LEMMA ResumeContinuesKeeps ==
  ASSUME StreamInv, NEW h \in Handlers, ResumeContinues(h)
  PROVE  StreamInv' /\ \E c \in Conns, r \in Runs : Feed!Leave(c, {r})
<1>1. PICK c \in Conns, r \in Runs : handler[h].conn = c /\ handler[h].run = r
  BY DEF ResumeContinues, StreamInv, HandlersSound
<1>2. /\ RemoveSub(c, r) /\ owed' = [owed EXCEPT ![c] = @ \ {r}]
      /\ handler' = [handler EXCEPT ![h] = Idle]
      /\ UNCHANGED <<floorRun, logVars, open, frames>>
  BY <1>1 DEF ResumeContinues, RemoveSub
<1>3. handler \in [Handlers -> Handler] /\ Idle \in Handler /\ frames \in Nat
  BY DEF StreamInv, TypeOK, Idle, Handler
<1>4. /\ handler' \in [Handlers -> Handler] /\ HandlersSound' /\ frames' \in Nat
      /\ \A g \in Handlers : \/ handler[g].conn = c /\ handler[g].run = r
                             \/ handler'[g] = handler[g]
  BY <1>1, <1>2, <1>3 DEF StreamInv, HandlersSound, Idle
<1>5. UNCHANGED <<floorRun, logVars, open>>
  BY <1>2
<1> QED
  BY <1>2, <1>4, <1>5, RemovalKeeps

LEMMA ResumeAwaitsKeeps ==
  ASSUME StreamInv, NEW h \in Handlers, NEW c \in Conns, NEW r \in Runs, NEW n \in ClientSeqs,
         ResumeAwaits(h, c, r, n)
  PROVE  StreamInv' /\ Feed!Leave(c, {r})
<1> USE DEF StreamInv
<1> DEFINE sub == Resuming(c, r, n)
<1>1. /\ subs \in [Runs -> [Conns -> Subscription]] /\ socketRuns \in [Conns -> SUBSET Runs]
      /\ owed \in [Conns -> SUBSET Runs] /\ open \subseteq Conns
      /\ handler \in [Handlers -> Handler] /\ frames \in Nat
  BY DEF TypeOK
<1>2. sub \in Subscription /\ sub.present /\ sub.mode = "resuming"
  BY <1>1, StreamConstants DEF Resuming, Subscription
<1>3. /\ subs' = [subs EXCEPT ![r][c] = sub]
      /\ socketRuns' = [socketRuns EXCEPT ![c] = @ \cup {r}]
      /\ owed' = [owed EXCEPT ![c] = @ \cup {r}]
      /\ UNCHANGED <<floorRun, logVars>> /\ open' = open
      /\ frames' = frames + 1 /\ c \in open /\ handler[h] = Idle
  BY DEF ResumeAwaits, SetSub, Receives
<1>4. PICK stage \in {"lookup", "fallback"} :
        handler' = [handler EXCEPT ![h] =
          [stage |-> stage, conn |-> c, run |-> r, record |-> "unread"]]
  BY DEF ResumeAwaits
<1> HIDE DEF sub
<1>5. /\ subs' \in [Runs -> [Conns -> Subscription]]
      /\ \A x \in Runs, d \in Conns :
           subs'[x][d] = IF x = r /\ d = c THEN sub ELSE subs[x][d]
  BY <1>1, <1>2, <1>3
<1>6. /\ socketRuns' \in [Conns -> SUBSET Runs] /\ owed' \in [Conns -> SUBSET Runs]
      /\ open' \subseteq Conns /\ frames' \in Nat
      /\ socketRuns'[c] = socketRuns[c] \cup {r} /\ owed'[c] = owed[c] \cup {r}
      /\ \A d \in Conns \ {c} : /\ socketRuns'[d] = socketRuns[d] /\ owed'[d] = owed[d]
                                /\ d \in open => d \in open'
  BY <1>1, <1>3
<1>7. /\ handler' \in [Handlers -> Handler]
      /\ handler'[h].conn = c /\ handler'[h].run = r
      /\ \A g \in Handlers \ {h} : handler'[g] = handler[g]
  BY <1>1, <1>4 DEF Handler
<1>8. HandlersSound'
  <2>1. \A g \in Handlers \ {h} : handler'[g].stage # "idle" =>
          handler'[g].conn \in Conns /\ handler'[g].run \in Runs
    BY <1>7 DEF HandlersSound
  <2> QED
    BY <1>7, <2>1 DEF HandlersSound
<1>9. \A d \in Conns : handler[h].conn # d
  BY <1>3, StreamConstants DEF Idle
<1>10. \A x \in Runs : Sound(subs'[x][c], counters[x], buffer[x], base[x])
  BY <1>2, <1>5 DEF SubsSound, Sound
<1>11. socketRuns'[c] = {x \in Runs : subs'[x][c].present}
  BY <1>2, <1>5, <1>6 DEF SocketsInStep
<1>12. ASSUME NEW x \in Runs
       PROVE  /\ x \in owed'[c] => \/ subs'[x][c].present /\ subs'[x][c].mode = "live"
                                   \/ \E g \in Handlers : handler'[g].conn = c /\ handler'[g].run = x
              /\ subs'[x][c].present => x \in owed'[c]
  <2>1. CASE x = r
    BY <1>6, <1>7, <2>1
  <2>2. CASE x # r
    <3>1. /\ subs'[x][c] = subs[x][c] /\ (x \in owed'[c] <=> x \in owed[c])
          /\ x \in owed[c] => \/ subs[x][c].present /\ subs[x][c].mode = "live"
                              \/ \E g \in Handlers : handler[g].conn = c /\ handler[g].run = x
          /\ subs[x][c].present => x \in owed[c]
      BY <1>5, <1>6, <2>2 DEF NobodyForgotten
    <3>2. \A g \in Handlers : handler[g].conn = c => handler'[g] = handler[g]
      BY <1>7, <1>9
    <3> QED
      BY <3>1, <3>2
  <2> QED
    BY <2>1, <2>2
<1>13. StreamInv'
  <2>1. \A x \in Runs, d \in Conns \ {c} : subs'[x][d] = subs[x][d]
    BY <1>5
  <2>2. socketRuns'[c] # {} => c \in open'
    BY <1>3
  <2>3. \A g \in Handlers, d \in Conns \ {c} : handler[g].conn = d =>
          handler'[g].conn = d /\ handler'[g].run = handler[g].run
    BY <1>7, <1>9
  <2> HIDE DEF StreamInv
  <2> QED
    BY <1>3, <1>5, <1>6, <1>7, <1>8, <1>10, <1>11, <1>12, <2>1, <2>2, <2>3, FrameKeepsStreams
<1>14. Feed!Leave(c, {r})
  BY <1>2, <1>3, <1>5, FeedLeave
<1> QED
  BY <1>13, <1>14

\* Steps that only move a handler on, and are none for the feed.
LEMMA HandlerKeeps ==
  ASSUME StreamInv, NEW h \in Handlers, ReadRecord(h) \/ ResumeReadsAgain(h)
  PROVE  StreamInv' /\ UNCHANGED <<counters, subs, base>>
<1> USE DEF StreamInv
<1>1. /\ UNCHANGED <<floorRun, logVars, open, subs, socketRuns, frames, owed>>
      /\ handler[h].stage # "idle"
  BY DEF ReadRecord, ResumeReadsAgain
<1>2. handler \in [Handlers -> Handler]
  BY DEF TypeOK
<1>3. /\ handler' \in [Handlers -> Handler]
      /\ handler'[h].conn = handler[h].conn /\ handler'[h].run = handler[h].run
      /\ \A g \in Handlers \ {h} : handler'[g] = handler[g]
  <2>1. CASE ReadRecord(h)
    BY <1>2, <2>1 DEF ReadRecord, Handler
  <2>2. CASE ResumeReadsAgain(h)
    BY <1>2, <2>2 DEF ResumeReadsAgain, Handler
  <2> QED
    BY <2>1, <2>2
<1>4. UNCHANGED <<floorRun, counters, buffer, floorToRun, runToFloor, published, base>>
  BY <1>1 DEF logVars
<1>5. LogInv' /\ SubsSound' /\ SocketsInStep'
  BY <1>1, <1>4 DEF LogInv, LogTypeOK, NothingLeaks, Buffered, EntriesSound, RowsSound,
                    EventsReachNewest, SubsSound, SocketsInStep
<1>6. TypeOK'
  BY <1>1, <1>3, <1>5 DEF TypeOK, LogInv
<1>7. \A g \in Handlers : handler'[g].conn = handler[g].conn /\ handler'[g].run = handler[g].run
  BY <1>3
<1>8. HandlersSound'
  <2>1. \A g \in Handlers \ {h} : handler'[g].stage # "idle" =>
          handler'[g].conn \in Conns /\ handler'[g].run \in Runs
    BY <1>3 DEF HandlersSound
  <2> QED
    BY <1>1, <1>3, <2>1 DEF HandlersSound
<1>9. NobodyForgotten'
  BY <1>1, <1>7 DEF NobodyForgotten
<1> QED
  BY <1>1, <1>4, <1>5, <1>6, <1>8, <1>9

LEMMA CloseKeeps ==
  ASSUME StreamInv, NEW c \in Conns, Close(c)
  PROVE  StreamInv' /\ Feed!Leave(c, Runs)
<1> USE DEF StreamInv
<1>1. /\ subs \in [Runs -> [Conns -> Subscription]] /\ socketRuns \in [Conns -> SUBSET Runs]
      /\ owed \in [Conns -> SUBSET Runs] /\ open \subseteq Conns
      /\ handler \in [Handlers -> Handler] /\ frames \in Nat
  BY DEF TypeOK
<1>2. NoSub \in Subscription /\ ~NoSub.present
  BY DEF NoSub, Subscription
<1>3. /\ open' = open \ {c}
      /\ subs' = [x \in Runs |-> IF x \in socketRuns[c] THEN [subs[x] EXCEPT ![c] = NoSub]
                                 ELSE subs[x]]
      /\ socketRuns' = [socketRuns EXCEPT ![c] = {}]
      /\ owed' = [owed EXCEPT ![c] = {}]
      /\ UNCHANGED <<floorRun, logVars>> /\ handler' = handler /\ frames' = frames
  BY DEF Close
<1>4. socketRuns[c] = {x \in Runs : subs[x][c].present}
  BY DEF SocketsInStep
<1>5. /\ subs' \in [Runs -> [Conns -> Subscription]]
      /\ \A x \in Runs, d \in Conns \ {c} : subs'[x][d] = subs[x][d]
      /\ \A x \in Runs : ~subs'[x][c].present
  <2>1. ASSUME NEW x \in Runs
        PROVE  /\ subs'[x] \in [Conns -> Subscription]
               /\ \A d \in Conns \ {c} : subs'[x][d] = subs[x][d]
               /\ ~subs'[x][c].present
    BY <1>1, <1>2, <1>3, <1>4
  <2> QED
    BY <1>3, <2>1
<1>6. /\ socketRuns' \in [Conns -> SUBSET Runs] /\ owed' \in [Conns -> SUBSET Runs]
      /\ open' \subseteq Conns /\ frames' \in Nat
      /\ socketRuns'[c] = {} /\ owed'[c] = {}
      /\ \A d \in Conns \ {c} : /\ socketRuns'[d] = socketRuns[d] /\ owed'[d] = owed[d]
                                /\ d \in open => d \in open'
      /\ handler' \in [Handlers -> Handler] /\ HandlersSound'
  BY <1>1, <1>3 DEF HandlersSound
<1>7. \A x \in Runs : Sound(subs'[x][c], counters[x], buffer[x], base[x])
  BY <1>5 DEF Sound
<1>8. socketRuns'[c] = {x \in Runs : subs'[x][c].present}
  BY <1>5, <1>6
<1>9. StreamInv'
  <2>1. \A x \in Runs :
          /\ x \in owed'[c] => \/ subs'[x][c].present /\ subs'[x][c].mode = "live"
                               \/ \E h \in Handlers : handler'[h].conn = c /\ handler'[h].run = x
          /\ subs'[x][c].present => x \in owed'[c]
    BY <1>5, <1>6
  <2>2. \A h \in Handlers, d \in Conns \ {c} : handler[h].conn = d =>
          handler'[h].conn = d /\ handler'[h].run = handler[h].run
    BY <1>3
  <2> HIDE DEF StreamInv
  <2> QED
    BY <1>3, <1>5, <1>6, <1>7, <1>8, <2>1, <2>2, FrameKeepsStreams
<1>10. Feed!Leave(c, Runs)
  BY <1>3, <1>5, FeedLeave
<1> QED
  BY <1>9, <1>10

\* An acknowledgement: what leaves the buffer is what every subscription of the
\* run has acknowledged.
LEMMA HandleAckKeeps ==
  ASSUME StreamInv, NEW c \in Conns, NEW r \in Runs, NEW n \in ClientSeqs, HandleAck(c, r, n)
  PROVE  StreamInv' /\ \A d \in Conns, x \in Runs : PosOf(d, x)' = PosOf(d, x)
<1> USE DEF StreamInv
<1> DEFINE sub == [subs[r][c] EXCEPT !.ackSeq = Larger(subs[r][c].ackSeq, n)]
           acked == {sub.ackSeq} \cup
                      {subs[r][d].ackSeq : d \in {d \in Conns \ {c} : subs[r][d].present}}
           releaseSeq == ReleaseSeq(acked)
           e == IF releaseSeq > 0 THEN ReleasedUpTo(buffer[r], releaseSeq) ELSE buffer[r]
<1>1. /\ subs \in [Runs -> [Conns -> Subscription]] /\ buffer \in [Runs -> Entry]
      /\ counters \in [Runs -> Nat] /\ base \in [Runs -> Nat] /\ frames \in Nat
      /\ n \in Nat /\ MaxEventsPerRun \in Nat \ {0}
  BY LogConstants, StreamConstants DEF TypeOK, LogTypeOK, LogInv
<1>2. /\ subs[r][c].present /\ frames' = frames + 1
      /\ subs' = [subs EXCEPT ![r][c] = sub] /\ buffer' = [buffer EXCEPT ![r] = e]
      /\ UNCHANGED <<floorRun, counters, floorToRun, runToFloor, published, base,
                     open, socketRuns, handler, owed>>
  BY DEF HandleAck, Receives
<1>3. /\ sub \in Subscription /\ sub.ackSeq \in Nat /\ sub.ackSeq >= subs[r][c].ackSeq
      /\ sub.present = subs[r][c].present /\ sub.mode = subs[r][c].mode
      /\ sub.lastSentSeq = subs[r][c].lastSentSeq /\ sub.since = subs[r][c].since
      /\ sub.from = subs[r][c].from /\ sub.sent = subs[r][c].sent
      /\ sub.liveQueue = subs[r][c].liveQueue
  <2>1. subs[r][c] \in Subscription /\ subs[r][c].ackSeq \in Nat
    BY <1>1 DEF Subscription
  <2>2. Larger(subs[r][c].ackSeq, n) \in Nat /\ Larger(subs[r][c].ackSeq, n) >= subs[r][c].ackSeq
    BY <1>1, <2>1 DEF Larger
  <2> QED
    BY <2>1, <2>2 DEF Subscription
<1> HIDE DEF sub
<1>4. /\ \A x \in Runs, d \in Conns :
           subs'[x][d] = IF x = r /\ d = c THEN sub ELSE subs[x][d]
      /\ subs' \in [Runs -> [Conns -> Subscription]]
  BY <1>1, <1>2, <1>3
<1>5. acked \in SUBSET Nat /\ acked # {}
  <2>1. \A d \in Conns : subs[r][d].ackSeq \in Nat
    BY <1>1 DEF Subscription
  <2> QED
    BY <1>3, <2>1
<1>6. /\ releaseSeq \in Nat
      /\ \A d \in Conns : subs'[r][d].present => releaseSeq <= subs'[r][d].ackSeq
  <2>1. releaseSeq \in acked /\ \A b \in acked : releaseSeq <= b
    BY <1>5, ReleaseSeqIsLeast
  <2>2. \A d \in Conns : subs'[r][d].present => subs'[r][d].ackSeq \in acked
    BY <1>4
  <2> QED
    BY <1>5, <2>1, <2>2
<1> HIDE DEF acked, releaseSeq
<1>7. /\ buffer[r] \in Entry /\ buffer[r].minSeq \in Nat /\ buffer[r].maxSeq \in Nat
      /\ buffer[r].present => buffer[r].minSeq >= 1 /\ buffer[r].minSeq <= buffer[r].maxSeq + 1
  BY <1>1 DEF Entry, LogInv, EntriesSound
<1>8. /\ e \in Entry /\ e.present = buffer[r].present /\ e.maxSeq = buffer[r].maxSeq
      /\ e.present => e.minSeq >= 1 /\ e.minSeq <= e.maxSeq + 1
      /\ e.minSeq = buffer[r].minSeq \/ e.minSeq - 1 <= releaseSeq
  <2> DEFINE k == Smaller(releaseSeq, buffer[r].maxSeq)
  <2>1. k \in Nat /\ k <= releaseSeq /\ k <= buffer[r].maxSeq
    BY <1>6, <1>7 DEF Smaller
  <2>2. CASE releaseSeq > 0 /\ buffer[r].present /\ k >= buffer[r].minSeq
    <3>1. e = [buffer[r] EXCEPT !.minSeq = k + 1]
      BY <2>2 DEF ReleasedUpTo
    <3> HIDE DEF e, k
    <3>2. /\ e \in Entry /\ e.present = buffer[r].present /\ e.maxSeq = buffer[r].maxSeq
          /\ e.minSeq = k + 1
      BY <1>7, <2>1, <3>1 DEF Entry
    <3> QED
      BY <1>6, <1>7, <2>1, <3>2
  <2>3. CASE ~(releaseSeq > 0 /\ buffer[r].present /\ k >= buffer[r].minSeq)
    <3>1. e = buffer[r]
      BY <2>3 DEF ReleasedUpTo
    <3> QED
      BY <1>7, <3>1
  <2> QED
    BY <2>2, <2>3
<1> HIDE DEF e
<1>9. /\ buffer' \in [Runs -> Entry]
      /\ \A x \in Runs : buffer'[x] = IF x = r THEN e ELSE buffer[x]
  BY <1>1, <1>2, <1>8
<1>10. LogInv'
  <2>1. Buffered' = Buffered
    BY <1>8, <1>9 DEF Buffered
  <2>2. LogTypeOK' /\ RowsSound' /\ EventsReachNewest'
    BY <1>2, <1>9, <2>1 DEF LogInv, LogTypeOK, RowsSound, EventsReachNewest
  <2>3. NothingLeaks' /\ EntriesSound'
    BY <1>2, <1>8, <1>9, <2>1 DEF LogInv, NothingLeaks, EntriesSound
  <2> QED
    BY <2>2, <2>3 DEF LogInv
<1>11. SubsSound'
  <2> SUFFICES ASSUME NEW x \in Runs, NEW d \in Conns
               PROVE  Sound(subs'[x][d], counters[x], buffer'[x], base[x])
    BY <1>2 DEF SubsSound
  <2>1. /\ Sound(subs[x][d], counters[x], buffer[x], base[x])
        /\ subs[x][d].ackSeq \in Nat /\ subs[x][d].from \in Nat
        /\ subs'[x][d].ackSeq \in Nat /\ subs'[x][d].from \in Nat
        /\ counters[x] \in Nat /\ buffer[x].minSeq \in Nat /\ buffer'[x].minSeq \in Nat
    BY <1>1, <1>4, <1>9 DEF SubsSound, Subscription, Entry
  <2>2. CASE x # r
    BY <1>4, <1>9, <2>1, <2>2
  <2>3. CASE x = r
    <3>1. /\ subs'[r][d].present = subs[r][d].present /\ subs'[r][d].mode = subs[r][d].mode
          /\ subs'[r][d].since = subs[r][d].since /\ subs'[r][d].from = subs[r][d].from
          /\ subs'[r][d].sent = subs[r][d].sent /\ subs'[r][d].liveQueue = subs[r][d].liveQueue
          /\ subs'[r][d].lastSentSeq = subs[r][d].lastSentSeq
          /\ subs'[r][d].ackSeq >= subs[r][d].ackSeq
      BY <1>3, <1>4, <2>1, <2>3
    <3>2. /\ e.present = buffer[r].present /\ buffer'[r] = e
          /\ e.minSeq = buffer[r].minSeq \/ e.minSeq - 1 <= releaseSeq
          /\ subs'[r][d].present => releaseSeq <= subs'[r][d].ackSeq
      BY <1>6, <1>8, <1>9
    <3>3. ASSUME subs[r][d].present,
                 buffer[r].minSeq - 1 <= Larger(Larger(subs[r][d].from, subs[r][d].ackSeq),
                                                counters[r] - MaxEventsPerRun)
          PROVE  e.minSeq - 1 <= Larger(Larger(subs'[r][d].from, subs'[r][d].ackSeq),
                                        counters[r] - MaxEventsPerRun)
      BY <1>1, <1>6, <2>1, <2>3, <3>1, <3>2, <3>3 DEF Larger
    <3>4. Sound(subs'[r][d], counters[r], e, base[r])
      BY <2>1, <2>3, <3>1, <3>2, <3>3, Zenon DEF Sound
    <3> QED
      BY <2>3, <3>2, <3>4
  <2> QED
    BY <2>2, <2>3
<1>12. TypeOK' /\ HandlersSound'
  BY <1>1, <1>2, <1>4, <1>10 DEF TypeOK, LogInv, HandlersSound
<1>13. SocketsInStep' /\ NobodyForgotten'
  <2>1. \A x \in Runs, d \in Conns :
          subs'[x][d].present = subs[x][d].present /\ subs'[x][d].mode = subs[x][d].mode
    BY <1>3, <1>4
  <2> QED
    BY <1>2, <2>1 DEF SocketsInStep, NobodyForgotten
<1>14. \A d \in Conns, x \in Runs : PosOf(d, x)' = PosOf(d, x)
  <2>1. ASSUME NEW d \in Conns, NEW x \in Runs
        PROVE  /\ subs'[x][d].present = subs[x][d].present
               /\ subs'[x][d].mode = subs[x][d].mode
               /\ subs'[x][d].since = subs[x][d].since
               /\ subs'[x][d].lastSentSeq = subs[x][d].lastSentSeq
    BY <1>3, <1>4
  <2>2. base' = base
    BY <1>2
  <2> QED
    BY <2>1, <2>2, Zenon DEF PosOf
<1> QED
  BY <1>10, <1>11, <1>12, <1>13, <1>14

-----------------------------------------------------------------------------
(* The theorems.                                                           *)

LEMMA InitStreams == Init => StreamInv /\ Feed!Init
<1> SUFFICES ASSUME Init PROVE StreamInv /\ Feed!Init
  OBVIOUS
<1> USE DEF Init, LogInit
<1>1. TypeOK
  BY DEF TypeOK, LogTypeOK, NoWindow, Entry, NoSub, Subscription, Idle, Handler
<1>2. Buffered = {}
  BY DEF Buffered, NoWindow
<1>3. Cardinality(Buffered) = 0
  BY <1>2, FS_EmptySet
<1>4. LogInv
  BY <1>1, <1>2, <1>3, LogConstants
     DEF TypeOK, LogInv, NothingLeaks, EntriesSound, RowsSound, EventsReachNewest, NoWindow
<1>5. \A r \in Runs, c \in Conns : subs[r][c] = NoSub /\ ~NoSub.present
  BY DEF NoSub
<1>6. HandlersSound
  BY DEF HandlersSound, Idle
<1>7. SubsSound
  BY <1>5 DEF SubsSound, Sound
<1>8. SocketsInStep /\ NobodyForgotten
  BY <1>5 DEF SocketsInStep, NobodyForgotten
<1>9. Feed!Init
  BY <1>5 DEF Feed!Init
<1> QED
  BY <1>1, <1>4, <1>6, <1>7, <1>8, <1>9 DEF StreamInv

\* The three kinds of events are one kind of step of the feed.
LEMMA EventsKeep ==
  ASSUME StreamInv, Events
  PROVE  StreamInv' /\ Feed!Next
<1>1. ASSUME NEW r \in Runs, NEW gone, NEW over \in BOOLEAN,
             Ingest(r, gone, over), RouteLiveEnvelope(r), LogInv'
      PROVE  StreamInv' /\ Feed!Next
  <2>1. StreamInv' /\ Feed!Advance({r}, gone)
    BY <1>1, EventKeepsStreams
  <2>2. gone \in SUBSET Runs
    BY <1>1, IngestFacts DEF Buffered, StreamInv
  <2> QED
    BY <2>1, <2>2 DEF Feed!Next
<1>2. ASSUME NEW r \in Runs, RunStarts(r) PROVE StreamInv' /\ Feed!Next
  <2>1. PICK gone \in Evictions(r) : InitializeRun(r, gone)
    BY <1>2 DEF RunStarts
  <2>2. /\ HandleFloorRun(r, FALSE, gone) /\ floorRun' = [floorRun EXCEPT ![FloorOf[r]] = r]
        /\ Ingest(r, gone, FALSE) /\ RouteLiveEnvelope(r)
    BY <1>2, <2>1 DEF RunStarts, InitializeRun, HandleFloorRun
  <2>3. LogInv'
    BY <2>2, FloorRunKeepsLog DEF StreamInv
  <2> QED
    BY <1>1, <2>2, <2>3
<1>3. ASSUME NEW f \in Floors, RunMoves(f) PROVE StreamInv' /\ Feed!Next
  <2>1. PICK r \in Runs : floorRun[f] = r /\ FloorOf[r] = f
    BY <1>3 DEF RunMoves, StreamInv, LogInv, LogTypeOK, RowsSound
  <2>2. PICK over \in BOOLEAN, gone \in Evictions(floorRun[f]) : WriteRun(f, over, gone)
    BY <1>3 DEF RunMoves
  <2>3. /\ HandleFloorRun(r, over, gone) /\ UNCHANGED floorRun
        /\ Ingest(r, gone, over) /\ RouteLiveEnvelope(r)
    BY <1>3, <2>1, <2>2 DEF RunMoves, WriteRun, HandleFloorRun, Ingest, RouteLiveEnvelope
  <2>4. floorRun' = [floorRun EXCEPT ![FloorOf[r]] = r]
    BY <2>1, <2>3 DEF StreamInv, LogInv, LogTypeOK
  <2>5. LogInv'
    BY <2>3, <2>4, FloorRunKeepsLog DEF StreamInv
  <2> QED
    BY <1>1, <2>3, <2>5
<1>4. ASSUME NEW f \in Floors, RunGenerates(f) PROVE StreamInv' /\ Feed!Next
  <2>1. PICK r \in Runs : floorToRun[f] = r
    BY <1>4 DEF RunGenerates, StreamInv, LogInv, LogTypeOK
  <2>2. PICK gone \in Evictions(floorToRun[f]) : HandleGeneration(f, gone)
    BY <1>4 DEF RunGenerates
  <2>3. Ingest(r, gone, FALSE) /\ RouteLiveEnvelope(r)
    BY <1>4, <2>1, <2>2 DEF RunGenerates, HandleGeneration, Ingest, RouteLiveEnvelope
  <2>4. LogInv'
    BY <2>2, GenerationKeepsLog DEF StreamInv
  <2> QED
    BY <1>1, <2>3, <2>4
<1>5. ASSUME NEW r \in Runs, SweepTimer(r) PROVE StreamInv' /\ Feed!Next
  <2>1. PICK gone \in SUBSET Buffered : Sweep(gone)
    BY <1>5 DEF SweepTimer
  <2>2. StreamInv' /\ Feed!Advance({}, gone) /\ gone \in SUBSET Runs
    BY <1>5, <2>1, SweepKeepsStreams DEF SweepTimer, Buffered
  <2> QED
    BY <2>2 DEF Feed!Next
<1> QED
  BY <1>2, <1>3, <1>4, <1>5 DEF Events

\* Frames, closes and handlers are joins, leaves and stutters of the feed.
LEMMA FramesKeep ==
  ASSUME StreamInv, Frames \/ Continuations
  PROVE  StreamInv' /\ (Feed!Next \/ UNCHANGED <<counters, [c \in Conns |-> [r \in Runs |-> PosOf(c, r)]]>>)
<1>1. ASSUME NEW c \in Conns, NEW left \in SUBSET Runs, Feed!Leave(c, left)
      PROVE  Feed!Next
  BY <1>1 DEF Feed!Next
<1>2. ASSUME NEW c \in Conns, Close(c) PROVE StreamInv' /\ Feed!Next
  BY <1>1, <1>2, CloseKeeps
<1>3. ASSUME NEW c \in Conns, NEW r \in Runs, ResumeRejected(c, r)
      PROVE  StreamInv' /\ Feed!Next
  BY <1>1, <1>3, ResumeRejectedKeeps
<1>4. ASSUME NEW c \in Conns, NEW r \in Runs, NEW n \in ClientSeqs, ResumeFromBuffer(c, r, n)
      PROVE  StreamInv' /\ Feed!Next
  BY <1>4, ResumeFromBufferKeeps DEF Feed!Next
<1>5. ASSUME NEW h \in Handlers, NEW c \in Conns, NEW r \in Runs, NEW n \in ClientSeqs,
             ResumeAwaits(h, c, r, n)
      PROVE  StreamInv' /\ Feed!Next
  BY <1>1, <1>5, ResumeAwaitsKeeps
<1>6. ASSUME NEW c \in Conns, NEW r \in Runs, NEW n \in ClientSeqs, HandleAck(c, r, n)
      PROVE  /\ StreamInv'
             /\ UNCHANGED <<counters, [d \in Conns |-> [x \in Runs |-> PosOf(d, x)]]>>
  <2>1. StreamInv' /\ \A d \in Conns, x \in Runs : PosOf(d, x)' = PosOf(d, x)
    BY <1>6, HandleAckKeeps
  <2>2. counters' = counters
    BY <1>6 DEF HandleAck
  <2> QED
    BY <2>1, <2>2
<1>7. ASSUME NEW h \in Handlers, ReadRecord(h) \/ ResumeReadsAgain(h)
      PROVE  /\ StreamInv'
             /\ UNCHANGED <<counters, [d \in Conns |-> [x \in Runs |-> PosOf(d, x)]]>>
  BY <1>7, HandlerKeeps DEF PosOf
<1>8. ASSUME NEW h \in Handlers, ResumeContinues(h) PROVE StreamInv' /\ Feed!Next
  BY <1>1, <1>8, ResumeContinuesKeeps
<1> QED
  BY <1>2, <1>3, <1>4, <1>5, <1>6, <1>7, <1>8 DEF Frames, Continuations

LEMMA StutterKeeps ==
  ASSUME StreamInv, UNCHANGED vars
  PROVE  StreamInv' /\ UNCHANGED <<counters, [c \in Conns |-> [r \in Runs |-> PosOf(c, r)]]>>
<1>1. UNCHANGED <<floorRun, counters, buffer, floorToRun, runToFloor, published, base,
                  open, subs, socketRuns, handler, frames, owed>>
  BY DEF vars, logVars, streamVars
<1>2. LogInv' /\ TypeOK'
  BY <1>1 DEF StreamInv, LogInv, LogTypeOK, NothingLeaks, Buffered, EntriesSound, RowsSound,
              EventsReachNewest, TypeOK
<1>3. HandlersSound' /\ SubsSound' /\ SocketsInStep' /\ NobodyForgotten'
  BY <1>1 DEF StreamInv, HandlersSound, SubsSound, SocketsInStep, NobodyForgotten
<1> QED
  BY <1>1, <1>2, <1>3 DEF StreamInv, PosOf

\* The inductive invariant holds in every reachable state.
THEOREM StreamsInvariant == Spec => []StreamInv
<1>1. StreamInv /\ [Next]_vars => StreamInv'
  BY EventsKeep, FramesKeep, StutterKeeps DEF Next
<1> QED
  BY <1>1, InitStreams, PTL DEF Spec

\* Every variable of the log and of the coordinator keeps its type.
THEOREM TypeCorrect == Spec => []TypeOK
<1>1. StreamInv => TypeOK
  BY DEF StreamInv
<1> QED
  BY <1>1, StreamsInvariant, PTL

\* A run that is released leaves nothing behind in the counters, the buffer and
\* the maps of the log, and the buffer keeps its size.
THEOREM NothingEverLeaks == Spec => []NothingLeaks
<1>1. StreamInv => NothingLeaks
  BY DEF StreamInv, LogInv
<1> QED
  BY <1>1, StreamsInvariant, PTL

\* What a generation produces is logged for the newest run of its floor.
THEOREM GenerationsReachNewestRun == Spec => []EventsReachNewest
<1>1. StreamInv => EventsReachNewest
  BY DEF StreamInv, LogInv
<1> QED
  BY <1>1, StreamsInvariant, PTL

\* A live connection has been sent exactly the events after the one it asked
\* from, for any number of connections, resumes, evictions and closes.
THEOREM LiveMeansCaughtUp == Spec => []CaughtUp
<1>1. StreamInv => CaughtUp
  BY DEF StreamInv, SubsSound, Sound, CaughtUp, LiveNow
<1> QED
  BY <1>1, StreamsInvariant, PTL

\* No acknowledgement of another connection takes away what a live connection
\* needs to resume.
THEOREM AcknowledgementsCoverReconnects == Spec => []ReconnectCovered
<1>1. ASSUME StreamInv, NEW c \in Conns, NEW r \in Runs, LiveNow(c, r)
      PROVE  Replayable(r, Larger(Larger(subs[r][c].from, subs[r][c].ackSeq),
                                  counters[r] - MaxEventsPerRun))
  BY <1>1 DEF StreamInv, SubsSound, Sound, LiveNow, Replayable
<1>2. StreamInv => ReconnectCovered
  BY <1>1 DEF ReconnectCovered
<1> QED
  BY <1>2, StreamsInvariant, PTL

\* A connection that resumed a run is live, is still going to be answered, or
\* has been told to give up.
THEOREM NobodyIsForgotten == Spec => []NobodyForgotten
<1>1. StreamInv => NobodyForgotten
  BY DEF StreamInv
<1> QED
  BY <1>1, StreamsInvariant, PTL

\* The two indexes of the coordinator agree and hold open sockets only.
THEOREM IndexesAgree == Spec => []SocketsInStep
<1>1. StreamInv => SocketsInStep
  BY DEF StreamInv
<1> QED
  BY <1>1, StreamsInvariant, PTL

\* The sequencer, the buffer and the resume handlers together implement the feed
\* of RunFeed: whoever follows a run moves with its head, in the same step.
THEOREM StreamsImplementFeed == Spec => FeedSpec
<1>1. Init => Feed!Init
  BY InitStreams
<1>2. StreamInv /\ [Next]_vars => [Feed!Next]_(Feed!feedVars)
  <2> SUFFICES ASSUME StreamInv, [Next]_vars
               PROVE  Feed!Next \/ UNCHANGED <<counters, [c \in Conns |-> [r \in Runs |-> PosOf(c, r)]]>>
    BY DEF Feed!feedVars, PosOf
  <2> QED
    BY EventsKeep, FramesKeep, StutterKeeps DEF Next
<1> QED
  BY <1>1, <1>2, StreamsInvariant, PTL DEF Spec, FeedSpec, Feed!Spec

=============================================================================
