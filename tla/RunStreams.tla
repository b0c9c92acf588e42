----------------------------- MODULE RunStreams -----------------------------
(***************************************************************************)
(* RealtimeResumeCoordinator (apps/api/src/realtime/resume) on top of the  *)
(* run log: websocket connections resume the event stream of a run,        *)
(* acknowledge it, and close.                                              *)
(*                                                                         *)
(* Node runs one piece of JavaScript at a time.  A frame is handled in one *)
(* action up to the first await, the read of the run's row; what comes     *)
(* after it is ResumeContinues.  In between anything may happen: events,   *)
(* other frames of the same connection (ws delivers several in one tick),  *)
(* its close.  A handler is one call of handleResume.                      *)
(*                                                                         *)
(* A connection is a socket that has been opened, and it closes once.      *)
(* Clients may send any numbers.  Frames that are not JSON or not of a     *)
(* known kind are answered with an error and change nothing; they are left *)
(* out.                                                                    *)
(***************************************************************************)
EXTENDS RunLog

CONSTANTS
  Conns,      \* sockets
  Handlers,   \* names for the concurrent calls of handleResume
  SessionOf,  \* the session of each floor
  ContextOf,  \* the session_id of each connection, or AdminContext
  ClientSeqs, \* lastSeq and ackSeq in the frames of the clients
  MaxFrames,  \* model bound: frames the clients send
  AdminContext, NoConn

ASSUME StreamConstants ==
  /\ AdminContext \notin {SessionOf[f] : f \in Floors}
  /\ NoConn \notin Conns
  /\ ClientSeqs \subseteq Nat
  /\ MaxFrames \in Nat
  /\ ContextOf \in [Conns -> {SessionOf[f] : f \in Floors} \cup {AdminContext}]

VARIABLES
  open,        \* the sockets whose readyState is OPEN
  subs,        \* runSubscriptions: run -> socket -> RunSubscription
  socketRuns,  \* socketRuns: socket -> the runs it has a subscription of
  handler,     \* the calls of handleResume that await the database
  frames,      \* frames sent so far (bounded by MaxFrames)
  owed         \* history: the runs a socket resumed and was not told to give up

streamVars == <<open, subs, socketRuns, handler, frames, owed>>
vars == <<floorRun, logVars, streamVars>>

\* A RunSubscription.  present: the map has one.  The last three fields are
\* history, kept once it is live: what the resume asked for, how many events of
\* the run had been forgotten then, and which numbers the socket was sent.
Subscription ==
  [present : BOOLEAN, mode : {"resuming", "live"}, liveQueue : SUBSET Nat,
   lastSentSeq : Nat, ackSeq : Nat, from : Nat, since : Nat, sent : SUBSET Nat]

NoSub == [present |-> FALSE, mode |-> "resuming", liveQueue |-> {}, lastSentSeq |-> 0,
          ackSeq |-> 0, from |-> 0, since |-> 0, sent |-> {}]

\* record: whether the read found the row of the run.
Handler ==
  [stage : {"idle", "lookup", "fallback"}, conn : Conns \cup {NoConn},
   run : Runs \cup {NoRun}, record : {"unread", "none", "found"}]

Idle == [stage |-> "idle", conn |-> NoConn, run |-> NoRun, record |-> "unread"]

TypeOK ==
  /\ LogTypeOK
  /\ open \subseteq Conns
  /\ subs \in [Runs -> [Conns -> Subscription]]
  /\ socketRuns \in [Conns -> SUBSET Runs]
  /\ handler \in [Handlers -> Handler]
  /\ frames \in Nat
  /\ owed \in [Conns -> SUBSET Runs]

Init ==
  /\ LogInit
  /\ open = Conns
  /\ subs = [r \in Runs |-> [c \in Conns |-> NoSub]]
  /\ socketRuns = [c \in Conns |-> {}]
  /\ handler = [h \in Handlers |-> Idle]
  /\ frames = 0
  /\ owed = [c \in Conns |-> {}]

-----------------------------------------------------------------------------
(* Events of the run log.                                                  *)

BadRouted(sub, seq) ==
  IF ~sub.present THEN sub
  ELSE IF sub.mode = "resuming" THEN [sub EXCEPT !.liveQueue = @ \cup {seq}]
  ELSE IF seq > sub.lastSentSeq THEN [sub EXCEPT !.sent = @ \cup {seq}]
  ELSE sub

\* routeLiveEnvelope, for one subscription: queued while it is resuming.
Routed(sub, seq) ==
  IF ~sub.present THEN sub
  ELSE IF sub.mode = "resuming" THEN [sub EXCEPT !.liveQueue = @ \cup {seq}]
  ELSE IF seq > sub.lastSentSeq
         THEN [sub EXCEPT !.lastSentSeq = seq, !.sent = @ \cup {seq}]
         ELSE sub

RouteLiveEnvelope(r) ==
  /\ subs' = [subs EXCEPT ![r] = [c \in Conns |-> Routed(subs[r][c], counters[r] + 1)]]
  /\ UNCHANGED <<open, socketRuns, handler, frames, owed>>

RunStarts(r) ==
  /\ \E gone \in Evictions(r) : InitializeRun(r, gone)
  /\ RouteLiveEnvelope(r)

RunMoves(f) ==
  /\ floorRun[f] # NoRun
  /\ \E over \in BOOLEAN, gone \in Evictions(floorRun[f]) : WriteRun(f, over, gone)
  /\ RouteLiveEnvelope(floorRun[f])

RunGenerates(f) ==
  /\ floorToRun[f] # NoRun
  /\ \E gone \in Evictions(floorToRun[f]) : HandleGeneration(f, gone)
  /\ RouteLiveEnvelope(floorToRun[f])

SweepTimer(r) ==
  /\ \E gone \in SUBSET Buffered : r \in gone /\ Sweep(gone)
  /\ UNCHANGED streamVars

-----------------------------------------------------------------------------
(* Frames and the end of a connection.                                     *)

\* An open socket receives one more frame.
Receives(c) ==
  /\ c \in open
  /\ frames < MaxFrames
  /\ frames' = frames + 1

IsAdmin(c) == ContextOf[c] = AdminContext
Visible(c, r) == IsAdmin(c) \/ SessionOf[FloorOf[r]] = ContextOf[c]

\* ensureSubscription and the first lines of handleResume: a subscription
\* that is there keeps its ackSeq.
Resuming(c, r, lastSeq) ==
  [present |-> TRUE, mode |-> "resuming", liveQueue |-> {}, lastSentSeq |-> lastSeq,
   ackSeq |-> IF subs[r][c].present THEN subs[r][c].ackSeq ELSE 0,
   from |-> 0, since |-> 0, sent |-> {}]

\* deliverEnvelopes: the envelopes beyond lastSentSeq, in ascending order.
Delivered(sub, seqs) ==
  LET fresh == {s \in seqs : s > sub.lastSentSeq}
  IN  IF fresh = {} THEN sub
      ELSE [sub EXCEPT !.sent = @ \cup fresh,
                       !.lastSentSeq = CHOOSE s \in fresh : \A t \in fresh : t <= s]

\* flushLiveQueue, then mode = "live".
Flushed(sub) == [Delivered(sub, sub.liveQueue) EXCEPT !.liveQueue = {}, !.mode = "live"]

SetSub(c, r, sub) ==
  /\ subs' = [subs EXCEPT ![r][c] = sub]
  /\ socketRuns' = [socketRuns EXCEPT ![c] = @ \cup {r}]

\* removeSubscription
RemoveSub(c, r) ==
  /\ subs' = [subs EXCEPT ![r][c] = NoSub]
  /\ socketRuns' = [socketRuns EXCEPT ![c] = @ \ {r}]

\* The run is in memory, visible and replayable: replay, flush, live.
ResumeFromBuffer(c, r, lastSeq) ==
  /\ Receives(c)
  /\ buffer[r].present /\ Visible(c, r) /\ Replayable(r, lastSeq)
  /\ LET replayed == Delivered(Resuming(c, r, lastSeq), buffer[r].minSeq .. buffer[r].maxSeq)
     IN  SetSub(c, r, [Flushed(replayed) EXCEPT !.from = lastSeq, !.since = base[r]])
  /\ owed' = [owed EXCEPT ![c] = @ \cup {r}]
  /\ UNCHANGED <<floorRun, logVars, open, handler>>

\* In memory, but of another session: refused at once.
ResumeRejected(c, r) ==
  /\ Receives(c)
  /\ buffer[r].present \/ r \in runToFloor
  /\ ~Visible(c, r)
  /\ RemoveSub(c, r)
  /\ owed' = [owed EXCEPT ![c] = @ \ {r}]
  /\ UNCHANGED <<floorRun, logVars, open, handler>>

\* Not in memory ("lookup": not even its owner is known), or no longer from
\* this number on ("fallback"): the handler awaits the row of the run.
ResumeAwaits(h, c, r, lastSeq) ==
  /\ Receives(c)
  /\ handler[h] = Idle
  /\ LET known == buffer[r].present \/ r \in runToFloor
     IN  /\ known => Visible(c, r) /\ ~Replayable(r, lastSeq)
         /\ handler' = [handler EXCEPT ![h] =
              [stage |-> IF known THEN "fallback" ELSE "lookup",
               conn |-> c, run |-> r, record |-> "unread"]]
  /\ SetSub(c, r, Resuming(c, r, lastSeq))
  /\ owed' = [owed EXCEPT ![c] = @ \cup {r}]
  /\ UNCHANGED <<floorRun, logVars, open>>

\* getFloorRunRecordByRunId: null when the floor has a newer run.
ReadRecord(h) ==
  /\ handler[h].stage # "idle"
  /\ handler[h].record = "unread"
  /\ handler' = [handler EXCEPT ![h].record =
                    IF floorRun[FloorOf[handler[h].run]] = handler[h].run THEN "found"
                    ELSE "none"]
  /\ UNCHANGED <<floorRun, logVars, open, subs, socketRuns, frames, owed>>

BadResumeReadsAgain(h) ==
  /\ handler[h].stage = "lookup"
  /\ handler[h].record = "none"
  /\ IsAdmin(handler[h].conn)
  /\ handler' = [handler EXCEPT ![h] = Idle]
  /\ UNCHANGED <<floorRun, logVars, open, subs, socketRuns, frames, owed>>

\* An admin's lookup that found no record is followed by a second read.
ResumeReadsAgain(h) ==
  /\ handler[h].stage = "lookup"
  /\ handler[h].record = "none"
  /\ IsAdmin(handler[h].conn)
  /\ handler' = [handler EXCEPT ![h].stage = "fallback", ![h].record = "unread"]
  /\ UNCHANGED <<floorRun, logVars, open, subs, socketRuns, frames, owed>>

\* The rest of handleResume.  Every way out of it removes the subscription the
\* socket has by now and sends it an error, a final snapshot or both:
\* unknown_run, resume_rejected, or one of the answers of replayFromStore.
ResumeContinues(h) ==
  LET c == handler[h].conn
      r == handler[h].run
  IN  /\ handler[h].stage # "idle"
      /\ handler[h].record # "unread"
      /\ ~(handler[h].stage = "lookup" /\ handler[h].record = "none" /\ IsAdmin(c))
      /\ RemoveSub(c, r)
      /\ owed' = [owed EXCEPT ![c] = @ \ {r}]
      /\ handler' = [handler EXCEPT ![h] = Idle]
      /\ UNCHANGED <<floorRun, logVars, open, frames>>

BadReleaseSeq(acked) == CHOOSE a \in acked : \A b \in acked : a >= b
ReleaseSeq(acked) == CHOOSE a \in acked : \A b \in acked : a <= b

\* handleAck: releases what every subscription of the run has acknowledged.
HandleAck(c, r, ackSeq) ==
  /\ Receives(c)
  /\ subs[r][c].present
  /\ LET sub == [subs[r][c] EXCEPT !.ackSeq = Larger(@, ackSeq)]
         acked == {sub.ackSeq} \cup
                    {subs[r][d].ackSeq : d \in {d \in Conns \ {c} : subs[r][d].present}}
         releaseSeq == ReleaseSeq(acked)
     IN  /\ subs' = [subs EXCEPT ![r][c] = sub]
         /\ buffer' = [buffer EXCEPT ![r] =
              IF releaseSeq > 0 THEN ReleasedUpTo(@, releaseSeq) ELSE @]
  /\ UNCHANGED <<floorRun, counters, floorToRun, runToFloor, published, base,
                 open, socketRuns, handler, owed>>

\* handleConnectionClose.  Handlers of the socket run on.  It returns early for
\* a socket without subscriptions, whose close nobody here notices.
Close(c) ==
  /\ c \in open
  /\ socketRuns[c] # {}
  /\ open' = open \ {c}
  /\ subs' = [r \in Runs |-> IF r \in socketRuns[c] THEN [subs[r] EXCEPT ![c] = NoSub]
                             ELSE subs[r]]
  /\ socketRuns' = [socketRuns EXCEPT ![c] = {}]
  /\ owed' = [owed EXCEPT ![c] = {}]
  /\ UNCHANGED <<floorRun, logVars, handler, frames>>

Events ==
  \/ \E r \in Runs : RunStarts(r) \/ SweepTimer(r)
  \/ \E f \in Floors : RunMoves(f) \/ RunGenerates(f)

Frames ==
  \E c \in Conns :
    \/ Close(c)
    \/ \E r \in Runs :
         \/ ResumeRejected(c, r)
         \/ \E n \in ClientSeqs :
              \/ ResumeFromBuffer(c, r, n)
              \/ \E h \in Handlers : ResumeAwaits(h, c, r, n)
              \/ HandleAck(c, r, n)

Continuations ==
  \E h \in Handlers : ReadRecord(h) \/ ResumeReadsAgain(h) \/ ResumeContinues(h)

Next == Events \/ Frames \/ Continuations

Spec == Init /\ [][Next]_vars

-----------------------------------------------------------------------------
(* Properties.                                                             *)

\* The subscription is live and its run was not forgotten since its resume.
LiveNow(c, r) ==
  /\ subs[r][c].present
  /\ subs[r][c].mode = "live"
  /\ subs[r][c].since = base[r]

\* However resumes, events, evictions and closes interleave: a live connection
\* has been sent every event after the one it asked from, none twice and none
\* left in a queue, for as long as the log remembers its run (handleResume
\* replays, flushes and switches to live; routeLiveEnvelope does the rest).
CaughtUp ==
  \A c \in Conns, r \in Runs : LiveNow(c, r) =>
    /\ subs[r][c].sent = {s \in 1 .. counters[r] : s > subs[r][c].from}
    /\ subs[r][c].lastSentSeq = Larger(subs[r][c].from, counters[r])
    /\ subs[r][c].liveQueue = {}

\* No connection's acknowledgement takes away what another one needs: a live
\* connection that breaks now can resume from what it last acknowledged (or
\* asked from), unless the run has outgrown maxEventsPerRun since.
ReconnectCovered ==
  \A c \in Conns, r \in Runs : LiveNow(c, r) =>
    LET processed == Larger(subs[r][c].from, subs[r][c].ackSeq)
    IN  Replayable(r, Larger(processed, counters[r] - MaxEventsPerRun))

\* A connection that resumed a run is never left in the dark: it is live, or a
\* handler is still going to answer it, or it has been told to give up since.
\* A subscription that queues events without a handler would queue for ever.
NobodyForgotten ==
  \A c \in Conns, r \in Runs :
    LET awaited == \E h \in Handlers : handler[h].conn = c /\ handler[h].run = r
        live == subs[r][c].present /\ subs[r][c].mode = "live"
    IN  /\ r \in owed[c] => live \/ awaited
        /\ subs[r][c].present => r \in owed[c]

\* The two indexes of the coordinator agree, and neither keeps a socket that
\* is not open, although handlers go on after the close of theirs.
SocketsInStep ==
  \A c \in Conns :
    /\ socketRuns[c] = {r \in Runs : subs[r][c].present}
    /\ socketRuns[c] # {} => c \in open

\* The resume protocol implements the abstract feed.
Feed == INSTANCE RunFeed WITH
  Away <- -1, Adrift <- -2, head <- counters,
  pos <- [c \in Conns |-> [r \in Runs |->
            IF ~(subs[r][c].present /\ subs[r][c].mode = "live") THEN -1
            ELSE IF subs[r][c].since # base[r] THEN -2
            ELSE subs[r][c].lastSentSeq]]
FeedSpec == Feed!Spec

=============================================================================
