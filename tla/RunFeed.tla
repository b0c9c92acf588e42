------------------------------ MODULE RunFeed -------------------------------
(***************************************************************************)
(* What the realtime resume protocol promises, without buffers, queues and *)
(* handlers: a connection that follows a run stands at the head of its     *)
(* feed.  It joins at the head, and whenever the head moves it moves with  *)
(* it in the same step.  When a feed is forgotten, its followers are       *)
(* adrift until they join or leave.                                        *)
(***************************************************************************)
EXTENDS Integers

CONSTANTS
  Conns, Runs,
  Away, Adrift  \* positions of a connection outside the feed

VARIABLES
  head,  \* the number of events in the feed of each run
  pos    \* per connection and run: the last event it was given,
         \* Away (does not follow the run) or Adrift

feedVars == <<head, pos>>

Following(c, r) == pos[c][r] \notin {Away, Adrift}

Init ==
  /\ head = [r \in Runs |-> 0]
  /\ pos = [c \in Conns |-> [r \in Runs |-> Away]]

\* Followers ahead of the head (they claimed to be) wait there.
Moved(p, h) == IF p < h THEN h ELSE p

\* The feeds in gone are forgotten, that of r (if it is one) grows.
Advance(grows, gone) ==
  /\ grows \cap gone = {}
  /\ head' = [r \in Runs |-> IF r \in gone THEN 0
                             ELSE IF r \in grows THEN head[r] + 1 ELSE head[r]]
  /\ pos' = [c \in Conns |-> [r \in Runs |->
               IF ~Following(c, r) THEN pos[c][r]
               ELSE IF r \in gone THEN Adrift
               ELSE IF r \in grows THEN Moved(pos[c][r], head[r] + 1)
               ELSE pos[c][r]]]

\* A connection joins at the head (or beyond it, if that is what it asked).
Join(c, r) ==
  /\ UNCHANGED head
  /\ pos'[c][r] \in Nat
  /\ pos'[c][r] >= head[r]
  /\ pos' = [pos EXCEPT ![c][r] = pos'[c][r]]

Leave(c, left) ==
  /\ UNCHANGED head
  /\ pos' = [pos EXCEPT ![c] = [r \in Runs |-> IF r \in left THEN Away ELSE @[r]]]

Next ==
  \/ \E gone \in SUBSET Runs, grows \in {{}} \cup {{r} : r \in Runs} : Advance(grows, gone)
  \/ \E c \in Conns, r \in Runs : Join(c, r)
  \/ \E c \in Conns, left \in SUBSET Runs : Leave(c, left)

Spec == Init /\ [][Next]_feedVars

=============================================================================
