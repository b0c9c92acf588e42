----------------------- MODULE GenerationCoordinator ------------------------
(***************************************************************************)
(* InMemoryGenerationCoordinator                                           *)
(* (apps/api/src/services/generation-guard-service.ts): every generation   *)
(* of a session branch runs as a task under this coordinator, one at a     *)
(* time.  A busy branch refuses a caller ("reject") or lets it wait        *)
(* ("queue") until a timer or its abort signal withdraws it.               *)
(*                                                                         *)
(* The code runs on one JavaScript thread: a run of statements without an  *)
(* await is one action.  A caller without a signal or a timeout is one for *)
(* which Abort or Timeout never happens.                                   *)
(***************************************************************************)
EXTENDS Integers, Sequences, SequencesExt

CONSTANTS
  Requests,  \* the calls of execute
  Keys,      \* sessionId::branchId
  KeyOf,     \* the key of each call
  ModeOf     \* "reject" or "queue"

ASSUME CoordinatorAssumption ==
  /\ KeyOf \in [Requests -> Keys]
  /\ ModeOf \in [Requests -> {"reject", "queue"}]

VARIABLES
  entries,    \* keys of the states map
  active,     \* QueueState.active; FALSE without an entry
  queue,      \* QueueState.queue; empty without an entry
  cancelled,  \* QueuedExecution.cancelled
  timers,     \* requests whose queue timer is armed
  listening,  \* requests whose abort listener is registered
  aborted,    \* abort signals that have fired
  called,     \* calls of execute so far
  task,       \* whether the task of a request was started, and ended
  answer,     \* how the promise of a call settled; the first settlement counts
  ahead       \* history: who was waiting when a request began to wait

guards == <<entries, active, queue>>
alarms == <<cancelled, timers, listening>>
vars   == <<entries, active, queue, cancelled, timers, listening, aborted, called, task,
            answer, ahead>>

Answers == {"none", "result", "conflict", "cancelled", "timeout"}

TypeOK ==
  /\ entries \subseteq Keys
  /\ active \in [Keys -> BOOLEAN]
  /\ queue \in [Keys -> Seq(Requests)]
  /\ cancelled \subseteq Requests
  /\ timers \subseteq Requests
  /\ listening \subseteq Requests
  /\ aborted \subseteq Requests
  /\ called \subseteq Requests
  /\ task \in [Requests -> {"idle", "running", "ended"}]
  /\ answer \in [Requests -> Answers]
  /\ ahead \in [Requests -> SUBSET Requests]

Init ==
  /\ entries = {}
  /\ active = [k \in Keys |-> FALSE]
  /\ queue = [k \in Keys |-> <<>>]
  /\ cancelled = {} /\ timers = {} /\ listening = {}
  /\ aborted = {} /\ called = {}
  /\ task = [r \in Requests |-> "idle"]
  /\ answer = [r \in Requests |-> "none"]
  /\ ahead = [r \in Requests |-> {}]

-----------------------------------------------------------------------------
(* Helpers; an operator named Bad... is the one after it with a plausible  *)
(* bug, for the mutation runs.                                             *)

BadBusyQueue(k) == queue[k] # <<>>    \* forgets the running task

Busy(k) == active[k] \/ queue[k] # <<>>

Waiting(r) == r \in called /\ task[r] = "idle" /\ answer[r] = "none"

(* queue.push                                                              *)
BadJoined(q, r) == <<r>> \o q          \* unshift instead of push
BadJoinedNested(q, r) == Append(q, <<r>>)

Joined(q, r) == Append(q, r)

(* queue.indexOf and queue.splice                                          *)
Without(q, r) ==
  IF \E i \in DOMAIN q : q[i] = r THEN RemoveAt(q, CHOOSE i \in DOMAIN q : q[i] = r) ELSE q

(* cleanupState                                                            *)
BadCleaned(ks, k, on, q) == ks

Cleaned(ks, k, on, q) == IF ~on /\ q = <<>> THEN ks \ {k} ELSE ks

(* The first entry of the queue that release starts; one past the end when *)
(* every entry was cancelled or aborted.                                   *)
Startable(q, i) == q[i] \notin cancelled \cup aborted

IsNextPosition(q, n) ==
  /\ n \in 1 .. Len(q) + 1
  /\ \A i \in 1 .. n - 1 : ~Startable(q, i)
  /\ n <= Len(q) => Startable(q, n)

(* clearQueuedTimer and clearQueuedAbortListener                           *)
BadDisarmed(armed, rs) == armed

Disarmed(armed, rs) == armed \ rs

Settled(r, how) == IF answer[r] = "none" THEN how ELSE answer[r]

(* state.active after release handed the key over, or not                  *)
BadStaysActive(n, q) == TRUE

StaysActive(n, q) == n <= Len(q)

-----------------------------------------------------------------------------
(* execute                                                                 *)

(* throwIfAborted: the signal fired before the call.                       *)
Refuse(r) ==
  /\ r \notin called /\ r \in aborted
  /\ called' = called \cup {r}
  /\ answer' = [answer EXCEPT ![r] = "cancelled"]
  /\ UNCHANGED <<guards, alarms, aborted, task, ahead>>

(* Both modes run the task at once on an idle key.                         *)
StartNow(r) ==
  /\ r \notin called /\ r \notin aborted
  /\ ~Busy(KeyOf[r])
  /\ called' = called \cup {r}
  /\ entries' = entries \cup {KeyOf[r]}
  /\ active' = [active EXCEPT ![KeyOf[r]] = TRUE]
  /\ task' = [task EXCEPT ![r] = "running"]
  /\ UNCHANGED <<queue, alarms, aborted, answer, ahead>>

Conflict(r) ==
  /\ r \notin called /\ r \notin aborted
  /\ Busy(KeyOf[r]) /\ ModeOf[r] = "reject"
  /\ called' = called \cup {r}
  /\ entries' = entries \cup {KeyOf[r]}
  /\ answer' = [answer EXCEPT ![r] = "conflict"]
  /\ UNCHANGED <<active, queue, alarms, aborted, task, ahead>>

Enqueue(r) ==
  /\ r \notin called /\ r \notin aborted
  /\ Busy(KeyOf[r]) /\ ModeOf[r] = "queue"
  /\ called' = called \cup {r}
  /\ entries' = entries \cup {KeyOf[r]}
  /\ queue' = [queue EXCEPT ![KeyOf[r]] = Joined(@, r)]
  /\ timers' = timers \cup {r}
  /\ listening' = listening \cup {r}
  /\ ahead' = [ahead EXCEPT ![r] = {q \in Requests : Waiting(q) /\ KeyOf[q] = KeyOf[r]}]
  /\ UNCHANGED <<active, cancelled, aborted, task, answer>>

-----------------------------------------------------------------------------
(* The caller's signal, the timer, and the end of the running task.        *)

(* removeQueuedExecution and the rejection of the waiting promise.         *)
Withdraw(r, how) ==
  LET k == KeyOf[r]
  IN  /\ cancelled' = cancelled \cup {r}
      /\ queue' = [queue EXCEPT ![k] = Without(@, r)]
      /\ timers' = timers \ {r}
      /\ listening' = listening \ {r}
      /\ entries' = Cleaned(entries, k, active[k], Without(queue[k], r))
      /\ answer' = [answer EXCEPT ![r] = Settled(r, how)]
      /\ UNCHANGED <<active, called, task, ahead>>

Abort(r) ==
  /\ r \notin aborted
  /\ aborted' = aborted \cup {r}
  /\ IF r \in listening /\ r \notin cancelled
     THEN Withdraw(r, "cancelled")
     ELSE UNCHANGED <<guards, alarms, called, task, answer, ahead>>

Timeout(r) ==
  /\ r \in timers /\ r \notin cancelled
  /\ Withdraw(r, "timeout")
  /\ UNCHANGED aborted

(* The task settles; its finally releases the key: entries that were       *)
(* cancelled or aborted are shifted out, the next one starts.              *)
TaskEnds(r) ==
  LET k == KeyOf[r]
      q == queue[k]
  IN  /\ task[r] = "running"
      /\ \E n \in 1 .. Len(q) + 1 :
           LET shifted == {q[i] : i \in DOMAIN q \cap (1 .. n)}
               dropped == {q[i] : i \in 1 .. n - 1}
           IN  /\ IsNextPosition(q, n)
               /\ queue' = [queue EXCEPT ![k] = SubSeq(@, n + 1, Len(@))]
               /\ active' = [active EXCEPT ![k] = StaysActive(n, q)]
               /\ entries' = Cleaned(entries, k, StaysActive(n, q), SubSeq(q, n + 1, Len(q)))
               /\ timers' = Disarmed(timers, shifted)
               /\ listening' = Disarmed(listening, shifted)
               /\ cancelled' = cancelled \cup dropped
               /\ task' = [p \in Requests |-> CASE p = r -> "ended"
                                                [] p # r /\ p \in shifted \ dropped -> "running"
                                                [] OTHER -> task[p]]
               /\ answer' = [p \in Requests |-> CASE p = r -> Settled(p, "result")
                                [] p # r /\ p \in dropped -> Settled(p, "cancelled")
                                [] OTHER -> answer[p]]
      /\ UNCHANGED <<aborted, called, ahead>>

Execute(r) == Refuse(r) \/ StartNow(r) \/ Conflict(r) \/ Enqueue(r)

Next == \E r \in Requests : Execute(r) \/ Abort(r) \/ Timeout(r) \/ TaskEnds(r)

Spec == Init /\ [][Next]_vars

(* A generation comes to an end: its model calls carry timeouts.  Callers, *)
(* signals and timers need not do anything.                                *)
FairSpec == Spec /\ \A r \in Requests : WF_vars(TaskEnds(r))

-----------------------------------------------------------------------------
(* Properties.                                                             *)

(* One generation per session branch: two tasks of one key never run at    *)
(* the same time, whatever mix of modes, aborts and timeouts led there.    *)
OneTaskPerKey ==
  \A r, q \in Requests :
    KeyOf[r] = KeyOf[q] /\ task[r] = "running" /\ task[q] = "running" => r = q

(* No lost wakeup: as long as somebody waits for a key, a task of that key *)
(* is running whose end will hand the key over.                            *)
NobodyWaitsForNothing ==
  \A r \in Requests : Waiting(r) =>
    \E q \in Requests : KeyOf[q] = KeyOf[r] /\ task[q] = "running"

(* A caller who was told "conflict", "cancelled" or "timeout" can rely on  *)
(* it: the task of that call did not run and never will.                   *)
ToldNoMeansNo ==
  \A r \in Requests : answer[r] \in {"conflict", "cancelled", "timeout"} => task[r] = "idle"

(* Nothing is left behind by a key that fell idle: the map has an entry    *)
(* exactly for the busy keys, and only waiting calls hold a timer or an    *)
(* abort listener.                                                         *)
NothingLeaks ==
  /\ entries = {k \in Keys : active[k] \/ queue[k] # <<>>}
  /\ \A r \in timers \cup listening : Waiting(r)

(* First come, first served: no task starts while a request that was       *)
(* waiting before it keeps waiting.                                        *)
StartsBefore(r, q) ==
  /\ task[r] = "idle" /\ task'[r] = "running"
  /\ KeyOf[q] = KeyOf[r] /\ Waiting(q) /\ Waiting(q)'
NoOvertaking ==
  [][\A r, q \in Requests : StartsBefore(r, q) => r \in called /\ q \notin ahead[r]]_vars

(* Every call is answered, provided generations end.                       *)
EveryCallAnswered ==
  \A r \in Requests : r \in called ~> answer[r] # "none"

=============================================================================
