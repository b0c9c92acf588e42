----------------------- MODULE TemporaryConversation -----------------------
(***************************************************************************)
(* A temporary conversation of the graph assistant: the requests of        *)
(* TemporaryConversationService, the task of ChatService they end in, the  *)
(* tool calls that wait for the user (GraphAssistantToolConfirmation-      *)
(* Service) and the retention service.                                     *)
(*                                                                         *)
(* Requests interleave at their awaits.  A request checks that the         *)
(* conversation is active, adds the guidance of the assistant once, adds   *)
(* its input to the draft floor, promotes the draft to generating, and     *)
(* runs the turn under the generation coordinator.  Of a turn only what    *)
(* the conversation depends on is kept (FloorTurn has the rest).  The      *)
(* routes fix the branch, so there is one.  The unique index on the number *)
(* of a live floor makes the number the floor.                             *)
(***************************************************************************)
EXTENDS Naturals, FiniteSets

CONSTANTS
  Requests,
  Endings,     \* finalized, discarded, cancelled: the ways a request ends it
  MaxFloors,   \* model bound: floors
  MaxSeq,      \* model bound: messages of a page
  MaxCalls,    \* model bound: tool calls that ask for a confirmation
  MaxTurns,    \* model bound: respond and retry requests
  MaxCrashes   \* model bound: crashes

ASSUME ConversationConstants ==
  /\ Endings \cap {"active", "expired"} = {}
  /\ MaxFloors \in Nat /\ MaxSeq \in Nat /\ MaxCalls \in Nat
  /\ MaxTurns \in Nat /\ MaxCrashes \in Nat

VARIABLES
  conv,     \* the row in sessions
  floor,    \* floors, their output pages and their row in floor_run_state
  said,     \* messages: the input page of a floor
  call,     \* graph_assistant_pending_tool_call
  request,  \* requests in flight
  turns,    \* turns asked for so far (bounded by MaxTurns)
  crashes   \* crashes so far (bounded by MaxCrashes)

vars == <<conv, floor, said, call, request, turns, crashes>>

Floors == 1 .. MaxFloors
Calls == 1 .. MaxCalls

\* late: history, a request was in flight when the bodies were deleted.
Conv == [status : {"active", "expired"} \cup Endings, cleaned : BOOLEAN, late : BOOLEAN]

\* answered: it has an output page.  text: the message of that page is stored.
Floor == [state : {"none", "draft", "generating", "committed", "failed"},
          answered : BOOLEAN, text : BOOLEAN, run : {"none", "running", "ended"}]

NoFloor == [state |-> "none", answered |-> FALSE, text |-> FALSE, run |-> "none"]

Roles == {"user", "other", "guidance"}
Message == [seq : 0 .. MaxSeq, role : Roles]

\* runs: history, how often the tool was started, by a turn or by the job that
\* the commit of a turn enqueues.  excused: history, runs whose turn did not get
\* as far as markExecuted.
Call == [status : {"none", "pending", "approved", "rejected", "executed"},
         runs : Nat, excused : Nat]

NoCall == [status |-> "none", runs |-> 0, excused |-> 0]

InTurn == {"entered", "resumed", "ran", "committed", "marked"}
Past == {"promoted", "queued"} \cup InTurn

\* floor: the floor of its turn.  page, seq: where its message goes; after: where
\* the request goes then.  call: the call it decides or its turn resumes, 0 for
\* none.  tool: what has become of that call, until it is marked executed.
Request ==
  [at : {"idle", "decide", "check", "guide", "ask", "require", "look", "create", "read", "insert",
         "prepare", "promote", "end"} \cup Past,
   kind : {"respond", "retry"}, input : BOOLEAN, role : Roles,
   after : {"idle", "ask", "require", "prepare"},
   floor : 0 .. MaxFloors, page : 0 .. MaxFloors, seq : 0 .. MaxSeq, call : 0 .. MaxCalls,
   tool : {"none", "queued", "ran"}]

Idle == [at |-> "idle", kind |-> "respond", input |-> FALSE, role |-> "user", after |-> "idle",
         floor |-> 0, page |-> 0, seq |-> 0, call |-> 0, tool |-> "none"]

TypeOK ==
  /\ conv \in Conv
  /\ floor \in [Floors -> Floor]
  /\ said \in [Floors -> SUBSET Message]
  /\ call \in [Calls -> Call]
  /\ request \in [Requests -> Request]
  /\ turns \in Nat /\ crashes \in Nat

Init ==
  /\ conv = [status |-> "active", cleaned |-> FALSE, late |-> FALSE]
  /\ floor = [f \in Floors |-> NoFloor]
  /\ said = [f \in Floors |-> {}]
  /\ call = [c \in Calls |-> NoCall]
  /\ request = [r \in Requests |-> Idle]
  /\ turns = 0 /\ crashes = 0

-----------------------------------------------------------------------------
(* What the conversation holds.                                            *)

\* requireActiveTemporaryConversation; the expiry it may write is Expire.
BadActive == conv.status \in {"active", "expired"}

Active == conv.status = "active"

\* loadLatestLiveFloor: 0 for none.
IsLatest(n) ==
  /\ n \in 0 .. MaxFloors
  /\ n # 0 => floor[n].state # "none"
  /\ \A f \in Floors : floor[f].state # "none" => f <= n

\* loadNextMessageSeq
IsNextSeq(f, s) == (\A m \in said[f] : m.seq < s) /\ (s = 0 \/ \E m \in said[f] : m.seq = s - 1)

Guided == \E f \in Floors : \E m \in said[f] : m.role = "guidance"

\* prepareDraftConversation: the window is what committed floors below the
\* draft and the draft hold, an answer after the messages it answers.
Heard(f) ==
  {g \in Floors : /\ said[g] # {} \/ floor[g].text
                  /\ g = f \/ (g < f /\ floor[g].state = "committed")}

UserTail(f) ==
  \E g \in Heard(f) :
    /\ \A h \in Heard(f) : h <= g
    /\ ~floor[g].text
    /\ \E m \in said[g] : m.role = "user" /\ \A n \in said[g] : n.seq <= m.seq

\* findResumable: the oldest approved call; calls are numbered as they are made.
Resumable(c) == call[c].status = "approved"

IsResumed(c) ==
  \/ c = 0 /\ \A d \in Calls : ~Resumable(d)
  \/ c \in Calls /\ Resumable(c) /\ \A d \in Calls : Resumable(d) => c <= d

-----------------------------------------------------------------------------
(* Requests begin.                                                         *)

Becomes(r, new) == request' = [request EXCEPT ![r] = new]
Goes(r, at) == Becomes(r, [request[r] EXCEPT !.at = at])
Ends(r) == Becomes(r, Idle)

Begins(r) == request[r].at = "idle" /\ Active

Append(r) ==
  /\ Begins(r)
  /\ \E role \in {"user", "other"} :
       Becomes(r, [Idle EXCEPT !.at = "look", !.role = role])
  /\ UNCHANGED <<conv, floor, said, call, turns, crashes>>

Respond(r) ==
  /\ Begins(r) /\ turns < MaxTurns
  /\ turns' = turns + 1
  /\ \E input \in BOOLEAN : Becomes(r, [Idle EXCEPT !.at = "guide", !.input = input])
  /\ UNCHANGED <<conv, floor, said, call, crashes>>

\* runRetry: the floor is one of this conversation.
Retry(r) ==
  /\ Begins(r) /\ turns < MaxTurns
  /\ turns' = turns + 1
  /\ \E f \in Floors :
       /\ floor[f].state # "none"
       /\ Becomes(r, [Idle EXCEPT !.at = "guide", !.kind = "retry", !.floor = f])
  /\ UNCHANGED <<conv, floor, said, call, crashes>>

\* resolveToolConfirmation awaits the check that the conversation is active; then
\* it reads the call and decides on it in one stretch, checking nothing else.
Resolve(r, c) ==
  /\ Begins(r) /\ call[c].status # "none"
  /\ Becomes(r, [Idle EXCEPT !.at = "decide", !.call = c])
  /\ UNCHANGED <<conv, floor, said, call, turns, crashes>>

BadMayDecide(c) == call[c].status # "none"

MayDecide(c) == call[c].status = "pending"

Decides(r, c) == request[r].at = "decide" /\ request[r].call = c

Approve(r, c) ==
  /\ Decides(r, c) /\ MayDecide(c) /\ turns < MaxTurns
  /\ turns' = turns + 1
  /\ call' = [call EXCEPT ![c].status = "approved"]
  /\ Becomes(r, [Idle EXCEPT !.at = "check", !.input = TRUE])
  /\ UNCHANGED <<conv, floor, said, crashes>>

Reject(r, c) ==
  /\ Decides(r, c) /\ MayDecide(c)
  /\ call' = [call EXCEPT ![c].status = "rejected"]
  /\ Becomes(r, [Idle EXCEPT !.at = "look", !.role = "other"])
  /\ UNCHANGED <<conv, floor, said, turns, crashes>>

\* pending_tool_call_not_pending
NotPending(r, c) ==
  /\ Decides(r, c) /\ ~MayDecide(c)
  /\ Ends(r)
  /\ UNCHANGED <<conv, floor, said, call, turns, crashes>>

\* finalize, discard, cancel: the check, then the update.
End(r) ==
  /\ Begins(r)
  /\ Becomes(r, [Idle EXCEPT !.at = "end"])
  /\ UNCHANGED <<conv, floor, said, call, turns, crashes>>

MayEnd == conv.status = "active"

Terminate(r) ==
  /\ request[r].at = "end"
  /\ \E s \in Endings : conv' = IF MayEnd THEN [conv EXCEPT !.status = s] ELSE conv
  /\ Ends(r)
  /\ UNCHANGED <<floor, said, call, turns, crashes>>

-----------------------------------------------------------------------------
(* insertConversationMessage and the reads before it.                      *)

\* The continuation of an approval is checked again, and so is the input.
Check(r) ==
  /\ Active
  /\ \/ request[r].at = "check" /\ Goes(r, "guide")
     \/ /\ request[r].at = "ask" /\ request[r].input
        /\ Becomes(r, [request[r] EXCEPT !.at = "look", !.input = FALSE, !.role = "user",
                                         !.after = "prepare"])
  /\ UNCHANGED <<conv, floor, said, call, turns, crashes>>

Refused(r) ==
  /\ ~Active
  /\ request[r].at = "check" \/ (request[r].at = "ask" /\ request[r].input)
  /\ Ends(r)
  /\ UNCHANGED <<conv, floor, said, call, turns, crashes>>

\* maybeInjectGraphAssistantGuidance
AfterGuide(r) == IF request[r].kind = "retry" THEN "require" ELSE "ask"

Guide(r) ==
  /\ request[r].at = "guide"
  /\ \/ Guided /\ Goes(r, AfterGuide(r))
     \/ /\ ~Guided
        /\ Becomes(r, [request[r] EXCEPT !.at = "look", !.role = "guidance",
                                         !.after = AfterGuide(r)])
  /\ UNCHANGED <<conv, floor, said, call, turns, crashes>>

Ask(r) ==
  /\ request[r].at = "ask" /\ ~request[r].input
  /\ Goes(r, "prepare")
  /\ UNCHANGED <<conv, floor, said, call, turns, crashes>>

\* ensureDraftFloor: the latest floor, if it is a draft, else a new one.
BadBusy(n) == FALSE

Busy(n) == n # 0 /\ floor[n].state = "generating"

Look(r) ==
  /\ request[r].at = "look"
  /\ \E n \in 0 .. MaxFloors :
       /\ IsLatest(n)
       /\ \/ Busy(n) /\ Ends(r)
          \/ /\ n # 0 /\ floor[n].state = "draft"
             /\ Becomes(r, [request[r] EXCEPT !.at = "read", !.page = n])
          \/ /\ ~Busy(n) /\ n < MaxFloors /\ (n # 0 => floor[n].state # "draft")
             /\ Becomes(r, [request[r] EXCEPT !.at = "create", !.page = n + 1])
  /\ UNCHANGED <<conv, floor, said, call, turns, crashes>>

\* createDraftResponseFloor; the unique index refuses a number that is taken.
Create(r) ==
  /\ request[r].at = "create"
  /\ LET n == request[r].page
     IN  \/ /\ floor[n].state = "none"
            /\ floor' = [floor EXCEPT ![n].state = "draft"]
            /\ Goes(r, "read")
         \/ floor[n].state # "none" /\ Ends(r) /\ UNCHANGED floor
  /\ UNCHANGED <<conv, said, call, turns, crashes>>

\* ensureDraftPage and loadNextMessageSeq
ReadSeq(r) ==
  /\ request[r].at = "read"
  /\ \E s \in 0 .. MaxSeq :
       /\ IsNextSeq(request[r].page, s)
       /\ Becomes(r, [request[r] EXCEPT !.at = "insert", !.seq = s])
  /\ UNCHANGED <<conv, floor, said, call, turns, crashes>>

\* Two requests that read the same seq: the unique index refuses the second.
Taken(f, s) == \E m \in said[f] : m.seq = s

Insert(r) ==
  /\ request[r].at = "insert"
  /\ LET f == request[r].page
         s == request[r].seq
     IN  IF Taken(f, s) THEN Ends(r) /\ UNCHANGED said
         ELSE /\ said' = [said EXCEPT ![f] = @ \cup {[seq |-> s, role |-> request[r].role]}]
              /\ IF request[r].after = "idle" THEN Ends(r)
                 ELSE Becomes(r, [request[r] EXCEPT !.at = request[r].after, !.after = "idle",
                                                    !.role = "user", !.page = 0, !.seq = 0])
  /\ UNCHANGED <<conv, floor, call, turns, crashes>>

-----------------------------------------------------------------------------
(* A turn, up to the coordinator.                                          *)

\* prepareDraftConversation
Prepare(r) ==
  /\ request[r].at = "prepare"
  /\ \E n \in 0 .. MaxFloors :
       /\ IsLatest(n)
       /\ IF n # 0 /\ floor[n].state = "draft" /\ UserTail(n)
          THEN Becomes(r, [request[r] EXCEPT !.at = "promote", !.floor = n])
          ELSE Ends(r)
  /\ UNCHANGED <<conv, floor, said, call, turns, crashes>>

\* promoteDraftFloorToGenerating
BadMayPromote(f) == floor[f].state \in {"draft", "generating"}

MayPromote(f) == floor[f].state = "draft"

Promote(r) ==
  /\ request[r].at = "promote"
  /\ LET f == request[r].floor
     IN  \/ /\ MayPromote(f)
            /\ floor' = [floor EXCEPT ![f].state = "generating"]
            /\ Goes(r, "promoted")
         \/ ~MayPromote(f) /\ Ends(r) /\ UNCHANGED floor
  /\ UNCHANGED <<conv, said, call, turns, crashes>>

\* respondFromPreparedDraftFloor begins: initializeFloorRun.
InitializeRun(r) ==
  /\ request[r].at = "promoted"
  /\ floor' = [floor EXCEPT ![request[r].floor].run = "running"]
  /\ Goes(r, "queued")
  /\ UNCHANGED <<conv, said, call, turns, crashes>>

\* ChatService.retryFloor begins: requireRetryTargetFloor.
Require(r) ==
  /\ request[r].at = "require"
  /\ IF floor[request[r].floor].state = "committed" THEN Goes(r, "queued") ELSE Ends(r)
  /\ UNCHANGED <<conv, floor, said, call, turns, crashes>>

\* The coordinator lets one request of the branch in (revalidateRetryTargetFloor).
BadFree == TRUE

Free == \A q \in Requests : request[q].at \notin InTurn

Enter(r) ==
  /\ request[r].at = "queued" /\ Free
  /\ IF request[r].kind = "retry" /\ floor[request[r].floor].state # "committed"
     THEN Ends(r) ELSE Goes(r, "entered")
  /\ UNCHANGED <<conv, floor, said, call, turns, crashes>>

\* The coordinator refuses (conflict, timeout of the queue), or what precedes
\* the inner try fails (models, narrator slot): nothing is undone.
NotRun(r) ==
  /\ request[r].at \in {"queued", "entered"}
  /\ Ends(r)
  /\ UNCHANGED <<conv, floor, said, call, turns, crashes>>

\* tryMarkFloorFailed
BadFailed(f) == [floor EXCEPT ![f].state = "failed", ![f].run = "failed"]

Failed(f) == IF floor[f].state \in {"draft", "generating"}
             THEN [floor EXCEPT ![f].state = "failed", ![f].run = "ended"]
             ELSE [floor EXCEPT ![f].run = "ended"]

\* The client leaves while the request waits: generation_cancelled.
CancelledInQueue(r) ==
  /\ request[r].at = "queued"
  /\ Ends(r)
  /\ floor' = IF request[r].kind = "respond" THEN Failed(request[r].floor) ELSE floor
  /\ UNCHANGED <<conv, said, call, turns, crashes>>

-----------------------------------------------------------------------------
(* The task of the coordinator.                                            *)

\* buildGraphAssistantAgentLoopTurnConfig; a retry has made its run row by now.
Resume(r) ==
  /\ request[r].at = "entered"
  /\ \E c \in 0 .. MaxCalls :
       IsResumed(c) /\ Becomes(r, [request[r] EXCEPT !.at = "resumed", !.call = c])
  /\ floor' = IF request[r].kind = "retry"
              THEN [floor EXCEPT ![request[r].floor].run = "running"] ELSE floor
  /\ UNCHANGED <<conv, said, call, turns, crashes>>

\* executeTurn opens the floor.  The agent loop runs the approved call first: the
\* executor runs it, queues it (a deferred tool, whose job comes with the commit)
\* or denies it, which the loop does not mind; and where the transport of the
\* turn allows no tools there is no loop, and nobody looks at the call.
Outcomes(c) == IF c = 0 THEN {"none"} ELSE {"ran", "queued", "none"}

Ran(c) == [call EXCEPT ![c].runs = @ + 1]

RunTool(r) ==
  /\ request[r].at = "resumed"
  /\ floor[request[r].floor].state \in {"generating", "committed"}
  /\ floor' = [floor EXCEPT ![request[r].floor].state = "generating"]
  /\ \E o \in Outcomes(request[r].call) :
       /\ call' = IF o = "ran" THEN Ran(request[r].call) ELSE call
       /\ Becomes(r, [request[r] EXCEPT !.at = "ran", !.tool = o])
  /\ UNCHANGED <<conv, said, turns, crashes>>

\* The turns that end without markExecuted although they ran their call.
Excused(rs) ==
  [c \in Calls |->
     IF \E r \in rs : request[r].tool = "ran" /\ request[r].call = c
     THEN [call[c] EXCEPT !.excused = @ + 1] ELSE call[c]]

\* The commit finds its run ended or the floor taken: turn_attempt_stale.
MayCommit(f) == floor[f].state = "generating" /\ floor[f].run = "running"

Commit(r) ==
  /\ request[r].at = "ran"
  /\ MayCommit(request[r].floor)
  /\ floor' = [floor EXCEPT ![request[r].floor] =
                 [state |-> "committed", answered |-> TRUE, text |-> TRUE, run |-> "ended"]]
  /\ call' = IF request[r].tool = "queued" THEN Ran(request[r].call) ELSE call
  /\ Becomes(r, [request[r] EXCEPT !.at = "committed",
                                   !.tool = IF @ = "queued" THEN "ran" ELSE @])
  /\ UNCHANGED <<conv, said, turns, crashes>>

CommitStale(r) ==
  /\ request[r].at = "ran"
  /\ ~MayCommit(request[r].floor)
  /\ call' = Excused({r})
  /\ Ends(r)
  /\ UNCHANGED <<conv, floor, said, turns, crashes>>

\* The failure handlers of chat-service.ts: a retry that has opened its floor
\* leaves it failed, or, blocked by the commit gate, commits it again.
TurnFails(r) ==
  /\ request[r].at \in {"resumed", "ran"}
  /\ LET f == request[r].floor
     IN  floor' \in {Failed(f)} \cup
           (IF request[r].kind = "retry" /\ request[r].at = "ran" /\ floor[f].state = "generating"
            THEN {[floor EXCEPT ![f].state = "committed", ![f].run = "ended"]} ELSE {})
  /\ call' = Excused({r})
  /\ Ends(r)
  /\ UNCHANGED <<conv, said, turns, crashes>>

\* Whatever became of the call.  The transition refuses a call that is not
\* approved, after the commit; DecisionStands says that it never has to.
MarkExecuted(r) ==
  /\ request[r].at = "committed"
  /\ request[r].call # 0 => Resumable(request[r].call)
  /\ call' = IF request[r].call = 0 THEN call
             ELSE [call EXCEPT ![request[r].call].status = "executed"]
  /\ Becomes(r, [request[r] EXCEPT !.at = "marked", !.tool = "none"])
  /\ UNCHANGED <<conv, floor, said, turns, crashes>>

\* persistGraphAssistantPendingConfirmationIfNeeded: the turn stopped at a tool
\* that asks for a confirmation, or it did not.
Finish(r) ==
  /\ request[r].at = "marked"
  /\ \/ UNCHANGED call
     \/ \E c \in Calls :
          /\ call[c].status = "none" /\ \A d \in Calls : call[d].status = "none" => c <= d
          /\ call' = [call EXCEPT ![c].status = "pending"]
  /\ Ends(r)
  /\ UNCHANGED <<conv, floor, said, turns, crashes>>

-----------------------------------------------------------------------------
(* What happens beside the requests.                                       *)

\* expiresAt has passed and somebody notices: expireDue, or any read of the
\* conversation, which is then refused.
Expire ==
  /\ conv.status = "active"
  /\ conv' = [conv EXCEPT !.status = "expired"]
  /\ UNCHANGED <<floor, said, call, request, turns, crashes>>

\* cleanupEligible, with the default grace of 0; one synchronous stretch.  A
\* conversation kept for debugging never takes it.
InFlight == {r \in Requests : request[r].at # "idle"}
BadMayClean == ~conv.cleaned

MayClean == conv.status # "active" /\ ~conv.cleaned

Cleanup ==
  /\ MayClean
  /\ said' = [f \in Floors |-> {}]
  /\ floor' = [f \in Floors |-> [floor[f] EXCEPT !.text = FALSE]]
  /\ conv' = [conv EXCEPT !.cleaned = TRUE, !.late = InFlight # {}]
  /\ UNCHANGED <<call, request, turns, crashes>>

\* reconcileStaleRunRow, on a read of the run: a floor that generates is failed
\* once its run has been silent for the stale window, however its turn fares.
Poll(f) ==
  /\ floor[f].run = "running"
  /\ floor' = Failed(f)
  /\ UNCHANGED <<conv, said, call, request, turns, crashes>>

Crash ==
  /\ InFlight # {} /\ crashes < MaxCrashes
  /\ crashes' = crashes + 1
  /\ call' = Excused(Requests)
  /\ request' = [r \in Requests |-> Idle]
  /\ UNCHANGED <<conv, floor, said, turns>>

Start(r) ==
  \/ Append(r) \/ Respond(r) \/ Retry(r) \/ End(r)
  \/ \E c \in Calls : Resolve(r, c) \/ Approve(r, c) \/ Reject(r, c) \/ NotPending(r, c)

Say(r) == Check(r) \/ Refused(r) \/ Guide(r) \/ Ask(r) \/ Look(r) \/ Create(r)
               \/ ReadSeq(r) \/ Insert(r)

Wait(r) == Prepare(r) \/ Promote(r) \/ InitializeRun(r) \/ Require(r) \/ Enter(r) \/ NotRun(r)
           \/ CancelledInQueue(r)

Turn(r) == Resume(r) \/ RunTool(r) \/ Commit(r) \/ CommitStale(r)
           \/ TurnFails(r) \/ MarkExecuted(r) \/ Finish(r)

Next ==
  \/ \E r \in Requests : Start(r) \/ Terminate(r) \/ Say(r) \/ Wait(r) \/ Turn(r)
  \/ Expire \/ Cleanup \/ Crash
  \/ \E f \in Floors : Poll(f)

Spec == Init /\ [][Next]_vars

-----------------------------------------------------------------------------
(* Properties.                                                             *)

\* A floor that has no answer yet is the last one, whatever requests append,
\* respond and retry side by side (ensureDraftFloor): an answer is never put
\* below a floor that waits for one.
OneOpenFloor ==
  \A f, g \in Floors :
    /\ floor[f].state \in {"draft", "generating"} /\ ~floor[f].answered /\ f < g
         => floor[g].state = "none"
    /\ f < g /\ floor[g].state # "none" => floor[f].state # "none"

\* A floor is answered by one turn at a time: of the requests past
\* promoteDraftFloorToGenerating, and the retries past revalidation, no two
\* work on the same floor.
Working(r) == request[r].at \in Past /\ ~(request[r].at = "queued" /\ request[r].kind = "retry")

OneTurnPerFloor ==
  \A r, q \in Requests :
    Working(r) /\ Working(q) /\ request[r].floor = request[q].floor => r = q

\* A decision stands.  A tool runs only after the user approved the call, and one
\* that was rejected never ran and never will, though decisions of several
\* requests and turns that resume the call interleave; and while a turn holds the
\* call it resumes nobody decides or marks it, so that markExecuted, which comes
\* after the commit, is not refused.
DecisionStands ==
  /\ \A c \in Calls : call[c].runs > 0 => call[c].status \in {"approved", "executed"}
  /\ \A r \in Requests :
       request[r].at \in {"resumed", "ran", "committed"} /\ request[r].call # 0
         => Resumable(request[r].call)

\* An approved call runs at most once.  It runs again only after a turn that ran
\* it and ended before markExecuted (a failure, a stale attempt, a crash); never
\* twice in one turn, nor in two turns side by side.
RunsOnce ==
  \A c \in Calls : call[c].runs <= 1 + call[c].excused

\* "executed" means that the tool has run (graph-assistant-tool-confirmation-
\* service.ts:14).  The code does not keep this: the turn that resumes a call
\* marks it once it commits, whether the call was run, denied or passed over.
ExecutedMeansRan ==
  \A c \in Calls : call[c].status = "executed" => call[c].runs > 0

\* Once the bodies were deleted they stay deleted, unless a request was in
\* flight when that happened (cleaned_at: the text is gone, only structure and
\* audit data are left).
CleanedStaysClean ==
  conv.cleaned /\ ~conv.late =>
    \A f \in Floors : said[f] = {} /\ ~floor[f].text

\* The way a conversation ended is final: an expiry that another request or the
\* maintenance finds does not replace a discard, and no ending another.
EndIsFinal == [][conv.status # "active" => conv'.status = conv.status]_vars

\* A conversation that has ended runs dry: the requests in flight only leave, none
\* joins them, and when the last one has left nothing is said or answered any
\* more, and no call decided or run.
QuietAfterEnd ==
  [][conv.status # "active" =>
       /\ InFlight' \subseteq InFlight
       /\ InFlight = {} =>
            /\ call' = call
            /\ \A f \in Floors : /\ said'[f] \subseteq said[f]
                                 /\ floor'[f].text => floor[f].text
                                 /\ floor'[f].answered = floor[f].answered]_vars

=============================================================================
