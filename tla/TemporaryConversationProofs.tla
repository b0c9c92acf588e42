-------------------- MODULE TemporaryConversationProofs --------------------
(***************************************************************************)
(* Proofs about a temporary conversation, for every number of requests,    *)
(* floors, messages, calls, turns and crashes.                             *)
(*                                                                         *)
(* StateInv is inductive: a floor has an answer once it was committed and  *)
(* none before it generates (FloorsSound), a request that is about to      *)
(* create a floor saw the one below it closed (PlacesSound), a request     *)
(* past the promotion holds a floor that generates or has failed, and one  *)
(* request at a time is in the task of the coordinator (TurnsSound), a     *)
(* call was run as often as turns that ran it were given up, once more     *)
(* while the turn that ran it holds it, and at most once more when it is   *)
(* marked executed (CallsSound), and what was cleaned with nothing in      *)
(* flight stays empty (CleanSound).                                        *)
(***************************************************************************)
EXTENDS TemporaryConversation, TLAPS

\* A floor that waits for its first answer.
Open(f) == floor[f].state \in {"draft", "generating"} /\ ~floor[f].answered

FloorsSound ==
  \A f \in Floors :
    /\ floor[f].state \in {"none", "draft"} => ~floor[f].answered
    /\ floor[f].state = "committed" => floor[f].answered

\* Which kind of request may be where, and on floors that are numbers.
InPlace(x) ==
  /\ x.at \in {"check", "ask", "prepare", "promote", "promoted"} => x.kind = "respond"
  /\ x.at = "require" => x.kind = "retry"
  /\ x.after \in {"ask", "prepare"} => x.kind = "respond"
  /\ x.after = "require" => x.kind = "retry"
  /\ x.kind = "retry" \/ x.at = "promote" \/ x.at \in Past => x.floor \in Floors
  /\ x.at \in {"create", "read", "insert"} => x.page \in Floors
  /\ x.tool # "none" => x.at \in {"ran", "committed"} /\ x.call # 0
  /\ x.tool = "queued" => x.at = "ran"

RequestsSound == \A r \in Requests : InPlace(request[r])

\* A request creates a floor on top of one that is closed for good.
PlacesSound ==
  \A r \in Requests :
    request[r].at = "create" /\ request[r].page # 1 =>
      /\ request[r].page - 1 \in Floors
      /\ floor[request[r].page - 1].state # "none"
      /\ ~Open(request[r].page - 1)

TurnsSound ==
  /\ \A r \in Requests :
       /\ Working(r) => floor[request[r].floor].state \notin {"none", "draft"}
       /\ request[r].kind = "respond" /\ request[r].at \in {"promoted", "queued"}
            => floor[request[r].floor].state \in {"generating", "failed"}
       /\ request[r].kind = "retry" /\ request[r].at \in InTurn
            => floor[request[r].floor].answered
  /\ \A r, q \in Requests : request[r].at \in InTurn /\ request[q].at \in InTurn => r = q

\* r ran call c and has not marked it.
Holds(r, c) == request[r].tool = "ran" /\ request[r].call = c

CallsSound ==
  /\ \A r \in Requests :
       request[r].at \in {"resumed", "ran", "committed"} /\ request[r].call # 0
         => call[request[r].call].status = "approved"
  /\ \A c \in Calls :
       /\ call[c].status \in {"none", "pending", "rejected"}
            => call[c].runs = 0 /\ call[c].excused = 0
       /\ call[c].status = "executed" => call[c].runs \in {call[c].excused, call[c].excused + 1}
       /\ \A r \in Requests : Holds(r, c) => call[c].runs = call[c].excused + 1
       /\ call[c].status = "approved" /\ (\A r \in Requests : ~Holds(r, c))
            => call[c].runs = call[c].excused

CleanSound ==
  /\ conv.cleaned => conv.status # "active"
  /\ conv.cleaned /\ ~conv.late =>
       /\ \A r \in Requests : request[r].at = "idle"
       /\ \A f \in Floors : said[f] = {} /\ ~floor[f].text

StateInv ==
  /\ TypeOK /\ FloorsSound /\ RequestsSound /\ PlacesSound /\ TurnsSound /\ CallsSound
  /\ CleanSound /\ OneOpenFloor /\ OneTurnPerFloor

-----------------------------------------------------------------------------
(* Types.                                                                  *)

\* What the steps of a request write to it.
LEMMA Edits ==
  ASSUME ConversationConstants, NEW x \in Request
  PROVE  /\ \A at \in {"guide", "ask", "require", "read", "prepare", "end"} \cup Past :
              [x EXCEPT !.at = at] \in Request
         /\ \A role \in Roles : [x EXCEPT !.at = "look", !.role = role] \in Request
         /\ \A input \in BOOLEAN, at \in {"guide", "check"} :
              [x EXCEPT !.at = at, !.input = input] \in Request
         /\ \A f \in 0 .. MaxFloors :
              /\ [x EXCEPT !.at = "guide", !.kind = "retry", !.floor = f] \in Request
              /\ [x EXCEPT !.at = "read", !.page = f] \in Request
              /\ [x EXCEPT !.at = "create", !.page = f] \in Request
              /\ [x EXCEPT !.at = "promote", !.floor = f] \in Request
         /\ \A s \in 0 .. MaxSeq : [x EXCEPT !.at = "insert", !.seq = s] \in Request
         /\ \A c \in 0 .. MaxCalls, at \in {"resumed", "decide"} :
              [x EXCEPT !.at = at, !.call = c] \in Request
         /\ \A tool \in {"none", "queued", "ran"}, at \in InTurn :
              [x EXCEPT !.at = at, !.tool = tool] \in Request
         /\ \A next \in {"require", "ask"} :
              [x EXCEPT !.at = "look", !.role = "guidance", !.after = next] \in Request
         /\ [x EXCEPT !.at = "look", !.input = FALSE, !.role = "user", !.after = "prepare"]
              \in Request
         /\ [x EXCEPT !.at = x.after, !.after = "idle", !.role = "user", !.page = 0, !.seq = 0]
              \in Request
<1> USE DEF Request, Past, InTurn, Roles
<1>1. ASSUME NEW at \in {"guide", "ask", "require", "read", "prepare", "end"} \cup Past
      PROVE  [x EXCEPT !.at = at] \in Request
  OBVIOUS
<1>2. ASSUME NEW role \in Roles
      PROVE  [x EXCEPT !.at = "look", !.role = role] \in Request
  OBVIOUS
<1>3. ASSUME NEW input \in BOOLEAN, NEW at \in {"guide", "check"}
      PROVE  [x EXCEPT !.at = at, !.input = input] \in Request
  OBVIOUS
<1>4. ASSUME NEW f \in 0 .. MaxFloors
      PROVE  /\ [x EXCEPT !.at = "guide", !.kind = "retry", !.floor = f] \in Request
             /\ [x EXCEPT !.at = "read", !.page = f] \in Request
             /\ [x EXCEPT !.at = "create", !.page = f] \in Request
             /\ [x EXCEPT !.at = "promote", !.floor = f] \in Request
  <2>1. [x EXCEPT !.at = "guide", !.kind = "retry", !.floor = f] \in Request
    OBVIOUS
  <2>2. [x EXCEPT !.at = "read", !.page = f] \in Request
    OBVIOUS
  <2>3. [x EXCEPT !.at = "create", !.page = f] \in Request
    OBVIOUS
  <2>4. [x EXCEPT !.at = "promote", !.floor = f] \in Request
    OBVIOUS
  <2> QED BY <2>1, <2>2, <2>3, <2>4
<1>5. ASSUME NEW s \in 0 .. MaxSeq
      PROVE  [x EXCEPT !.at = "insert", !.seq = s] \in Request
  OBVIOUS
<1>6. ASSUME NEW c \in 0 .. MaxCalls, NEW at \in {"resumed", "decide"}
      PROVE  [x EXCEPT !.at = at, !.call = c] \in Request
  OBVIOUS
<1>7. ASSUME NEW next \in {"require", "ask"}
      PROVE  [x EXCEPT !.at = "look", !.role = "guidance", !.after = next] \in Request
  OBVIOUS
<1>8. [x EXCEPT !.at = "look", !.input = FALSE, !.role = "user", !.after = "prepare"] \in Request
  OBVIOUS
<1>9. [x EXCEPT !.at = x.after, !.after = "idle", !.role = "user", !.page = 0, !.seq = 0] \in Request
  <2>1. x.after \in {"idle", "ask", "require", "prepare"} /\ 0 \in 0 .. MaxFloors /\ 0 \in 0 .. MaxSeq
    BY ConversationConstants
  <2>2. [x EXCEPT !.at = x.after, !.after = "idle", !.role = "user"] \in Request
    BY <2>1
  <2> DEFINE y == [x EXCEPT !.at = x.after, !.after = "idle", !.role = "user"]
  <2>3. [x EXCEPT !.at = x.after, !.after = "idle", !.role = "user", !.page = 0, !.seq = 0]
          = [y EXCEPT !.page = 0, !.seq = 0]
    OBVIOUS
  <2> HIDE DEF y
  <2>4. y \in Request
    BY <2>2 DEF y
  <2>5. [y EXCEPT !.page = 0, !.seq = 0] \in Request
    BY <2>1, <2>4
  <2> QED BY <2>3, <2>5
<1>10. ASSUME NEW tool \in {"none", "queued", "ran"}, NEW at \in InTurn
       PROVE  [x EXCEPT !.at = at, !.tool = tool] \in Request
  OBVIOUS
<1> HIDE DEF Request, Past, InTurn, Roles
<1> QED BY <1>1, <1>2, <1>3, <1>4, <1>5, <1>6, <1>7, <1>8, <1>9, <1>10

LEMMA RequestTyped ==
  ASSUME ConversationConstants, TypeOK, [Next]_vars
  PROVE  request' \in [Requests -> Request]
<1>1. Idle \in Request
  BY ConversationConstants DEF Idle, Request, Past, InTurn, Roles
<1>2. /\ request \in [Requests -> Request]
      /\ \A f \in Floors : f \in 0 .. MaxFloors
      /\ \A n \in 0 .. MaxFloors : n < MaxFloors => n + 1 \in 0 .. MaxFloors
  BY ConversationConstants DEF TypeOK, Floors
<1>3. ASSUME NEW r \in Requests, NEW new \in Request, Becomes(r, new)
      PROVE  request' \in [Requests -> Request]
  BY <1>2, <1>3 DEF Becomes
<1>4. ASSUME NEW r \in Requests, Ends(r)
      PROVE  request' \in [Requests -> Request]
  BY <1>1, <1>3, <1>4 DEF Ends
<1>5. ASSUME NEW r \in Requests,
             NEW at \in {"guide", "ask", "require", "read", "prepare"} \cup Past, Goes(r, at)
      PROVE  request' \in [Requests -> Request]
  BY <1>2, <1>3, <1>5, ConversationConstants, Edits DEF Goes
<1>6. ASSUME NEW r \in Requests, Start(r)
      PROVE  request' \in [Requests -> Request]
  <2>1. Append(r) \/ End(r) => request' \in [Requests -> Request]
    BY <1>1, <1>3, ConversationConstants, Edits DEF Append, End, Roles
  <2>2. Respond(r) \/ Retry(r) => request' \in [Requests -> Request]
    BY <1>1, <1>2, <1>3, ConversationConstants, Edits DEF Respond, Retry
  <2>3. ASSUME NEW c \in Calls, Approve(r, c) \/ Reject(r, c) \/ NotPending(r, c)
        PROVE  request' \in [Requests -> Request]
    BY <1>1, <1>3, <1>4, <2>3, ConversationConstants, Edits DEF Approve, Reject, NotPending, Roles
  <2>4. ASSUME NEW c \in Calls, Resolve(r, c)
        PROVE  request' \in [Requests -> Request]
    <3>1. c \in 0 .. MaxCalls
      BY ConversationConstants DEF Calls
    <3> QED BY <1>1, <1>3, <2>4, <3>1, ConversationConstants, Edits DEF Resolve
  <2> QED BY <1>6, <2>1, <2>2, <2>3, <2>4 DEF Start
<1>7. ASSUME NEW r \in Requests, Say(r)
      PROVE  request' \in [Requests -> Request]
  <2>1. Check(r) \/ Guide(r) => request' \in [Requests -> Request]
    BY <1>2, <1>3, <1>5, ConversationConstants, Edits DEF Check, Guide, AfterGuide
  <2>2. Look(r) \/ ReadSeq(r) => request' \in [Requests -> Request]
    BY <1>2, <1>3, <1>4, ConversationConstants, Edits DEF Look, ReadSeq
  <2>3. Insert(r) => request' \in [Requests -> Request]
    BY <1>2, <1>3, <1>4, ConversationConstants, Edits DEF Insert
  <2> QED
    BY <1>4, <1>5, <1>7, <2>1, <2>2, <2>3 DEF Say, Refused, Ask, Create
<1>8. ASSUME NEW r \in Requests, Wait(r)
      PROVE  request' \in [Requests -> Request]
  BY <1>2, <1>3, <1>4, <1>5, <1>8, ConversationConstants, Edits
  DEF Wait, Prepare, Promote, InitializeRun, Require, Enter, NotRun, CancelledInQueue, Past, InTurn
<1>9. ASSUME NEW r \in Requests, Turn(r)
      PROVE  request' \in [Requests -> Request]
  <2>1. request[r] \in Request
    BY <1>2
  <2>2. CASE Resume(r)
    BY <1>3, <2>1, <2>2, ConversationConstants, Edits DEF Resume
  <2>3. CASE RunTool(r)
    <3>1. PICK o \in Outcomes(request[r].call) :
            Becomes(r, [request[r] EXCEPT !.at = "ran", !.tool = o])
      BY <2>3 DEF RunTool
    <3>2. o \in {"none", "queued", "ran"} /\ "ran" \in InTurn
      BY DEF Outcomes, InTurn
    <3> QED BY <1>3, <2>1, <3>1, <3>2, ConversationConstants, Edits
  <2>4. CASE Commit(r)
    <3> DEFINE tool == IF request[r].tool = "queued" THEN "ran" ELSE request[r].tool
    <3>1. tool \in {"none", "queued", "ran"} /\ "committed" \in InTurn
      BY <2>1 DEF Request, InTurn
    <3>2. Becomes(r, [request[r] EXCEPT !.at = "committed", !.tool = tool])
      BY <2>1, <2>4 DEF Commit, Request
    <3> HIDE DEF tool
    <3> QED BY <1>3, <2>1, <3>1, <3>2, ConversationConstants, Edits
  <2>5. CASE MarkExecuted(r)
    BY <1>3, <2>1, <2>5, ConversationConstants, Edits DEF MarkExecuted, InTurn
  <2>6. CASE CommitStale(r) \/ TurnFails(r) \/ Finish(r)
    BY <1>4, <2>6 DEF CommitStale, TurnFails, Finish
  <2> QED BY <1>9, <2>2, <2>3, <2>4, <2>5, <2>6 DEF Turn
<1>10. CASE Crash
  BY <1>1, <1>10 DEF Crash
<1> QED
  BY <1>2, <1>4, <1>6, <1>7, <1>8, <1>9, <1>10
  DEF Next, vars, Terminate, Expire, Cleanup, Poll

LEMMA FloorTyped ==
  ASSUME ConversationConstants, TypeOK, [Next]_vars
  PROVE  floor' \in [Floors -> Floor]
<1>1. floor \in [Floors -> Floor]
  BY DEF TypeOK
<1>2. \A f : Failed(f) \in [Floors -> Floor]
  BY <1>1 DEF Failed, Floor
<1>3. ASSUME NEW f, NEW new, f \in Floors => new \in Floor
       PROVE  [floor EXCEPT ![f] = new] \in [Floors -> Floor]
  BY <1>1, <1>3
<1>4. ASSUME NEW f
       PROVE  /\ [floor EXCEPT ![f].run = "running"] \in [Floors -> Floor]
              /\ [floor EXCEPT ![f].state = "generating"] \in [Floors -> Floor]
  <2>1. f \in Floors => /\ [floor[f] EXCEPT !.run = "running"] \in Floor
                        /\ [floor[f] EXCEPT !.state = "generating"] \in Floor
    BY <1>1 DEF Floor
  <2>2. [floor EXCEPT ![f] = [floor[f] EXCEPT !.run = "running"]] \in [Floors -> Floor]
    BY <1>3, <2>1
  <2>3. [floor EXCEPT ![f] = [floor[f] EXCEPT !.state = "generating"]] \in [Floors -> Floor]
    BY <1>3, <2>1
  <2> QED BY <2>2, <2>3
<1>5. ASSUME NEW r \in Requests, Start(r) \/ Say(r)
      PROVE  floor' \in [Floors -> Floor]
  <2>1. Create(r) => floor' \in [Floors -> Floor]
    BY <1>1 DEF Create, Floor
  <2> QED
    BY <1>1, <1>5, <2>1 DEF Start, Append, Respond, Retry, End, Resolve, Approve, Reject,
                            NotPending, Say, Check,
                            Refused, Guide, Ask, Look, ReadSeq, Insert
<1>6. ASSUME NEW r \in Requests, Wait(r)
      PROVE  floor' \in [Floors -> Floor]
  <2>1. Promote(r) => floor' \in [Floors -> Floor]
    BY <1>1 DEF Promote, Floor
  <2>2. InitializeRun(r) => floor' \in [Floors -> Floor]
    <3>1. [floor EXCEPT ![request[r].floor].run = "running"] \in [Floors -> Floor]
      BY <1>4
    <3> QED BY <3>1 DEF InitializeRun
  <2> QED
    BY <1>1, <1>2, <1>6, <2>1, <2>2 DEF Wait, Prepare, Require, Enter, NotRun, CancelledInQueue
<1>7. ASSUME NEW r \in Requests, Turn(r)
      PROVE  floor' \in [Floors -> Floor]
  <2>1. Resume(r) => floor' \in [Floors -> Floor]
    <3>1. [floor EXCEPT ![request[r].floor].run = "running"] \in [Floors -> Floor]
      BY <1>4
    <3> QED BY <1>1, <3>1 DEF Resume
  <2>2. RunTool(r) => floor' \in [Floors -> Floor]
    <3>1. [floor EXCEPT ![request[r].floor].state = "generating"] \in [Floors -> Floor]
      BY <1>4
    <3> QED BY <3>1 DEF RunTool
  <2>3. Commit(r) => floor' \in [Floors -> Floor]
    <3>1. [state |-> "committed", answered |-> TRUE, text |-> TRUE, run |-> "ended"] \in Floor
      BY DEF Floor
    <3> QED BY <1>3, <3>1 DEF Commit
  <2>4. TurnFails(r) => floor' \in [Floors -> Floor]
    <3>1. \A f : [floor EXCEPT ![f].state = "committed", ![f].run = "ended"] \in [Floors -> Floor]
      BY <1>1 DEF Floor
    <3> QED BY <1>2, <3>1 DEF TurnFails
  <2> QED
    BY <1>1, <1>7, <2>1, <2>2, <2>3, <2>4
    DEF Turn, CommitStale, MarkExecuted, Finish
<1>8. CASE Cleanup
  BY <1>1, <1>8 DEF Cleanup, Floor
<1> QED
  BY <1>1, <1>2, <1>5, <1>6, <1>7, <1>8 DEF Next, vars, Terminate, Expire, Poll, Crash

LEMMA CallTyped ==
  ASSUME ConversationConstants, TypeOK, [Next]_vars
  PROVE  call' \in [Calls -> Call]
<1>1. call \in [Calls -> Call]
  BY DEF TypeOK
<1>2. \A rs : Excused(rs) \in [Calls -> Call]
  BY <1>1 DEF Excused, Call
<1>3. ASSUME NEW c
      PROVE  Ran(c) \in [Calls -> Call]
  <2>1. c \in Calls => [call[c] EXCEPT !.runs = @ + 1] \in Call
    BY <1>1 DEF Call
  <2>2. Ran(c) = [call EXCEPT ![c] = [call[c] EXCEPT !.runs = @ + 1]]
    BY DEF Ran
  <2> QED BY <1>1, <2>1, <2>2
<1>4. ASSUME NEW r \in Requests, Start(r)
      PROVE  call' \in [Calls -> Call]
  <2>1. CASE \/ Append(r) \/ Respond(r) \/ Retry(r) \/ End(r)
             \/ \E c \in Calls : Resolve(r, c) \/ NotPending(r, c)
    BY <1>1, <2>1 DEF Append, Respond, Retry, End, Resolve, NotPending
  <2>2. CASE \E c \in Calls : Approve(r, c) \/ Reject(r, c)
    <3>1. PICK c \in Calls : Approve(r, c) \/ Reject(r, c)
      BY <2>2
    <3>2. \A s \in {"approved", "rejected"} : [call[c] EXCEPT !.status = s] \in Call
      BY <1>1 DEF Call
    <3>3. \E s \in {"approved", "rejected"} :
             call' = [call EXCEPT ![c] = [call[c] EXCEPT !.status = s]]
      BY <1>1, <3>1 DEF Approve, Reject
    <3> QED BY <1>1, <3>2, <3>3
  <2> QED BY <1>4, <2>1, <2>2 DEF Start
<1>5. ASSUME NEW r \in Requests, Turn(r)
      PROVE  call' \in [Calls -> Call]
  <2>2. RunTool(r) \/ Commit(r) => call' \in [Calls -> Call]
    BY <1>1, <1>3 DEF RunTool, Commit
  <2>3. MarkExecuted(r) => call' \in [Calls -> Call]
    BY <1>1 DEF MarkExecuted, Call
  <2>4. Finish(r) => call' \in [Calls -> Call]
    BY <1>1 DEF Finish, Call
  <2> QED
    BY <1>1, <1>2, <1>5, <2>2, <2>3, <2>4 DEF Turn, Resume, CommitStale, TurnFails
<1> QED
  BY <1>1, <1>2, <1>4, <1>5
  DEF Next, vars, Terminate, Expire, Poll, Crash, Cleanup, Say, Check, Refused, Guide, Ask, Look,
      Create, ReadSeq, Insert, Wait, Prepare, Promote, InitializeRun, Require, Enter, NotRun,
      CancelledInQueue

LEMMA RestTyped ==
  ASSUME ConversationConstants, TypeOK, [Next]_vars
  PROVE  /\ conv' \in Conv /\ turns' \in Nat /\ crashes' \in Nat
         /\ said' \in [Floors -> SUBSET Message]
<1>1. said \in [Floors -> SUBSET Message] /\ conv \in Conv /\ turns \in Nat /\ crashes \in Nat
  BY DEF TypeOK
<1>2. ASSUME NEW r \in Requests, Insert(r)
      PROVE  said' \in [Floors -> SUBSET Message]
  <2>1. [seq |-> request[r].seq, role |-> request[r].role] \in Message
    BY DEF TypeOK, Request, Message
  <2> QED BY <1>1, <1>2, <2>1 DEF Insert
<1>3. ASSUME NEW r \in Requests, Insert(r)
      PROVE  UNCHANGED <<conv, turns, crashes>>
  BY <1>3 DEF Insert
<1>4. ASSUME NEW r \in Requests, Terminate(r)
      PROVE  conv' \in Conv /\ UNCHANGED <<said, turns, crashes>>
  BY <1>1, <1>4 DEF Terminate, Conv
<1>5. CASE Cleanup
  BY <1>1, <1>5 DEF Cleanup, Conv
<1>6. CASE Expire
  BY <1>1, <1>6 DEF Expire, Conv
<1>7. ASSUME NEW r \in Requests, Start(r) \/ Say(r), ~Insert(r)
      PROVE  UNCHANGED <<conv, said, crashes>> /\ turns' \in {turns, turns + 1}
  BY <1>7 DEF Start, Append, Respond, Retry, End, Resolve, Approve, Reject, NotPending,
              Say, Check, Refused, Guide, Ask, Look, Create, ReadSeq
<1>8. ASSUME NEW r \in Requests, Wait(r) \/ Turn(r)
      PROVE  UNCHANGED <<conv, said, crashes>> /\ turns' \in {turns, turns + 1}
  BY <1>8 DEF Wait, Prepare, Promote, InitializeRun, Require, Enter, NotRun, CancelledInQueue,
              Turn, Resume, RunTool, Commit, CommitStale, TurnFails, MarkExecuted,
              Finish
<1>9. (\E f \in Floors : Poll(f)) \/ Crash
        => UNCHANGED <<conv, said, turns>> /\ crashes' \in Nat
  BY <1>1 DEF Poll, Crash
<1> QED
  BY <1>1, <1>2, <1>3, <1>4, <1>5, <1>6, <1>7, <1>8, <1>9 DEF Next, vars, Cleanup, Expire

LEMMA TypesKept ==
  ASSUME ConversationConstants, TypeOK, [Next]_vars
  PROVE  TypeOK'
BY RequestTyped, FloorTyped, CallTyped, RestTyped DEF TypeOK

-----------------------------------------------------------------------------
(* Requests are where they belong.                                         *)

LEMMA RequestsStaySound ==
  ASSUME ConversationConstants, StateInv, [Next]_vars
  PROVE  RequestsSound'
<1>1. TypeOK /\ RequestsSound
  BY DEF StateInv
<1>2. ASSUME NEW r \in Requests, NEW new, Becomes(r, new), InPlace(new)
      PROVE  RequestsSound'
  BY <1>1, <1>2 DEF RequestsSound, Becomes, TypeOK
<1>3. InPlace(Idle)
  BY DEF InPlace, Idle, Past, InTurn
<1>4. ASSUME NEW r \in Requests, Ends(r)
      PROVE  RequestsSound'
  BY <1>2, <1>3, <1>4 DEF Ends
<1>5. ASSUME NEW r \in Requests
      PROVE  request[r] \in Request /\ InPlace(request[r])
  BY <1>1 DEF RequestsSound, TypeOK
<1>6. ASSUME NEW r \in Requests, Start(r)
      PROVE  RequestsSound'
  <2>1. \A role : InPlace([Idle EXCEPT !.at = "look", !.role = role])
    BY DEF InPlace, Idle, Past, InTurn
  <2>2. ASSUME NEW input
        PROVE  /\ InPlace([Idle EXCEPT !.at = "guide", !.input = input])
               /\ InPlace([Idle EXCEPT !.at = "check", !.input = input])
    BY DEF InPlace, Idle, Past, InTurn
  <2>3. \A f \in Floors : InPlace([Idle EXCEPT !.at = "guide", !.kind = "retry", !.floor = f])
    BY DEF InPlace, Idle, Past, InTurn
  <2>4. InPlace([Idle EXCEPT !.at = "end"])
    BY DEF InPlace, Idle, Past, InTurn
  <2>5. Append(r) \/ End(r) => RequestsSound'
    BY <1>2, <2>1, <2>4 DEF Append, End
  <2>6. ASSUME Respond(r)
        PROVE  RequestsSound'
    <3>1. PICK input \in BOOLEAN : Becomes(r, [Idle EXCEPT !.at = "guide", !.input = input])
      BY <2>6 DEF Respond
    <3>2. InPlace([Idle EXCEPT !.at = "guide", !.input = input])
      BY <2>2
    <3> QED BY <1>2, <3>1, <3>2
  <2>7. Retry(r) => RequestsSound'
    BY <1>2, <2>3 DEF Retry
  <2>8. ASSUME NEW c \in Calls, Resolve(r, c) \/ Approve(r, c) \/ Reject(r, c) \/ NotPending(r, c)
        PROVE  RequestsSound'
    <3>1. InPlace([Idle EXCEPT !.at = "check", !.input = TRUE])
      BY <2>2
    <3>2. InPlace([Idle EXCEPT !.at = "look", !.role = "other"])
      BY <2>1
    <3>3. CASE Approve(r, c)
      BY <1>2, <3>1, <3>3 DEF Approve
    <3>4. CASE Reject(r, c)
      BY <1>2, <3>2, <3>4 DEF Reject
    <3>5. InPlace([Idle EXCEPT !.at = "decide", !.call = c])
      BY DEF InPlace, Idle, Past, InTurn
    <3>6. CASE Resolve(r, c) \/ NotPending(r, c)
      BY <1>2, <1>4, <3>5, <3>6 DEF Resolve, NotPending
    <3> QED BY <2>8, <3>3, <3>4, <3>6
  <2> QED BY <1>6, <2>5, <2>6, <2>7, <2>8 DEF Start
<1>7. ASSUME NEW r \in Requests, Check(r) \/ Guide(r) \/ Ask(r)
      PROVE  RequestsSound'
  <2>1. CASE Check(r)
    BY <1>2, <1>5, <2>1 DEF Check, Goes, InPlace, Request, Past, InTurn
  <2>2. CASE Guide(r)
    BY <1>2, <1>5, <2>2 DEF Guide, AfterGuide, Goes, InPlace, Request, Past, InTurn
  <2>3. CASE Ask(r)
    BY <1>2, <1>5, <2>3 DEF Ask, Goes, InPlace, Request, Past, InTurn
  <2> QED BY <1>7, <2>1, <2>2, <2>3
<1>8. ASSUME NEW r \in Requests, Look(r)
      PROVE  RequestsSound'
  <2>1. \A n \in 0 .. MaxFloors : /\ n # 0 => n \in Floors
                                  /\ n < MaxFloors => n + 1 \in Floors
    BY ConversationConstants DEF Floors
  <2>2. \A n \in Floors : /\ InPlace([request[r] EXCEPT !.at = "read", !.page = n])
                          /\ InPlace([request[r] EXCEPT !.at = "create", !.page = n])
    BY <1>5, <1>8 DEF Look, InPlace, Request, Past, InTurn
  <2> QED BY <1>2, <1>4, <1>8, <2>1, <2>2 DEF Look
<1>9. ASSUME NEW r \in Requests, Create(r) \/ ReadSeq(r)
      PROVE  RequestsSound'
  BY <1>2, <1>4, <1>5, <1>9 DEF Create, ReadSeq, Goes, InPlace, Request, Past, InTurn
<1>10. ASSUME NEW r \in Requests, Insert(r)
       PROVE  RequestsSound'
  BY <1>2, <1>4, <1>5, <1>10 DEF Insert, InPlace, Request, Past, InTurn
<1>11. ASSUME NEW r \in Requests, Prepare(r) \/ Promote(r) \/ InitializeRun(r)
       PROVE  RequestsSound'
  <2>1. CASE Prepare(r)
    <3>1. \A n \in 0 .. MaxFloors : n # 0 => n \in Floors
      BY ConversationConstants DEF Floors
    <3>2. request[r].at = "prepare" => request[r].kind = "respond"
      BY <1>5 DEF InPlace
    <3>3. \A n \in Floors : request[r].kind = "respond"
            => InPlace([request[r] EXCEPT !.at = "promote", !.floor = n])
      BY <1>5, <2>1 DEF Prepare, InPlace, Request, Past, InTurn
    <3> QED BY <1>2, <1>4, <2>1, <3>1, <3>2, <3>3 DEF Prepare
  <2>2. CASE Promote(r) \/ InitializeRun(r)
    BY <1>2, <1>4, <1>5, <2>2 DEF Promote, InitializeRun, Goes, InPlace, Request, Past, InTurn
  <2> QED BY <1>11, <2>1, <2>2
<1>12. ASSUME NEW r \in Requests, Require(r) \/ Enter(r) \/ NotRun(r) \/ CancelledInQueue(r)
       PROVE  RequestsSound'
  BY <1>2, <1>4, <1>5, <1>12
  DEF Require, Enter, NotRun, CancelledInQueue, Goes, InPlace, Request, Past, InTurn
<1>13. ASSUME NEW r \in Requests, Turn(r)
       PROVE  RequestsSound'
  <2>1. CASE Resume(r)
    BY <1>2, <1>5, <2>1 DEF Resume, InPlace, Request, Past, InTurn
  <2>2. CASE RunTool(r)
    <3>1. \A o \in Outcomes(request[r].call) :
            InPlace([request[r] EXCEPT !.at = "ran", !.tool = o])
      BY <1>5, <2>2 DEF RunTool, Outcomes, InPlace, Request, Past, InTurn
    <3> QED BY <1>2, <2>2, <3>1 DEF RunTool
  <2>3. CASE Commit(r) \/ MarkExecuted(r)
    BY <1>2, <1>5, <2>3 DEF Commit, MarkExecuted, InPlace, Request, Past, InTurn
  <2>4. CASE CommitStale(r) \/ TurnFails(r) \/ Finish(r)
    BY <1>4, <2>4 DEF CommitStale, TurnFails, Finish
  <2> QED BY <1>13, <2>1, <2>2, <2>3, <2>4 DEF Turn
<1>14. CASE Crash
  BY <1>3, <1>14 DEF Crash, RequestsSound
<1>15. CASE UNCHANGED request
  BY <1>1, <1>15 DEF RequestsSound
<1> QED
  BY <1>4, <1>6, <1>7, <1>8, <1>9, <1>10, <1>11, <1>12, <1>13, <1>14, <1>15
  DEF Next, Say, Refused, Wait, Terminate, Expire, Cleanup, Poll, vars


-----------------------------------------------------------------------------
(* Floors: they are made by Create, and otherwise only move on.            *)

\* What a step other than Create makes of a floor.
Moved(x, y) ==
  /\ x.answered => y.answered
  /\ x.state = "none" <=> y.state = "none"
  /\ y.state = "draft" => x.state = "draft"
  /\ y.state \in {"draft", "generating"} /\ ~y.answered
       => x.state \in {"draft", "generating"} /\ ~x.answered
  /\ y.state \in {"none", "draft"} => ~y.answered
  /\ y.state = "committed" => y.answered

Makes(r) ==
  /\ request[r].at = "create"
  /\ floor[request[r].page].state = "none"
  /\ floor' = [floor EXCEPT ![request[r].page].state = "draft"]

LEMMA FloorsMove ==
  ASSUME ConversationConstants, StateInv, [Next]_vars
  PROVE  \/ \A f \in Floors : Moved(floor[f], floor'[f])
         \/ \E r \in Requests : Makes(r)
<1>1. /\ floor \in [Floors -> Floor]
      /\ \A f \in Floors : Moved(floor[f], floor[f])
  BY DEF StateInv, TypeOK, FloorsSound, Moved
<1>2. ASSUME UNCHANGED floor
      PROVE  \A f \in Floors : Moved(floor[f], floor'[f])
  BY <1>1, <1>2
<1>3. ASSUME NEW g, NEW f \in Floors
      PROVE  /\ Moved(floor[f], Failed(g)[f])
             /\ Moved(floor[f], [floor EXCEPT ![g].run = "running"][f])
  <2>1. Moved(floor[f], Failed(g)[f])
    BY <1>1 DEF Failed, Moved, Floor
  <2>2. Moved(floor[f], [floor EXCEPT ![g].run = "running"][f])
    BY <1>1 DEF Moved, Floor
  <2> QED BY <2>1, <2>2
<1>4. ASSUME NEW r \in Requests, Start(r)
      PROVE  \A f \in Floors : Moved(floor[f], floor'[f])
  BY <1>2, <1>4 DEF Start, Append, Respond, Retry, End, Resolve, Approve, Reject, NotPending
<1>5. ASSUME NEW r \in Requests, Say(r)
      PROVE  Makes(r) \/ \A f \in Floors : Moved(floor[f], floor'[f])
  BY <1>2, <1>5 DEF Say, Check, Refused, Guide, Ask, Look, Create, ReadSeq, Insert, Makes
<1>6. ASSUME NEW r \in Requests, Wait(r)
      PROVE  \A f \in Floors : Moved(floor[f], floor'[f])
  <2>1. CASE Promote(r)
    <3>1. ASSUME NEW f \in Floors, MayPromote(request[r].floor)
          PROVE  Moved(floor[f], [floor EXCEPT ![request[r].floor].state = "generating"][f])
      BY <1>1, <3>1 DEF MayPromote, Moved, Floor
    <3> QED BY <1>2, <2>1, <3>1 DEF Promote
  <2>2. CASE InitializeRun(r)
    BY <1>3, <2>2 DEF InitializeRun
  <2>3. CASE CancelledInQueue(r)
    BY <1>1, <1>3, <2>3 DEF CancelledInQueue
  <2>4. CASE Prepare(r) \/ Require(r) \/ Enter(r) \/ NotRun(r)
    BY <1>2, <2>4 DEF Prepare, Require, Enter, NotRun
  <2> QED BY <1>6, <2>1, <2>2, <2>3, <2>4 DEF Wait
<1>7. ASSUME NEW r \in Requests, Turn(r)
      PROVE  \A f \in Floors : Moved(floor[f], floor'[f])
  <2>1. CASE Resume(r)
    BY <1>1, <1>3, <2>1 DEF Resume
  <2>2. CASE RunTool(r)
    <3>1. ASSUME NEW f \in Floors
          PROVE  Moved(floor[f], [floor EXCEPT ![request[r].floor].state = "generating"][f])
      BY <1>1, <2>2 DEF RunTool, Moved, Floor
    <3> QED BY <2>2, <3>1 DEF RunTool
  <2>3. CASE Commit(r)
    <3>1. ASSUME NEW f \in Floors
          PROVE  Moved(floor[f], [floor EXCEPT ![request[r].floor] =
                   [state |-> "committed", answered |-> TRUE, text |-> TRUE, run |-> "ended"]][f])
      BY <1>1, <2>3 DEF Commit, MayCommit, Moved, Floor
    <3> QED BY <2>3, <3>1 DEF Commit
  <2>4. CASE TurnFails(r)
    <3>1. request[r].kind = "retry" /\ request[r].at = "ran" => floor[request[r].floor].answered
      BY DEF StateInv, TurnsSound, InTurn
    <3>2. ASSUME NEW f \in Floors, floor[request[r].floor].answered,
                 floor[request[r].floor].state = "generating"
          PROVE  Moved(floor[f], [floor EXCEPT ![request[r].floor].state = "committed",
                                              ![request[r].floor].run = "ended"][f])
      BY <1>1, <3>2 DEF Moved, Floor
    <3> QED BY <1>3, <2>4, <3>1, <3>2 DEF TurnFails
  <2>5. CASE CommitStale(r) \/ MarkExecuted(r) \/ Finish(r)
    BY <1>2, <2>5 DEF CommitStale, MarkExecuted, Finish
  <2> QED BY <1>7, <2>1, <2>2, <2>3, <2>4, <2>5 DEF Turn
<1>8. CASE Cleanup
  BY <1>1, <1>8 DEF Cleanup, Moved, Floor
<1> QED
  BY <1>2, <1>3, <1>4, <1>5, <1>6, <1>7, <1>8 DEF Next, vars, Terminate, Expire, Crash, Poll

LEMMA FloorsStaySound ==
  ASSUME ConversationConstants, StateInv, [Next]_vars
  PROVE  FloorsSound'
<1>1. floor \in [Floors -> Floor] /\ FloorsSound
  BY DEF StateInv, TypeOK
<1>2. ASSUME NEW r \in Requests, Makes(r)
      PROVE  FloorsSound'
  BY <1>1, <1>2 DEF Makes, FloorsSound, Floor
<1>3. CASE \A f \in Floors : Moved(floor[f], floor'[f])
  BY <1>3 DEF FloorsSound, Moved
<1> QED BY <1>2, <1>3, FloorsMove

\* A floor that was made stays, one that was answered or closed stays so, and
\* one that left draft does not return to it.
LEMMA FloorsOnlyMoveOn ==
  ASSUME ConversationConstants, StateInv, [Next]_vars, NEW f \in Floors
  PROVE  /\ floor[f].answered => floor'[f].answered
         /\ floor[f].state # "none" => floor'[f].state # "none"
         /\ floor[f].state \notin {"none", "draft"} => floor'[f].state \notin {"none", "draft"}
         /\ floor[f].state # "none" /\ ~Open(f) => ~Open(f)'
<1>1. floor \in [Floors -> Floor]
  BY DEF StateInv, TypeOK
<1>2. ASSUME NEW r \in Requests, Makes(r)
      PROVE  floor[f] = floor'[f] \/ (floor[f].state = "none" /\ floor'[f].answered = floor[f].answered
                                       /\ floor'[f].state # "none")
  BY <1>1, <1>2 DEF Makes, Floor
<1>3. CASE \A g \in Floors : Moved(floor[g], floor'[g])
  BY <1>3 DEF Moved, Open
<1> QED BY <1>2, <1>3, FloorsMove DEF Open

LEMMA PlacesStaySound ==
  ASSUME ConversationConstants, StateInv, [Next]_vars
  PROVE  PlacesSound'
<1>1. TypeOK /\ PlacesSound
  BY DEF StateInv
<1> DEFINE Safe(p) == /\ p \in Floors
                      /\ floor'[p].state # "none"
                      /\ ~(floor'[p].state \in {"draft", "generating"} /\ ~floor'[p].answered)
<1> SUFFICES ASSUME NEW r \in Requests, request'[r].at = "create", request'[r].page # 1
             PROVE  Safe(request'[r].page - 1)
  BY DEF PlacesSound, Open
<1>2. ASSUME NEW p \in Floors, floor[p].state # "none", ~Open(p)
      PROVE  Safe(p)
  BY <1>2, FloorsOnlyMoveOn DEF Open
<1> HIDE DEF Safe
<1>3. CASE request'[r] = request[r]
  BY <1>1, <1>2, <1>3 DEF PlacesSound
<1>4. CASE Look(r)
  <2>1. PICK n \in 0 .. MaxFloors :
          /\ IsLatest(n)
          /\ \/ Busy(n) /\ Ends(r)
             \/ /\ n # 0 /\ floor[n].state = "draft"
                /\ Becomes(r, [request[r] EXCEPT !.at = "read", !.page = n])
             \/ /\ ~Busy(n) /\ n < MaxFloors /\ (n # 0 => floor[n].state # "draft")
                /\ Becomes(r, [request[r] EXCEPT !.at = "create", !.page = n + 1])
    BY <1>4 DEF Look
  <2>2. /\ ~Busy(n) /\ (n # 0 => floor[n].state # "draft")
        /\ request'[r].page = n + 1
    <3>1. request \in [Requests -> Request] /\ request[r] \in Request
      BY <1>1 DEF TypeOK
    <3>2. CASE Busy(n) /\ Ends(r)
      BY <3>1, <3>2 DEF Ends, Becomes, Idle
    <3>3. CASE Becomes(r, [request[r] EXCEPT !.at = "read", !.page = n])
      BY <3>1, <3>3 DEF Becomes, Request
    <3>4. CASE /\ ~Busy(n) /\ (n # 0 => floor[n].state # "draft")
               /\ Becomes(r, [request[r] EXCEPT !.at = "create", !.page = n + 1])
      BY <3>1, <3>4 DEF Becomes, Request
    <3> QED BY <2>1, <3>2, <3>3, <3>4
  <2>3. n \in Floors /\ floor[n].state # "none" /\ ~Open(n) /\ request'[r].page - 1 = n
    BY <2>1, <2>2, ConversationConstants DEF Floors, IsLatest, Busy, Open
  <2> QED BY <1>2, <2>3
<1>5. ASSUME request'[r] # request[r], ~Look(r)
      PROVE  FALSE
  <2>1. ASSUME NEW q \in Requests, NEW new, Becomes(q, new), new.at # "create"
        PROVE  FALSE
    BY <1>1, <1>5, <2>1 DEF Becomes, TypeOK
  <2>2. ASSUME NEW q \in Requests, NEW at, Goes(q, at), at # "create"
        PROVE  FALSE
    BY <1>1, <2>1, <2>2 DEF Goes, TypeOK, Request
  <2>3. ASSUME NEW q \in Requests, Ends(q)
        PROVE  FALSE
    BY <2>1, <2>3 DEF Ends, Idle
  <2>4. ASSUME NEW q \in Requests, Start(q) \/ Terminate(q)
        PROVE  FALSE
    <3>1. CASE Append(q) \/ End(q) \/ Respond(q)
      BY <2>1, <3>1 DEF Append, End, Respond, Idle
    <3>2. CASE Retry(q)
      BY <2>1, <3>2 DEF Retry, Idle
    <3>3. ASSUME NEW c \in Calls,
                 Resolve(q, c) \/ Approve(q, c) \/ Reject(q, c) \/ NotPending(q, c)
          PROVE  FALSE
      BY <2>1, <2>3, <3>3 DEF Resolve, Approve, Reject, NotPending, Idle
    <3>4. CASE Terminate(q)
      BY <2>3, <3>4 DEF Terminate
    <3> QED BY <2>4, <3>1, <3>2, <3>3, <3>4 DEF Start
  <2>5. ASSUME NEW q \in Requests
        PROVE  request[q] \in Request
    BY <1>1 DEF TypeOK
  <2>6. ASSUME NEW q \in Requests, Say(q)
        PROVE  FALSE
    <3>1. CASE Look(q)
      BY <1>1, <1>5, <2>5, <3>1 DEF Look, Ends, Becomes, TypeOK
    <3>2. CASE Check(q) \/ Refused(q) \/ Guide(q) \/ Ask(q)
      BY <2>1, <2>2, <2>3, <2>5, <3>2 DEF Check, Refused, Guide, AfterGuide, Ask, Request
    <3>3. CASE Create(q) \/ ReadSeq(q)
      BY <2>1, <2>2, <2>3, <2>5, <3>3 DEF Create, ReadSeq, Request
    <3>4. CASE Insert(q)
      BY <2>1, <2>3, <2>5, <3>4 DEF Insert, Request
    <3> QED BY <2>6, <3>1, <3>2, <3>3, <3>4 DEF Say
  <2>7. ASSUME NEW q \in Requests, Wait(q)
        PROVE  FALSE
    BY <2>1, <2>2, <2>3, <2>5, <2>7
    DEF Wait, Prepare, Promote, InitializeRun, Require, Enter, NotRun, CancelledInQueue, Request
  <2>8. ASSUME NEW q \in Requests, Turn(q)
        PROVE  FALSE
    BY <1>5, <2>1, <2>2, <2>3, <2>5, <2>8
    DEF Turn, Resume, RunTool, Commit, CommitStale, TurnFails, MarkExecuted, Finish,
        Request
  <2>9. CASE Crash
    BY <2>9 DEF Crash, Idle
  <2> QED
    BY <1>5, <2>4, <2>6, <2>7, <2>8, <2>9 DEF Next, vars, Expire, Cleanup, Poll
<1> QED BY <1>3, <1>4, <1>5

LEMMA OneOpenFloorKept ==
  ASSUME ConversationConstants, StateInv, [Next]_vars
  PROVE  OneOpenFloor'
<1>1. /\ floor \in [Floors -> Floor] /\ OneOpenFloor /\ PlacesSound
      /\ \A f \in Floors : f \in Nat
  BY ConversationConstants DEF StateInv, TypeOK, Floors
<1>2. CASE \A f \in Floors : Moved(floor[f], floor'[f])
  BY <1>1, <1>2 DEF Moved, OneOpenFloor
<1>3. ASSUME NEW r \in Requests, Makes(r)
      PROVE  OneOpenFloor'
  <2> DEFINE n == request[r].page
  <2>1. n \in Floors
    BY <1>3 DEF StateInv, RequestsSound, InPlace, Makes
  <2>2. /\ floor[n].state = "none" /\ floor'[n].state = "draft"
        /\ \A f \in Floors : f # n => floor'[f] = floor[f]
    BY <1>1, <1>3, <2>1 DEF Makes, Floor
  <2>3. n # 1 => n - 1 \in Floors /\ floor[n - 1].state # "none" /\ ~Open(n - 1)
    BY <1>1, <1>3 DEF PlacesSound, Makes
  <2>4. ASSUME NEW f \in Floors, f < n
        PROVE  floor[f].state # "none" /\ ~Open(f)
    <3>1. n # 1 /\ (f = n - 1 \/ f < n - 1)
      BY <1>1, <2>1, <2>4 DEF Floors
    <3> QED BY <1>1, <2>3, <3>1 DEF OneOpenFloor, Open
  <2>5. ASSUME NEW g \in Floors, n < g
        PROVE  floor[g].state = "none"
    BY <1>1, <2>1, <2>2, <2>5 DEF OneOpenFloor
  <2> HIDE DEF n
  <2>6. ASSUME NEW f \in Floors, NEW g \in Floors, f < g
        PROVE  /\ floor'[f].state \in {"draft", "generating"} /\ ~floor'[f].answered
                    => floor'[g].state = "none"
               /\ floor'[g].state # "none" => floor'[f].state # "none"
    <3>1. CASE f = n
      BY <1>1, <2>1, <2>2, <2>5, <2>6, <3>1
    <3>2. CASE g = n
      BY <1>1, <2>1, <2>2, <2>4, <2>6, <3>2 DEF Open
    <3>3. CASE f # n /\ g # n
      BY <1>1, <2>2, <2>6, <3>3 DEF OneOpenFloor
    <3> QED BY <3>1, <3>2, <3>3
  <2> QED BY <2>6 DEF OneOpenFloor
<1> QED BY <1>2, <1>3, FloorsMove

-----------------------------------------------------------------------------
(* Turns: how a request comes to where it works on a floor.                *)

\* x and y: a request past the promotion, before and after a step.
Onward(x, y) ==
  /\ y.kind = x.kind /\ y.floor = x.floor
  /\ \/ y.at = x.at
     \/ /\ x.at = "promote" /\ y.at = "promoted"
        /\ floor[x.floor].state = "draft"
        /\ floor' = [floor EXCEPT ![x.floor].state = "generating"]
     \/ x.at = "promoted" /\ y.at = "queued"
     \/ x.at = "require" /\ y.at = "queued"
     \/ /\ x.at = "queued" /\ y.at = "entered" /\ Free
        /\ x.kind = "retry" => floor[x.floor].state = "committed"
        /\ UNCHANGED floor
     \/ x.at \in InTurn /\ y.at \in InTurn

LEMMA RequestsMoveOnward ==
  ASSUME ConversationConstants, StateInv, [Next]_vars, NEW r \in Requests,
         request'[r].at \in Past
  PROVE  Onward(request[r], request'[r])
<1>1. /\ request \in [Requests -> Request]
      /\ \A q \in Requests : request[q] \in Request /\ InPlace(request[q])
  BY DEF StateInv, TypeOK, RequestsSound
<1>2. ASSUME NEW q \in Requests, NEW new, Becomes(q, new), new.at \notin Past
      PROVE  Onward(request[r], request'[r])
  BY <1>1, <1>2 DEF Becomes, Onward
<1>3. ASSUME NEW q \in Requests, NEW at, Goes(q, at),
             at \notin Past \/ Onward(request[q], [request[q] EXCEPT !.at = at])
      PROVE  Onward(request[r], request'[r])
  BY <1>1, <1>3 DEF Goes, Becomes, Onward, Request
<1>4. ASSUME NEW q \in Requests, Ends(q)
      PROVE  Onward(request[r], request'[r])
  BY <1>2, <1>4 DEF Ends, Idle, Past, InTurn
<1>5. ASSUME UNCHANGED request
      PROVE  Onward(request[r], request'[r])
  BY <1>5 DEF Onward
<1>6. ASSUME NEW q \in Requests, Start(q) \/ Terminate(q)
      PROVE  Onward(request[r], request'[r])
  <2>1. CASE Append(q) \/ End(q) \/ Respond(q)
    BY <1>2, <2>1 DEF Append, End, Respond, Idle, Past, InTurn
  <2>2. CASE Retry(q)
    BY <1>2, <2>2 DEF Retry, Idle, Past, InTurn
  <2>3. ASSUME NEW c \in Calls, Resolve(q, c) \/ Approve(q, c) \/ Reject(q, c) \/ NotPending(q, c)
        PROVE  Onward(request[r], request'[r])
    BY <1>2, <1>4, <2>3 DEF Resolve, Approve, Reject, NotPending, Idle, Past, InTurn
  <2>4. CASE Terminate(q)
    BY <1>4, <2>4 DEF Terminate
  <2> QED BY <1>6, <2>1, <2>2, <2>3, <2>4 DEF Start
<1>7. ASSUME NEW q \in Requests, Say(q)
      PROVE  Onward(request[r], request'[r])
  <2>1. CASE Check(q) \/ Refused(q) \/ Guide(q) \/ Ask(q)
    <3>1. CASE Check(q)
      BY <1>1, <1>2, <1>3, <2>1, <3>1 DEF Check, Request, Past, InTurn
    <3>2. CASE Guide(q)
      BY <1>1, <1>2, <1>3, <2>1, <3>2 DEF Guide, AfterGuide, Request, Past, InTurn
    <3>3. CASE Refused(q) \/ Ask(q)
      BY <1>3, <1>4, <3>3 DEF Refused, Ask, Past, InTurn
    <3> QED BY <2>1, <3>1, <3>2, <3>3
  <2>2. CASE Look(q) \/ Create(q) \/ ReadSeq(q)
    BY <1>1, <1>2, <1>3, <1>4, <2>2 DEF Look, Create, ReadSeq, Request, Past, InTurn
  <2>3. CASE Insert(q)
    BY <1>1, <1>2, <1>4, <2>3 DEF Insert, Request, Past, InTurn
  <2> QED BY <1>7, <2>1, <2>2, <2>3 DEF Say
<1>8. ASSUME NEW q \in Requests, Wait(q)
      PROVE  Onward(request[r], request'[r])
  <2>1. CASE Prepare(q)
    BY <1>1, <1>2, <1>4, <2>1 DEF Prepare, Request, Past, InTurn
  <2>2. CASE Promote(q)
    <3>1. MayPromote(request[q].floor)
            /\ floor' = [floor EXCEPT ![request[q].floor].state = "generating"]
            => Onward(request[q], [request[q] EXCEPT !.at = "promoted"])
      BY <1>1, <2>2 DEF Promote, MayPromote, Onward, Request
    <3> QED BY <1>3, <1>4, <2>2, <3>1 DEF Promote
  <2>3. CASE InitializeRun(q)
    <3>1. Onward(request[q], [request[q] EXCEPT !.at = "queued"])
      BY <1>1, <2>3 DEF InitializeRun, Onward, Request
    <3> QED BY <1>3, <2>3, <3>1 DEF InitializeRun
  <2>4. CASE Require(q)
    <3>1. Onward(request[q], [request[q] EXCEPT !.at = "queued"])
      BY <1>1, <2>4 DEF Require, Onward, Request
    <3> QED BY <1>3, <1>4, <2>4, <3>1 DEF Require
  <2>5. CASE Enter(q)
    <3>1. request[q].kind = "retry" => floor[request[q].floor].state = "committed" \/ Ends(q)
      BY <2>5 DEF Enter
    <3>2. Ends(q) \/ (Goes(q, "entered") /\ Onward(request[q], [request[q] EXCEPT !.at = "entered"]))
      BY <1>1, <2>5, <3>1 DEF Enter, Onward, Request
    <3> QED BY <1>3, <1>4, <3>2
  <2>6. CASE NotRun(q) \/ CancelledInQueue(q)
    BY <1>4, <2>6 DEF NotRun, CancelledInQueue
  <2> QED BY <1>8, <2>1, <2>2, <2>3, <2>4, <2>5, <2>6 DEF Wait
<1>9. ASSUME NEW q \in Requests, Turn(q)
      PROVE  Onward(request[r], request'[r])
  <2>2. CASE Resume(q)
    <3>1. PICK c \in 0 .. MaxCalls : Becomes(q, [request[q] EXCEPT !.at = "resumed", !.call = c])
      BY <2>2 DEF Resume
    <3>2. Onward(request[q], [request[q] EXCEPT !.at = "resumed", !.call = c])
      BY <1>1, <2>2 DEF Resume, Onward, Request, InTurn
    <3> QED BY <1>1, <3>1, <3>2 DEF Becomes, Onward
  <2>3. ASSUME NEW at \in InTurn, NEW tool, request[q].at \in InTurn
        PROVE  Onward(request[q], [request[q] EXCEPT !.at = at, !.tool = tool])
    BY <1>1, <2>3 DEF Onward, Request
  <2>4. CASE RunTool(q) \/ Commit(q) \/ MarkExecuted(q)
    <3>1. PICK at \in InTurn : \E tool :
            Becomes(q, [request[q] EXCEPT !.at = at, !.tool = tool])
      BY <1>1, <2>4 DEF RunTool, Commit, MarkExecuted, InTurn, Request
    <3>2. PICK tool : Becomes(q, [request[q] EXCEPT !.at = at, !.tool = tool])
      BY <3>1
    <3>3. request[q].at \in InTurn
      BY <2>4 DEF RunTool, Commit, MarkExecuted, InTurn
    <3>4. Onward(request[q], [request[q] EXCEPT !.at = at, !.tool = tool])
      BY <2>3, <3>3
    <3> QED BY <1>1, <3>2, <3>4 DEF Becomes, Onward
  <2>5. CASE CommitStale(q) \/ TurnFails(q) \/ Finish(q)
    BY <1>4, <2>5 DEF CommitStale, TurnFails, Finish
  <2> QED BY <1>9, <2>2, <2>4, <2>5 DEF Turn
<1>10. CASE Crash
  BY <1>10 DEF Crash, Idle, Past, InTurn
<1> QED
  BY <1>5, <1>6, <1>7, <1>8, <1>9, <1>10 DEF Next, vars, Expire, Cleanup, Poll

\* A step is of one request, or ends them all.
LEMMA OneRequestMoves ==
  ASSUME ConversationConstants, StateInv, [Next]_vars, NEW r \in Requests, NEW q \in Requests,
         r # q
  PROVE  \/ request'[r] = request[r] \/ request'[q] = request[q]
         \/ request'[r].at = "idle" /\ request'[q].at = "idle"
<1>1. request \in [Requests -> Request]
  BY DEF StateInv, TypeOK
<1>2. ASSUME NEW p \in Requests, NEW new, Becomes(p, new)
      PROVE  request'[r] = request[r] \/ request'[q] = request[q]
  BY <1>1, <1>2 DEF Becomes
<1>3. ASSUME NEW p \in Requests, Start(p)
      PROVE  request'[r] = request[r] \/ request'[q] = request[q]
  BY <1>2, <1>3 DEF Start, Append, End, Respond, Retry, Resolve, Approve, Reject, NotPending, Ends
<1>4. ASSUME NEW p \in Requests, Say(p) \/ Terminate(p)
      PROVE  request'[r] = request[r] \/ request'[q] = request[q]
  BY <1>2, <1>4 DEF Terminate, Say, Check, Refused, Guide, Ask, Look, Create, ReadSeq, Insert,
                    Goes, Ends
<1>5. ASSUME NEW p \in Requests, Wait(p)
      PROVE  request'[r] = request[r] \/ request'[q] = request[q]
  BY <1>2, <1>5 DEF Wait, Prepare, Promote, InitializeRun, Require, Enter, NotRun,
                    CancelledInQueue, Goes, Ends
<1>6. ASSUME NEW p \in Requests, Turn(p)
      PROVE  request'[r] = request[r] \/ request'[q] = request[q]
  BY <1>2, <1>6 DEF Turn, Resume, RunTool, Commit, CommitStale, TurnFails,
                    MarkExecuted, Finish, Goes, Ends
<1>7. CASE Crash
  BY <1>7 DEF Crash, Idle
<1> QED
  BY <1>3, <1>4, <1>5, <1>6, <1>7 DEF Next, vars, Expire, Cleanup, Poll

\* A floor whose turn waits for the coordinator is left generating or failed by
\* all others.
LEMMA WaitingFloorKept ==
  ASSUME ConversationConstants, StateInv, [Next]_vars, NEW f \in Floors,
         floor[f].state \in {"generating", "failed"},
         \A q \in Requests : request[q].floor = f => request[q].at \notin InTurn
  PROVE  floor'[f].state \in {"generating", "failed"}
<1>1. floor \in [Floors -> Floor]
  BY DEF StateInv, TypeOK
<1>2. \A g : /\ Failed(g)[f].state \in {"generating", "failed"}
             /\ [floor EXCEPT ![g].run = "running"][f].state \in {"generating", "failed"}
             /\ [floor EXCEPT ![g].state = "generating"][f].state \in {"generating", "failed"}
             /\ floor[g].state = "none"
                  => [floor EXCEPT ![g].state = "draft"][f].state \in {"generating", "failed"}
  BY <1>1 DEF Failed, Floor
<1>3. ASSUME NEW r \in Requests, Start(r) \/ Say(r)
      PROVE  floor'[f].state \in {"generating", "failed"}
  BY <1>2, <1>3 DEF Start, Append, Respond, Retry, End, Resolve, Approve, Reject, NotPending,
       Say, Check, Refused, Guide,
                    Ask, Look, Create, ReadSeq, Insert
<1>4. ASSUME NEW r \in Requests, Wait(r)
      PROVE  floor'[f].state \in {"generating", "failed"}
  BY <1>2, <1>4 DEF Wait, Prepare, Promote, InitializeRun, Require, Enter, NotRun, CancelledInQueue
<1>5. ASSUME NEW r \in Requests, Turn(r)
      PROVE  floor'[f].state \in {"generating", "failed"}
  <2>1. CASE Resume(r) \/ RunTool(r)
    BY <1>2, <2>1 DEF Resume, RunTool
  <2>2. CASE Commit(r)
    BY <1>1, <2>2 DEF Commit, InTurn
  <2>3. CASE TurnFails(r)
    <3>1. request[r].floor # f
      BY <2>3 DEF TurnFails, InTurn
    <3>2. floor[f] = [floor EXCEPT ![request[r].floor].state = "committed",
                                   ![request[r].floor].run = "ended"][f]
      BY <1>1, <3>1
    <3> QED BY <1>2, <2>3, <3>2 DEF TurnFails
  <2>4. CASE CommitStale(r) \/ MarkExecuted(r) \/ Finish(r)
    BY <2>4 DEF CommitStale, MarkExecuted, Finish
  <2> QED BY <1>5, <2>1, <2>2, <2>3, <2>4 DEF Turn
<1>6. CASE Cleanup
  BY <1>1, <1>6 DEF Cleanup, Floor
<1> QED
  BY <1>2, <1>3, <1>4, <1>5, <1>6 DEF Next, vars, Terminate, Expire, Crash, Poll

\* What TurnsSound says of one request.
TurnSound(r) ==
  /\ Working(r) => floor[request[r].floor].state \notin {"none", "draft"}
  /\ request[r].kind = "respond" /\ request[r].at \in {"promoted", "queued"}
       => floor[request[r].floor].state \in {"generating", "failed"}
  /\ request[r].kind = "retry" /\ request[r].at \in InTurn
       => floor[request[r].floor].answered

LEMMA EachTurnStaysSound ==
  ASSUME ConversationConstants, StateInv, [Next]_vars, NEW r \in Requests
  PROVE  TurnSound(r)'
<1> DEFINE f == request[r].floor
<1>1. /\ request[r] \in Request /\ floor \in [Floors -> Floor]
      /\ TurnSound(r) /\ FloorsSound
      /\ request[r].at \in {"promote"} \cup Past => f \in Floors
  BY DEF StateInv, TypeOK, TurnsSound, TurnSound, RequestsSound, InPlace
<1>2. CASE request'[r].at \notin Past
  BY <1>2 DEF TurnSound, Working, Past, InTurn
<1>3. CASE request'[r].at \in Past
  <2>1. Onward(request[r], request'[r])
    BY <1>3, RequestsMoveOnward
  <2>2. request'[r].floor = f /\ request'[r].kind = request[r].kind
    BY <2>1 DEF Onward
  <2>3. ASSUME f \in Floors
        PROVE  /\ floor[f].state \notin {"none", "draft"} => floor'[f].state \notin {"none", "draft"}
               /\ floor[f].answered => floor'[f].answered
    BY <2>3, FloorsOnlyMoveOn
  <2>4. CASE request[r].at = "promote" /\ request'[r].at = "promoted"
    <3>1. floor' = [floor EXCEPT ![f].state = "generating"]
      BY <2>1, <2>4 DEF Onward, InTurn
    <3>2. floor'[f].state = "generating"
      BY <1>1, <2>4, <3>1 DEF Floor
    <3> QED BY <2>2, <2>4, <3>2 DEF TurnSound, InTurn
  <2>5. CASE request[r].at = "require"
    <3>1. request[r].kind = "retry" /\ request'[r].at = "queued"
      BY <1>3, <2>1, <2>5 DEF StateInv, RequestsSound, InPlace, Onward, Past, InTurn
    <3> QED BY <2>2, <3>1 DEF TurnSound, Working, InTurn
  <2>6. CASE request[r].at = "queued" /\ request'[r].at = "entered"
    <3>1. (request[r].kind = "retry" => floor[f].state = "committed") /\ floor' = floor
      BY <2>1, <2>6 DEF Onward, InTurn
    <3>2. request[r].kind \in {"respond", "retry"} /\ f \in Floors
      BY <1>1, <2>6 DEF Request, Past
    <3>3. CASE request[r].kind = "retry"
      BY <1>1, <2>2, <2>6, <3>1, <3>2, <3>3 DEF TurnSound, FloorsSound
    <3>4. CASE request[r].kind = "respond"
      BY <1>1, <2>2, <2>6, <3>1, <3>2, <3>4 DEF TurnSound
    <3> QED BY <3>2, <3>3, <3>4
  <2>7. CASE request[r].at \in InTurn /\ request'[r].at \in InTurn
    <3>1. f \in Floors /\ Working(r)
      BY <1>1, <2>7 DEF Past, Working, InTurn
    <3>2. floor'[f].state \notin {"none", "draft"}
      BY <1>1, <2>3, <3>1 DEF TurnSound
    <3>3. request[r].kind = "retry" => floor'[f].answered
      BY <1>1, <2>3, <2>7, <3>1 DEF TurnSound
    <3> QED BY <2>2, <2>7, <3>2, <3>3 DEF TurnSound, InTurn
  <2>8. CASE request[r].at \in {"promoted", "queued"} /\ request'[r].at \in {"promoted", "queued"}
    <3>1. f \in Floors /\ request[r].kind \in {"respond", "retry"}
      BY <1>1, <2>8 DEF Past, Request
    <3>2. ASSUME request[r].kind = "respond"
          PROVE  floor'[f].state \in {"generating", "failed"}
      <4>1. floor[f].state \in {"generating", "failed"} /\ Working(r)
        BY <1>1, <2>8, <3>2 DEF TurnSound, Working, Past
      <4>2. ASSUME NEW q \in Requests, request[q].floor = f, request[q].at \in InTurn
            PROVE  FALSE
        BY <2>8, <4>1, <4>2 DEF StateInv, OneTurnPerFloor, Working, Past, InTurn
      <4> QED BY <3>1, <4>1, <4>2, WaitingFloorKept
    <3>3. request[r].kind = "retry" => request'[r].at = "queued"
      BY <2>1, <2>8 DEF StateInv, RequestsSound, InPlace, Onward, InTurn
    <3> QED BY <2>2, <2>8, <3>1, <3>2, <3>3 DEF TurnSound, Working, InTurn
  <2> QED
    BY <1>3, <2>1, <2>4, <2>5, <2>6, <2>7, <2>8 DEF Onward, Past
<1> QED BY <1>2, <1>3

LEMMA TurnsStaySound ==
  ASSUME ConversationConstants, StateInv, [Next]_vars
  PROVE  TurnsSound'
<1>1. ASSUME NEW r \in Requests, NEW q \in Requests, r # q,
             request'[r].at \in InTurn, request'[q].at \in InTurn
      PROVE  FALSE
  <2>1. ~(request[r].at \in InTurn /\ request[q].at \in InTurn)
    BY <1>1 DEF StateInv, TurnsSound
  <2>2. ASSUME NEW p \in Requests, request'[p].at \in InTurn
        PROVE  request[p].at \in InTurn \/ (request[p].at = "queued" /\ Free /\ request'[p] # request[p])
    <3>1. Onward(request[p], request'[p])
      BY <2>2, RequestsMoveOnward DEF Past
    <3> QED BY <2>2, <3>1 DEF Onward, InTurn
  <2>3. request[r].at \notin InTurn /\ request[q].at \notin InTurn
    BY <1>1, <2>1, <2>2 DEF Free
  <2>4. request'[r] # request[r] /\ request'[q] # request[q]
    BY <1>1, <2>2, <2>3
  <2> QED BY <1>1, <2>4, OneRequestMoves DEF InTurn
<1> QED BY <1>1, EachTurnStaysSound DEF TurnsSound, TurnSound, Working

LEMMA OneTurnPerFloorKept ==
  ASSUME ConversationConstants, StateInv, [Next]_vars
  PROVE  OneTurnPerFloor'
<1>1. ASSUME NEW r \in Requests, NEW q \in Requests, r # q, request'[q] = request[q],
             Working(r)', Working(q)', request'[r].floor = request'[q].floor
      PROVE  FALSE
  <2>1. Working(q) /\ request'[r].at \in Past /\ Onward(request[r], request'[r])
    BY <1>1, RequestsMoveOnward DEF Working
  <2>2. request[r].floor = request[q].floor /\ request'[r].kind = request[r].kind
    BY <1>1, <2>1 DEF Onward
  <2>3. ~Working(r)
    BY <1>1, <2>1, <2>2 DEF StateInv, OneTurnPerFloor
  <2>4. floor[request[r].floor].state \notin {"none", "draft"}
    BY <2>1, <2>2 DEF StateInv, TurnsSound
  <2>5. CASE request[r].at = "queued" /\ request'[r].at = "entered"
    <3>1. Free /\ request[r].kind = "retry" /\ floor[request[q].floor].state = "committed"
      BY <2>1, <2>2, <2>3, <2>5 DEF Onward, Working, Past, InTurn
    <3>2. request[q].at \in {"promoted", "queued"} /\ request[q].kind = "respond"
      <4>1. request[q].kind \in {"respond", "retry"}
        BY DEF StateInv, TypeOK, Request
      <4>2. request[q].at \in {"promoted", "queued"}
        BY <2>1, <3>1 DEF Free, Working, Past
      <4>3. request[q].at = "promoted" => request[q].kind = "respond"
        BY DEF StateInv, RequestsSound, InPlace
      <4> QED BY <2>1, <4>1, <4>2, <4>3 DEF Working
    <3> QED BY <3>1, <3>2 DEF StateInv, TurnsSound
  <2>6. CASE request[r].at = "require"
    BY <1>1, <2>1, <2>2, <2>6 DEF StateInv, RequestsSound, InPlace, Onward, Working, Past, InTurn
  <2>7. CASE request[r].at = "promote"
    BY <2>1, <2>4, <2>7 DEF Onward, Past, InTurn
  <2>8. CASE request'[r].at = request[r].at
    BY <1>1, <2>1, <2>2, <2>3, <2>8 DEF Working
  <2>9. CASE request[r].at = "promoted" \/ request[r].at \in InTurn
    BY <2>3, <2>9 DEF Working, Past, InTurn
  <2> QED BY <2>1, <2>5, <2>6, <2>7, <2>8, <2>9 DEF Onward
<1>2. ASSUME NEW r \in Requests, NEW q \in Requests, r # q,
             Working(r)', Working(q)', request'[r].floor = request'[q].floor
      PROVE  FALSE
  <2>1. request'[r] = request[r] \/ request'[q] = request[q]
    BY <1>2, OneRequestMoves DEF Working, Past, InTurn
  <2> QED BY <1>1, <1>2, <2>1
<1> QED BY <1>2 DEF OneTurnPerFloor

-----------------------------------------------------------------------------
(* Calls: how often they ran.                                              *)

Running == {"resumed", "ran", "committed"}

\* Up to the task of the coordinator no request runs a call.
LEMMA OnlyTurnsRun ==
  ASSUME ConversationConstants, StateInv, NEW p \in Requests,
         Start(p) \/ Terminate(p) \/ Say(p) \/ Wait(p), NEW r \in Requests
  PROVE  \/ request'[r] = request[r]
         \/ request[r].at \notin Running /\ request'[r].at \notin Running
<1> DEFINE Done == \/ request'[r] = request[r]
                   \/ request[r].at \notin Running /\ request'[r].at \notin Running
<1>1. request \in [Requests -> Request] /\ request[p] \in Request
  BY DEF StateInv, TypeOK
<1>2. ASSUME NEW new, Becomes(p, new), request[p].at \notin Running, new.at \notin Running
      PROVE  Done
  BY <1>1, <1>2 DEF Becomes
<1>3. ASSUME NEW at, Goes(p, at), request[p].at \notin Running, at \notin Running
      PROVE  Done
  BY <1>1, <1>2, <1>3 DEF Goes, Request
<1>4. ASSUME Ends(p), request[p].at \notin Running
      PROVE  Done
  BY <1>2, <1>4 DEF Ends, Idle, Running
<1> HIDE DEF Done
<1>5. ASSUME Start(p) \/ Terminate(p)
      PROVE  Done
  <2>1. CASE Append(p) \/ End(p) \/ Respond(p)
    BY <1>2, <2>1 DEF Append, End, Respond, Begins, Idle, Running
  <2>2. CASE Retry(p)
    BY <1>2, <2>2 DEF Retry, Begins, Idle, Running
  <2>3. ASSUME NEW c \in Calls, Resolve(p, c) \/ Approve(p, c) \/ Reject(p, c) \/ NotPending(p, c)
        PROVE  Done
    BY <1>2, <1>4, <2>3 DEF Resolve, Approve, Reject, NotPending, Decides, Begins, Idle, Running
  <2>4. CASE Terminate(p)
    BY <1>4, <2>4 DEF Terminate, Running
  <2> QED BY <1>5, <2>1, <2>2, <2>3, <2>4 DEF Start
<1>6. ASSUME Say(p)
      PROVE  Done
  <2>1. CASE Check(p) \/ Refused(p) \/ Guide(p) \/ Ask(p)
    BY <1>1, <1>2, <1>3, <1>4, <2>1
    DEF Check, Refused, Guide, AfterGuide, Ask, Request, Running
  <2>2. CASE Look(p) \/ Create(p) \/ ReadSeq(p)
    BY <1>1, <1>2, <1>3, <1>4, <2>2 DEF Look, Create, ReadSeq, Request, Running
  <2>3. CASE Insert(p)
    BY <1>1, <1>2, <1>4, <2>3 DEF Insert, Request, Running
  <2> QED BY <1>6, <2>1, <2>2, <2>3 DEF Say
<1>7. ASSUME Wait(p)
      PROVE  Done
  BY <1>1, <1>2, <1>3, <1>4, <1>7
  DEF Wait, Prepare, Promote, InitializeRun, Require, Enter, NotRun, CancelledInQueue, Request,
      Running
<1> QED BY <1>5, <1>6, <1>7 DEF Done

\* What CallsSound says of one call.
CallSound(c) ==
  /\ call[c].status \in {"none", "pending", "rejected"}
       => call[c].runs = 0 /\ call[c].excused = 0
  /\ call[c].status = "executed" => call[c].runs \in {call[c].excused, call[c].excused + 1}
  /\ \A r \in Requests : Holds(r, c) => call[c].runs = call[c].excused + 1
  /\ call[c].status = "approved" /\ (\A r \in Requests : ~Holds(r, c))
       => call[c].runs = call[c].excused

RunsApproved ==
  \A r \in Requests :
    request[r].at \in Running /\ request[r].call # 0 => call[request[r].call].status = "approved"

LEMMA CallsSoundSplit == CallsSound <=> RunsApproved /\ \A c \in Calls : CallSound(c)
BY DEF CallsSound, RunsApproved, CallSound, Running

\* The calls change, the turns do not: an approval, a rejection.
LEMMA DecisionsKeepCalls ==
  ASSUME StateInv,
         \A r \in Requests : \/ request'[r] = request[r]
                             \/ request[r].at \notin Running /\ request'[r].at \notin Running,
         NEW c \in Calls, NEW s, s # "executed", s # "none",
         call[c].status = "pending" \/ (call[c].status = "none" /\ s = "pending"),
         call' = [call EXCEPT ![c].status = s], RequestsSound'
  PROVE  RunsApproved' /\ \A d \in Calls : CallSound(d)'
<1>1. /\ RunsApproved /\ \A d \in Calls : CallSound(d)
      /\ call \in [Calls -> Call] /\ RequestsSound
  BY CallsSoundSplit DEF StateInv, TypeOK
<1>2. \A d \in Calls : \A r \in Requests : Holds(r, d)' <=> Holds(r, d)
  BY <1>1 DEF Holds, RequestsSound, InPlace, Running
<1>3. /\ call'[c].status = s /\ call'[c].runs = 0 /\ call'[c].excused = 0
      /\ \A d : d \in Calls /\ d # c => call'[d] = call[d]
  BY <1>1 DEF Call, CallSound
<1>4. \A r \in Requests : ~Holds(r, c)
  BY <1>1, ConversationConstants DEF Holds, RequestsSound, InPlace, RunsApproved, Running, Calls
<1>5. CallSound(c)'
  BY <1>2, <1>3, <1>4 DEF CallSound
<1>6. ASSUME NEW d \in Calls, d # c
      PROVE  CallSound(d)'
  BY <1>1, <1>2, <1>3, <1>6 DEF CallSound
<1>7. RunsApproved'
  <2> SUFFICES ASSUME NEW r \in Requests, request'[r].at \in Running, request'[r].call # 0
               PROVE  call'[request'[r].call].status = "approved"
    BY DEF RunsApproved
  <2>1. request'[r] = request[r]
    OBVIOUS
  <2>2. request[r].call \in Calls /\ call[request[r].call].status = "approved"
    BY <1>1, <2>1, ConversationConstants DEF RunsApproved, StateInv, TypeOK, Request, Calls
  <2>3. request[r].call # c
    BY <2>2
  <2> QED BY <1>3, <2>1, <2>2, <2>3
<1> QED BY <1>5, <1>6, <1>7

\* In the task of the coordinator there is one request, r.
LEMMA AloneInTask ==
  ASSUME StateInv, NEW r \in Requests, request[r].at \in InTurn
  PROVE  \A q \in Requests : \A c : Holds(q, c) => q = r
BY DEF StateInv, TurnsSound, RequestsSound, InPlace, Holds, InTurn

\* A turn that ends without markExecuted is excused for the call it ran.
LEMMA GivenUpKeepsCalls ==
  ASSUME ConversationConstants, StateInv, NEW rs \in SUBSET Requests,
         \A r \in Requests : r \in rs \/ request[r].at \notin Running,
         \A r \in rs : request'[r] = Idle,
         \A r \in Requests \ rs : request'[r] = request[r],
         call' = Excused(rs)
  PROVE  RunsApproved' /\ \A c \in Calls : CallSound(c)'
<1>1. /\ RunsApproved /\ \A c \in Calls : CallSound(c)
      /\ call \in [Calls -> Call]
  BY CallsSoundSplit DEF StateInv, TypeOK
<1>2. \A r \in Requests : request'[r].at \notin Running
  BY DEF Idle, Running
<1>3. \A r \in Requests : \A c : ~Holds(r, c)'
  BY DEF StateInv, RequestsSound, InPlace, Idle, Holds, Running
<1>4. ASSUME NEW c \in Calls
      PROVE  CallSound(c)'
  <2>1. CASE \E r \in Requests : Holds(r, c)
    <3>1. PICK r \in Requests : Holds(r, c)
      BY <2>1
    <3>2. /\ r \in rs /\ request[r].tool = "ran" /\ request[r].call = c
          /\ request[r].at \in Running
      BY <3>1 DEF StateInv, RequestsSound, InPlace, Holds, Running
    <3>3. call[c].status = "approved" /\ call[c].runs = call[c].excused + 1
      BY <1>1, <1>4, <3>1, <3>2, ConversationConstants DEF RunsApproved, CallSound, Calls
    <3>4. call'[c] = [call[c] EXCEPT !.excused = @ + 1]
      BY <1>4, <3>2 DEF Excused
    <3>5. call'[c].status = "approved" /\ call'[c].runs = call'[c].excused
      BY <1>1, <1>4, <3>3, <3>4 DEF Call
    <3> QED BY <1>3, <3>5 DEF CallSound
  <2>2. CASE \A r \in Requests : ~Holds(r, c)
    <3>1. call'[c] = call[c]
      BY <1>4, <2>2 DEF Excused, Holds
    <3> QED BY <1>1, <1>3, <1>4, <2>2, <3>1 DEF CallSound
  <2> QED BY <2>1, <2>2
<1> QED BY <1>2, <1>4 DEF RunsApproved

\* A step of the only turn that has resumed a call, which does not run it.
LEMMA TurnKeepsIts ==
  ASSUME ConversationConstants, StateInv, NEW r \in Requests, call' = call,
         request[r].at \in Running, request'[r].at \in Running,
         request'[r].call = request[r].call,
         request'[r].tool = "ran" <=> request[r].tool = "ran",
         \A q \in Requests : q # r => request'[q] = request[q]
  PROVE  RunsApproved' /\ \A d \in Calls : CallSound(d)'
<1>1. RunsApproved /\ \A d \in Calls : CallSound(d)
  BY CallsSoundSplit DEF StateInv
<1>2. \A q \in Requests : \A d : Holds(q, d)' <=> Holds(q, d)
  BY DEF Holds
<1>3. \A d \in Calls : CallSound(d)'
  BY <1>1, <1>2 DEF CallSound
<1>4. RunsApproved'
  BY <1>1 DEF RunsApproved
<1> QED BY <1>3, <1>4

\* A step of that turn which runs the call.
LEMMA TurnRunsIts ==
  ASSUME ConversationConstants, StateInv, NEW r \in Requests, NEW c \in Calls,
         request[r].at \in Running, request'[r].at \in Running,
         request[r].call = c, request'[r].call = c,
         request[r].tool # "ran", request'[r].tool = "ran",
         \A q \in Requests : q # r => request'[q] = request[q],
         call' = Ran(c)
  PROVE  RunsApproved' /\ \A d \in Calls : CallSound(d)'
<1>1. /\ RunsApproved /\ \A d \in Calls : CallSound(d)
      /\ call \in [Calls -> Call]
  BY CallsSoundSplit DEF StateInv, TypeOK
<1>2. call[c].status = "approved"
  BY <1>1, ConversationConstants DEF RunsApproved, Calls
<1>3. \A q \in Requests : q = r \/ (request[q].at \notin Running /\ \A d : ~Holds(q, d))
  BY AloneInTask DEF StateInv, TurnsSound, InTurn, Running
<1>4. \A q \in Requests : \A d : ~Holds(q, d) /\ (Holds(q, d)' <=> q = r /\ d = c)
  BY <1>3 DEF Holds
<1>5. /\ call'[c].status = "approved" /\ call'[c].runs = call[c].runs + 1
      /\ call'[c].excused = call[c].excused
      /\ \A d \in Calls : d # c => call'[d] = call[d]
  BY <1>1, <1>2 DEF Ran, Call
<1>6. call[c].runs = call[c].excused /\ call[c].excused \in Nat
  BY <1>1, <1>2, <1>4 DEF CallSound, Call
<1>7. CallSound(c)'
  BY <1>4, <1>5, <1>6 DEF CallSound
<1>8. ASSUME NEW d \in Calls, d # c
      PROVE  CallSound(d)'
  BY <1>1, <1>4, <1>5, <1>8 DEF CallSound
<1>9. RunsApproved'
  BY <1>3, <1>5 DEF RunsApproved
<1> QED BY <1>7, <1>8, <1>9

LEMMA TurnKeepsCalls ==
  ASSUME ConversationConstants, StateInv, NEW r \in Requests, Turn(r)
  PROVE  RunsApproved' /\ \A c \in Calls : CallSound(c)'
<1>1. /\ RunsApproved /\ \A c \in Calls : CallSound(c)
      /\ call \in [Calls -> Call] /\ request \in [Requests -> Request]
      /\ InPlace(request[r])
  BY CallsSoundSplit DEF StateInv, TypeOK, RequestsSound
<1>2. /\ request[r] \in Request /\ request[r].at \in InTurn
      /\ \A q \in Requests : \A c : Holds(q, c) => q = r
      /\ \A q \in Requests : q = r \/ request[q].at \notin Running
  <2>1. request[r].at \in InTurn
    BY DEF Turn, Resume, RunTool, Commit, CommitStale, TurnFails, MarkExecuted, Finish, InTurn
  <2>2. \A q \in Requests : q = r \/ request[q].at \notin Running
    BY <2>1 DEF StateInv, TurnsSound, InTurn, Running
  <2> QED BY <1>1, <2>1, <2>2, AloneInTask
<1>3. ASSUME NEW new, Becomes(r, new)
      PROVE  request'[r] = new /\ \A q \in Requests : q # r => request'[q] = request[q]
  BY <1>1, <1>3 DEF Becomes
<1>4. CASE Resume(r)
  <2>1. PICK c \in 0 .. MaxCalls :
          IsResumed(c) /\ Becomes(r, [request[r] EXCEPT !.at = "resumed", !.call = c])
    BY <1>4 DEF Resume
  <2>2. /\ request'[r].at = "resumed" /\ request'[r].call = c /\ call' = call
        /\ request'[r].tool = request[r].tool
        /\ \A q \in Requests : q # r => request'[q] = request[q]
    BY <1>1, <1>2, <1>4, <2>1 DEF Becomes, Resume, Request
  <2>3. c # 0 => call[c].status = "approved"
    BY <2>1 DEF IsResumed, Resumable
  <2>4. request[r].tool # "ran"
    BY <1>1, <1>4 DEF InPlace, Resume
  <2>5. \A q \in Requests : \A d : ~Holds(q, d)' /\ ~Holds(q, d)
    BY <1>2, <2>2, <2>4 DEF Holds
  <2>6. \A d \in Calls : CallSound(d)'
    BY <1>1, <2>2, <2>5 DEF CallSound
  <2>7. RunsApproved'
    BY <1>2, <2>2, <2>3 DEF RunsApproved
  <2> QED BY <2>6, <2>7
<1>5. CASE RunTool(r)
  <2>1. PICK o \in Outcomes(request[r].call) :
          /\ call' = IF o = "ran" THEN Ran(request[r].call) ELSE call
          /\ Becomes(r, [request[r] EXCEPT !.at = "ran", !.tool = o])
    BY <1>5 DEF RunTool
  <2>2. /\ request[r].at \in Running /\ request[r].tool # "ran"
        /\ request'[r].at \in Running /\ request'[r].tool = o
        /\ request'[r].call = request[r].call
        /\ \A q \in Requests : q # r => request'[q] = request[q]
    BY <1>1, <1>2, <1>5, <2>1 DEF Becomes, RunTool, InPlace, Request, Running
  <2>3. CASE o = "ran"
    <3>1. PICK c \in Calls : request[r].call = c
      BY <1>2, <2>1, <2>3, ConversationConstants DEF Outcomes, Request, Calls
    <3> QED BY <2>1, <2>2, <2>3, <3>1, ConversationConstants, TurnRunsIts
  <2>4. CASE o # "ran"
    BY <2>1, <2>2, <2>4, ConversationConstants, TurnKeepsIts
  <2> QED BY <2>3, <2>4
<1>6. CASE Commit(r)
  <2>1. /\ request[r].at \in Running /\ request'[r].at \in Running
        /\ request'[r].tool = IF request[r].tool = "queued" THEN "ran" ELSE request[r].tool
        /\ request'[r].call = request[r].call
        /\ \A q \in Requests : q # r => request'[q] = request[q]
    BY <1>1, <1>2, <1>6 DEF Becomes, Commit, Request, Running
  <2>2. CASE request[r].tool = "queued"
    <3>1. PICK c \in Calls : request[r].call = c
      BY <1>1, <1>2, <2>2, ConversationConstants DEF InPlace, Request, Calls
    <3>2. call' = Ran(c)
      BY <1>6, <2>2, <3>1 DEF Commit
    <3> QED BY <2>1, <2>2, <3>1, <3>2, ConversationConstants, TurnRunsIts
  <2>3. CASE request[r].tool # "queued"
    <3>1. call' = call
      BY <1>6, <2>3 DEF Commit
    <3> QED BY <2>1, <2>3, <3>1, ConversationConstants, TurnKeepsIts
  <2> QED BY <2>2, <2>3
<1>7. CASE CommitStale(r) \/ TurnFails(r)
  <2>1. Ends(r) /\ call' = Excused({r})
    BY <1>7 DEF CommitStale, TurnFails
  <2>2. request'[r] = Idle /\ \A q \in Requests : q # r => request'[q] = request[q]
    BY <1>3, <2>1 DEF Ends
  <2> QED BY <1>2, <2>1, <2>2, ConversationConstants, GivenUpKeepsCalls
<1>8. CASE MarkExecuted(r)
  <2>1. /\ request[r].at = "committed" /\ request'[r].at = "marked" /\ request'[r].tool = "none"
        /\ request[r].call # 0 => call[request[r].call].status = "approved"
        /\ \A q \in Requests : q # r => request'[q] = request[q]
    BY <1>1, <1>2, <1>8 DEF Becomes, MarkExecuted, Resumable, Request
  <2>2. \A q \in Requests : request'[q].at \notin Running
    BY <1>2, <2>1 DEF Running
  <2>3. \A q \in Requests : \A d : ~Holds(q, d)'
    BY <1>2, <2>1 DEF Holds
  <2>4. ASSUME NEW d \in Calls, d # request[r].call
        PROVE  CallSound(d)'
    <3>1. call'[d] = call[d]
      BY <1>1, <1>8, <2>4 DEF MarkExecuted
    <3>2. \A q \in Requests : ~Holds(q, d)
      BY <1>2, <2>4 DEF Holds
    <3> QED BY <1>1, <2>3, <2>4, <3>1, <3>2 DEF CallSound
  <2>5. ASSUME NEW d \in Calls, d = request[r].call
        PROVE  CallSound(d)'
    <3>1. d # 0 /\ call[d].status = "approved"
      BY <2>1, <2>5, ConversationConstants DEF Calls
    <3>2. /\ call'[d].status = "executed" /\ call'[d].runs = call[d].runs
          /\ call'[d].excused = call[d].excused
      BY <1>1, <1>8, <2>5, <3>1 DEF MarkExecuted, Call
    <3>3. call[d].runs \in {call[d].excused, call[d].excused + 1}
      BY <1>1, <3>1 DEF CallSound
    <3> QED BY <2>3, <3>2, <3>3 DEF CallSound
  <2> QED BY <2>2, <2>4, <2>5 DEF RunsApproved
<1>9. CASE Finish(r)
  <2>1. Ends(r) /\ request[r].at = "marked" /\ request[r].tool # "ran"
    BY <1>1, <1>9 DEF Finish, InPlace
  <2>2. /\ request'[r] = Idle
        /\ \A q \in Requests : q # r => request'[q] = request[q]
    BY <1>3, <2>1 DEF Ends
  <2>3. \A q \in Requests : \A d : ~Holds(q, d)' /\ ~Holds(q, d)
    BY <1>2, <2>1, <2>2 DEF Holds, Idle
  <2>4. \A q \in Requests : request'[q].at \notin Running
    BY <1>2, <2>2 DEF Idle, Running
  <2>5. ASSUME NEW d \in Calls, call'[d] = call[d]
        PROVE  CallSound(d)'
    BY <1>1, <2>3, <2>5 DEF CallSound
  <2>6. ASSUME NEW c \in Calls, call[c].status = "none",
               call' = [call EXCEPT ![c].status = "pending"]
        PROVE  CallSound(c)' /\ \A d \in Calls : d # c => call'[d] = call[d]
    BY <1>1, <2>3, <2>6 DEF CallSound, Call
  <2> QED BY <1>9, <2>4, <2>5, <2>6 DEF Finish, RunsApproved
<1> QED BY <1>4, <1>5, <1>6, <1>7, <1>8, <1>9 DEF Turn

LEMMA CallsStaySound ==
  ASSUME ConversationConstants, StateInv, [Next]_vars
  PROVE  CallsSound'
<1> SUFFICES RunsApproved' /\ \A c \in Calls : CallSound(c)'
  BY DEF CallsSound, RunsApproved, CallSound, Running
<1>1. RunsApproved /\ \A c \in Calls : CallSound(c)
  BY CallsSoundSplit DEF StateInv
<1>2. ASSUME call' = call,
             \A r \in Requests : \/ request'[r] = request[r]
                                 \/ request[r].at \notin Running /\ request'[r].at \notin Running
      PROVE  RunsApproved' /\ \A c \in Calls : CallSound(c)'
  <2>1. \A q \in Requests : \A d : Holds(q, d)' <=> Holds(q, d)
    <3>1. RequestsSound /\ RequestsSound'
      BY ConversationConstants, RequestsStaySound DEF StateInv
    <3> QED BY <1>2, <3>1 DEF RequestsSound, InPlace, Holds, Running
  <2>2. \A d \in Calls : CallSound(d)'
    BY <1>1, <1>2, <2>1 DEF CallSound
  <2>3. RunsApproved'
    BY <1>1, <1>2 DEF RunsApproved
  <2> QED BY <2>2, <2>3
<1>3. ASSUME NEW p \in Requests, Start(p) \/ Terminate(p) \/ Say(p) \/ Wait(p)
      PROVE  RunsApproved' /\ \A c \in Calls : CallSound(c)'
  <2>1. \A r \in Requests : \/ request'[r] = request[r]
                            \/ request[r].at \notin Running /\ request'[r].at \notin Running
    BY <1>3, OnlyTurnsRun
  <2>2. \/ call' = call
        \/ \E c \in Calls, s \in {"approved", "rejected"} :
             call[c].status = "pending" /\ call' = [call EXCEPT ![c].status = s]
    BY <1>3 DEF Start, Append, Respond, Retry, End, Resolve, Approve, Reject, NotPending,
       MayDecide, Terminate, Say,
       Check, Refused, Guide, Ask, Look, Create, ReadSeq, Insert, Wait, Prepare, Promote,
       InitializeRun, Require, Enter, NotRun, CancelledInQueue
  <2>3. ASSUME NEW c \in Calls, NEW s \in {"approved", "rejected"}, call[c].status = "pending",
               call' = [call EXCEPT ![c].status = s]
        PROVE  RunsApproved' /\ \A d \in Calls : CallSound(d)'
    <3>1. s # "executed" /\ s # "none"
      OBVIOUS
    <3> QED BY <2>1, <2>3, <3>1, ConversationConstants, RequestsStaySound, DecisionsKeepCalls
  <2> QED BY <1>2, <2>1, <2>2, <2>3
<1>4. CASE Crash
  <2>1. call' = Excused(Requests) /\ \A r \in Requests : request'[r] = Idle
    BY <1>4 DEF Crash
  <2> QED BY <2>1, ConversationConstants, GivenUpKeepsCalls
<1>5. CASE UNCHANGED <<call, request>>
  BY <1>2, <1>5
<1> QED
  BY <1>3, <1>4, <1>5, TurnKeepsCalls, ConversationConstants DEF Next, vars, Expire, Cleanup, Poll

-----------------------------------------------------------------------------
(* What was cleaned stays clean, and the theorems.                         *)

LEMMA CleanStaysSound ==
  ASSUME ConversationConstants, StateInv, [Next]_vars
  PROVE  CleanSound'
<1>1. CleanSound /\ TypeOK
  BY DEF StateInv
<1>2. CASE Cleanup
  <2>1. conv.status # "active" /\ conv' = [conv EXCEPT !.cleaned = TRUE, !.late = InFlight # {}]
    BY <1>2 DEF Cleanup, MayClean
  <2>2. conv'.status # "active" /\ (~conv'.late => InFlight = {})
    BY <1>1, <2>1 DEF TypeOK, Conv
  <2>3. ~conv'.late => \A r \in Requests : request'[r].at = "idle"
    BY <1>2, <2>2 DEF Cleanup, InFlight
  <2>4. \A f \in Floors : said'[f] = {} /\ ~floor'[f].text
    BY <1>1, <1>2 DEF Cleanup, TypeOK, Floor
  <2> QED BY <2>2, <2>3, <2>4 DEF CleanSound
<1>3. CASE Expire
  BY <1>1, <1>3 DEF Expire, CleanSound, TypeOK, Conv
<1>4. ASSUME NEW r \in Requests, Terminate(r)
      PROVE  CleanSound'
  <2>1. request[r].at # "idle"
    BY <1>4 DEF Terminate
  <2>2. ~(conv.cleaned /\ ~conv.late)
    BY <1>1, <2>1 DEF CleanSound
  <2>3. conv.status # "active" => conv' = conv
    BY <1>4 DEF Terminate, MayEnd
  <2>4. conv'.cleaned = conv.cleaned /\ conv'.late = conv.late
    BY <1>1, <1>4 DEF Terminate, TypeOK, Conv
  <2> QED BY <1>1, <2>2, <2>3, <2>4 DEF CleanSound
<1>5. ASSUME UNCHANGED conv,
             conv.cleaned /\ ~conv.late => /\ UNCHANGED <<said, request>>
                                           /\ \A f \in Floors : floor'[f].text => floor[f].text
      PROVE  CleanSound'
  BY <1>1, <1>5 DEF CleanSound
<1>6. ASSUME NEW r \in Requests, request[r].at # "idle", UNCHANGED conv
      PROVE  CleanSound'
  BY <1>1, <1>5, <1>6 DEF CleanSound
<1>7. ASSUME NEW r \in Requests, Start(r)
      PROVE  CleanSound'
  <2>1. UNCHANGED conv /\ (Active \/ request[r].at # "idle")
    BY <1>7 DEF Start, Append, Respond, Retry, End, Resolve, Approve, Reject, NotPending,
       Decides, Begins
  <2>2. CASE Active
    <3>1. ~conv.cleaned
      BY <1>1, <2>2 DEF CleanSound, Active
    <3> QED BY <1>5, <2>1, <3>1
  <2> QED BY <1>6, <2>1, <2>2
<1>8. ASSUME NEW r \in Requests, Say(r)
      PROVE  CleanSound'
  <2>1. request[r].at # "idle" /\ UNCHANGED conv
    BY <1>8 DEF Say, Check, Refused, Guide, Ask, Look, Create, ReadSeq, Insert
  <2> QED BY <1>6, <2>1
<1>9. ASSUME NEW r \in Requests, Wait(r) \/ Turn(r)
      PROVE  CleanSound'
  <2>1. request[r].at # "idle" /\ UNCHANGED conv
    BY <1>9 DEF Wait, Prepare, Promote, InitializeRun, Require, Enter, NotRun, CancelledInQueue,
       Turn, Resume, RunTool, Commit, CommitStale, TurnFails, MarkExecuted, Finish
  <2> QED BY <1>6, <2>1
<1>10. CASE Crash
  <2>1. PICK r \in Requests : request[r].at # "idle"
    BY <1>10 DEF Crash, InFlight
  <2> QED BY <1>6, <1>10, <2>1 DEF Crash
<1>11. ASSUME NEW g \in Floors, Poll(g)
       PROVE  CleanSound'
  <2>1. \A f \in Floors : floor'[f].text = floor[f].text
    BY <1>1, <1>11 DEF Poll, Failed, TypeOK, Floor
  <2> QED BY <1>5, <1>11, <2>1 DEF Poll
<1>12. CASE UNCHANGED vars
  BY <1>5, <1>12 DEF vars
<1> QED
  BY <1>2, <1>3, <1>4, <1>7, <1>8, <1>9, <1>10, <1>11, <1>12 DEF Next

\* The inductive invariant.
THEOREM StateInvariant == Spec => []StateInv
<1>1. Init => StateInv
  <2> SUFFICES ASSUME Init PROVE StateInv
    OBVIOUS
  <2>1. TypeOK
    <3>1. Idle \in Request
      BY ConversationConstants DEF Idle, Request, Past, InTurn, Roles
    <3>2. NoFloor \in Floor /\ NoCall \in Call
      BY DEF NoFloor, Floor, NoCall, Call
    <3> QED BY <3>1, <3>2 DEF Init, TypeOK, Conv
  <2>2. FloorsSound /\ OneOpenFloor /\ CleanSound
    BY DEF Init, NoFloor, FloorsSound, OneOpenFloor, CleanSound
  <2>3. RequestsSound /\ PlacesSound /\ TurnsSound /\ OneTurnPerFloor
    BY DEF Init, Idle, RequestsSound, InPlace, PlacesSound, TurnsSound, OneTurnPerFloor, Working,
           Past, InTurn
  <2>4. CallsSound
    BY DEF Init, Idle, NoCall, CallsSound, Holds
  <2> QED BY <2>1, <2>2, <2>3, <2>4 DEF StateInv
<1>2. StateInv /\ [Next]_vars => StateInv'
  <2> SUFFICES ASSUME StateInv, [Next]_vars PROVE StateInv'
    OBVIOUS
  <2>1. TypeOK' /\ FloorsSound' /\ RequestsSound' /\ PlacesSound'
    BY ConversationConstants, TypesKept, FloorsStaySound, RequestsStaySound, PlacesStaySound
    DEF StateInv
  <2>2. TurnsSound' /\ OneTurnPerFloor' /\ OneOpenFloor'
    BY ConversationConstants, TurnsStaySound, OneTurnPerFloorKept, OneOpenFloorKept
  <2>3. CallsSound' /\ CleanSound'
    BY ConversationConstants, CallsStaySound, CleanStaysSound
  <2> QED BY <2>1, <2>2, <2>3 DEF StateInv
<1> QED BY <1>1, <1>2, PTL DEF Spec

\* Every variable keeps its type.
THEOREM TypeCorrect == Spec => []TypeOK
<1>1. StateInv => TypeOK
  BY DEF StateInv
<1> QED BY <1>1, StateInvariant, PTL

\* Requests side by side never leave an unanswered floor below another one
\* (ensureDraftFloor under its awaits).
THEOREM UnansweredFloorIsLast == Spec => []OneOpenFloor
<1>1. StateInv => OneOpenFloor
  BY DEF StateInv
<1> QED BY <1>1, StateInvariant, PTL

\* No two turns work on one floor (promoteDraftFloorToGenerating and the
\* revalidation of a retry under the coordinator).
THEOREM TurnsHaveTheirFloor == Spec => []OneTurnPerFloor
<1>1. StateInv => OneTurnPerFloor
  BY DEF StateInv
<1> QED BY <1>1, StateInvariant, PTL

\* A tool that ran was approved, and a call is approved as long as a turn that
\* resumes it has not marked it (GraphAssistantToolConfirmationService.transition,
\* findResumable under the one task per branch).
THEOREM DecisionsHold == Spec => []DecisionStands
<1>1. StateInv => DecisionStands
  <2> SUFFICES ASSUME StateInv PROVE DecisionStands
    OBVIOUS
  <2>1. RunsApproved /\ \A c \in Calls : call[c] \in Call /\ CallSound(c)
    BY CallsSoundSplit DEF StateInv, TypeOK
  <2>2. ASSUME NEW c \in Calls, call[c].runs > 0
        PROVE  call[c].status \in {"approved", "executed"}
    BY <2>1, <2>2 DEF Call, CallSound
  <2>3. ASSUME NEW r \in Requests, request[r].at \in Running, request[r].call # 0
        PROVE  Resumable(request[r].call)
    BY <2>1, <2>3 DEF RunsApproved, Resumable
  <2> QED BY <2>2, <2>3 DEF DecisionStands, Running
<1> QED BY <1>1, StateInvariant, PTL

\* An approved call runs once, and again only for a turn that ran it and ended
\* before markExecuted (findResumable, markExecuted, the one task per branch).
THEOREM ApprovedCallsRunOnce == Spec => []RunsOnce
<1>1. StateInv => RunsOnce
  <2> SUFFICES ASSUME StateInv, NEW c \in Calls
               PROVE  call[c].runs <= 1 + call[c].excused
    BY DEF RunsOnce
  <2>1. call[c] \in Call /\ CallSound(c)
    BY CallsSoundSplit DEF StateInv, TypeOK
  <2>2. call[c].runs \in {0, call[c].excused, call[c].excused + 1}
    BY <2>1 DEF Call, CallSound
  <2> QED BY <2>1, <2>2 DEF Call
<1> QED BY <1>1, StateInvariant, PTL

\* Bodies that were deleted with no request in flight stay deleted
\* (cleanupEligible).
THEOREM CleanedIsForGood == Spec => []CleanedStaysClean
<1>1. StateInv => CleanedStaysClean
  BY DEF StateInv, CleanSound, CleanedStaysClean
<1> QED BY <1>1, StateInvariant, PTL

\* No request and no expiry replaces the way a conversation ended
\* (transitionTerminal, expireIfNeeded).
THEOREM EndingsAreFinal == Spec => EndIsFinal
<1>1. StateInv /\ [Next]_vars => [conv.status # "active" => conv'.status = conv.status]_vars
  <2> SUFFICES ASSUME StateInv, [Next]_vars, conv.status # "active"
               PROVE  conv'.status = conv.status
    OBVIOUS
  <2>1. conv \in Conv
    BY DEF StateInv, TypeOK
  <2>2. CASE Cleanup
    BY <2>1, <2>2 DEF Cleanup, Conv
  <2>3. ASSUME NEW r \in Requests, Terminate(r)
        PROVE  conv' = conv
    BY <2>3 DEF Terminate, MayEnd
  <2>4. ASSUME NEW r \in Requests, Start(r) \/ Say(r)
        PROVE  conv' = conv
    BY <2>4 DEF Start, Append, Respond, Retry, End, Resolve, Approve, Reject, NotPending,
       Say, Check, Refused, Guide,
                Ask, Look, Create, ReadSeq, Insert
  <2>5. ASSUME NEW r \in Requests, Wait(r) \/ Turn(r)
        PROVE  conv' = conv
    BY <2>5 DEF Wait, Prepare, Promote, InitializeRun, Require, Enter, NotRun, CancelledInQueue,
       Turn, Resume, RunTool, Commit, CommitStale, TurnFails, MarkExecuted, Finish
  <2> QED BY <2>2, <2>3, <2>4, <2>5 DEF Next, vars, Expire, Crash, Poll
<1> QED BY <1>1, StateInvariant, PTL DEF Spec, EndIsFinal

\* Once a conversation has ended no request joins those in flight, and when they
\* are done nothing is said, answered, decided or run (requireActive).
THEOREM EndedConversationsAreQuiet == Spec => QuietAfterEnd
<1> DEFINE Quiet == /\ call' = call
                    /\ \A f \in Floors : /\ said'[f] \subseteq said[f]
                                         /\ floor'[f].text => floor[f].text
                                         /\ floor'[f].answered = floor[f].answered
<1>1. StateInv /\ [Next]_vars
        => [conv.status # "active" => /\ InFlight' \subseteq InFlight
                                      /\ InFlight = {} => Quiet]_vars
  <2> SUFFICES ASSUME StateInv, [Next]_vars, conv.status # "active"
               PROVE  InFlight' \subseteq InFlight /\ (InFlight = {} => Quiet)
    OBVIOUS
  <2>1. floor \in [Floors -> Floor] /\ request \in [Requests -> Request]
    BY DEF StateInv, TypeOK
  <2>2. ASSUME NEW r \in Requests, Start(r) \/ Terminate(r) \/ Say(r)
        PROVE  request[r].at # "idle" /\ \E new : Becomes(r, new)
    <3>1. CASE Start(r)
      BY <3>1 DEF Start, Append, Respond, Retry, End, Resolve, Approve, Reject, NotPending,
         Decides, Begins, Active, Ends
    <3>2. CASE Terminate(r) \/ Say(r)
      BY <3>2 DEF Terminate, Say, Check, Refused, Guide, Ask, Look, Create, ReadSeq, Insert,
         Goes, Ends
    <3> QED BY <2>2, <3>1, <3>2
  <2>3. ASSUME NEW r \in Requests, Wait(r) \/ Turn(r)
        PROVE  request[r].at # "idle" /\ \E new : Becomes(r, new)
    <3>1. CASE Wait(r)
      BY <3>1 DEF Wait, Prepare, Promote, InitializeRun, Require, Enter, NotRun, CancelledInQueue,
         Goes, Ends
    <3>2. CASE Turn(r)
      BY <3>2 DEF Turn, Resume, RunTool, Commit, CommitStale, TurnFails, MarkExecuted, Finish, Ends
    <3> QED BY <2>3, <3>1, <3>2
  <2>4. ASSUME NEW r \in Requests, request[r].at # "idle", \E new : Becomes(r, new)
        PROVE  InFlight' \subseteq InFlight /\ InFlight # {}
    BY <2>1, <2>4 DEF Becomes, InFlight
  <2>5. CASE Cleanup
    BY <2>1, <2>5 DEF Cleanup, Floor, InFlight
  <2>6. ASSUME NEW g \in Floors, Poll(g)
        PROVE  Quiet /\ UNCHANGED request
    <3>1. \A f \in Floors : /\ floor'[f].text = floor[f].text
                            /\ floor'[f].answered = floor[f].answered
      BY <2>1, <2>6 DEF Poll, Failed, Floor
    <3> QED BY <2>6, <3>1 DEF Poll
  <2>7. CASE Crash
    BY <2>7 DEF Crash, Idle, InFlight
  <2>8. CASE UNCHANGED <<floor, said, call, request>>
    BY <2>8 DEF InFlight
  <2> HIDE DEF Quiet
  <2>9. UNCHANGED request => InFlight' = InFlight
    BY DEF InFlight
  <2> QED BY <2>2, <2>3, <2>4, <2>5, <2>6, <2>7, <2>8, <2>9 DEF Next, vars, Expire
<1> QED BY <1>1, StateInvariant, PTL DEF Spec, QuietAfterEnd
=============================================================================
