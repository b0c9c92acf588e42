-------------------- MODULE GenerationCoordinatorProofs ---------------------
(* Proofs about GenerationCoordinator, for any number of calls and keys.   *)
EXTENDS GenerationCoordinator, SequenceTheorems, TLAPS

Distinct(q) == \A i, j \in DOMAIN q : q[i] = q[j] => i = j
Members(q)  == {q[i] : i \in DOMAIN q}

(* What queue.push does to the members of a queue.                         *)
LEMMA JoinedFacts ==
  ASSUME NEW q \in Seq(Requests), NEW r \in Requests, Distinct(q), r \notin Members(q)
  PROVE  /\ Joined(q, r) \in Seq(Requests)
         /\ Distinct(Joined(q, r))
         /\ Members(Joined(q, r)) = Members(q) \cup {r}
         /\ Joined(q, r) # <<>>
         /\ DOMAIN Joined(q, r) = 1 .. Len(q) + 1
         /\ \A i \in DOMAIN q : Joined(q, r)[i] = q[i]
         /\ Joined(q, r)[Len(q) + 1] = r
  BY AppendProperties DEF Joined, Distinct, Members

(* What indexOf and splice do: the call is taken out, the order is kept.   *)
LEMMA WithoutFacts ==
  ASSUME NEW q \in Seq(Requests), NEW r \in Requests, Distinct(q)
  PROVE  /\ Without(q, r) \in Seq(Requests)
         /\ Distinct(Without(q, r))
         /\ Members(Without(q, r)) = Members(q) \ {r}
         /\ \A i, j \in DOMAIN Without(q, r) : i < j =>
              \E m, n \in DOMAIN q : m < n /\ Without(q, r)[i] = q[m] /\ Without(q, r)[j] = q[n]
  <1>1. CASE ~ \E i \in DOMAIN q : q[i] = r
    <2>1. Without(q, r) = q
      BY <1>1 DEF Without
    <2>2. Members(q) = Members(q) \ {r}
      BY <1>1 DEF Members
    <2>3. QED BY <2>1, <2>2
  <1>2. CASE \E i \in DOMAIN q : q[i] = r
    <2> DEFINE at == CHOOSE i \in DOMAIN q : q[i] = r
               w == RemoveAt(q, at)
               from(i) == IF i < at THEN i ELSE i + 1
    <2>1. at \in 1 .. Len(q) /\ q[at] = r
      BY <1>2
    <2>2. Without(q, r) = w
      BY <1>2 DEF Without
    <2> HIDE DEF at
    <2>3. /\ SubSeq(q, 1, at - 1) \in Seq(Requests)
          /\ Len(SubSeq(q, 1, at - 1)) = at - 1
          /\ \A i \in 1 .. at - 1 : SubSeq(q, 1, at - 1)[i] = q[i]
      BY <2>1, SubSeqProperties
    <2>4. /\ SubSeq(q, at + 1, Len(q)) \in Seq(Requests)
          /\ Len(SubSeq(q, at + 1, Len(q))) = Len(q) - at
          /\ \A i \in 1 .. Len(q) - at : SubSeq(q, at + 1, Len(q))[i] = q[at + i]
      BY <2>1, SubSeqProperties
    <2>5. /\ w \in Seq(Requests)
          /\ Len(w) = Len(q) - 1
          /\ \A i \in 1 .. Len(w) : w[i] = q[from(i)]
      <3> DEFINE a == SubSeq(q, 1, at - 1)
                 b == SubSeq(q, at + 1, Len(q))
      <3> HIDE DEF a, b
      <3>1. /\ a \in Seq(Requests) /\ Len(a) = at - 1
            /\ \A i \in 1 .. at - 1 : a[i] = q[i]
        BY <2>3 DEF a
      <3>2. /\ b \in Seq(Requests) /\ Len(b) = Len(q) - at
            /\ \A i \in 1 .. Len(q) - at : b[i] = q[at + i]
        BY <2>4 DEF b
      <3>3. w = a \o b
        BY DEF RemoveAt, a, b
      <3> HIDE DEF w
      <3>4. /\ w \in Seq(Requests) /\ Len(w) = Len(a) + Len(b)
            /\ \A i \in 1 .. Len(a) + Len(b) :
                 w[i] = IF i <= Len(a) THEN a[i] ELSE b[i - Len(a)]
        BY <3>1, <3>2, <3>3, ConcatProperties
      <3>5. Len(w) = Len(q) - 1
        BY <3>1, <3>2, <3>4, <2>1
      <3>6. ASSUME NEW i \in 1 .. Len(w) PROVE w[i] = q[from(i)]
        <4>1. CASE i < at
          BY <4>1, <3>1, <3>2, <3>4, <3>5, <2>1
        <4>2. CASE i >= at
          <5>1. w[i] = b[i - (at - 1)] /\ i - (at - 1) \in 1 .. Len(q) - at
            BY <4>2, <3>1, <3>2, <3>4, <3>5, <2>1
          <5>2. b[i - (at - 1)] = q[at + (i - (at - 1))] /\ at + (i - (at - 1)) = i + 1
            BY <5>1, <3>2, <2>1
          <5>3. QED BY <5>1, <5>2, <4>2, <2>1
        <4>3. QED BY <4>1, <4>2, <2>1
      <3>7. QED BY <3>4, <3>5, <3>6
    <2>6. DOMAIN w = 1 .. Len(q) - 1 /\ DOMAIN q = 1 .. Len(q)
      BY <2>5
    <2>7. \A i \in DOMAIN w : from(i) \in DOMAIN q /\ from(i) # at
      BY <2>1, <2>6
    <2>8. \A i, j \in DOMAIN w : i < j => from(i) < from(j)
      BY <2>1, <2>6
    <2>9. \A n \in DOMAIN q : n # at => \E i \in DOMAIN w : from(i) = n
      <3> TAKE n \in DOMAIN q
      <3>1. CASE n < at
        <4>1. n \in DOMAIN w /\ from(n) = n
          BY <3>1, <2>1, <2>6
        <4>2. QED BY <4>1
      <3>2. CASE n > at
        <4>1. n - 1 \in DOMAIN w /\ from(n - 1) = n
          BY <3>2, <2>1, <2>6
        <4>2. QED BY <4>1
      <3>3. n < at \/ n = at \/ n > at
        BY <2>1, <2>6
      <3>4. QED BY <3>1, <3>2, <3>3
    <2> HIDE DEF from, w
    <2>10. Distinct(w)
      <3> SUFFICES ASSUME NEW i \in DOMAIN w, NEW j \in DOMAIN w, w[i] = w[j] PROVE i = j
        BY DEF Distinct
      <3>1. from(i) = from(j)
        BY <2>5, <2>6, <2>7 DEF Distinct
      <3>2. QED BY <3>1, <2>6, <2>8, <2>7
    <2>11. Members(w) = Members(q) \ {r}
      BY <2>1, <2>5, <2>6, <2>7, <2>9 DEF Members, Distinct
    <2>12. \A i, j \in DOMAIN w : i < j =>
             \E m, n \in DOMAIN q : m < n /\ w[i] = q[m] /\ w[j] = q[n]
      BY <2>5, <2>6, <2>7, <2>8
    <2>13. QED BY <2>2, <2>5, <2>10, <2>11, <2>12
  <1>3. QED BY <1>1, <1>2

(* What release leaves of a queue whose first n entries it shifted out.    *)
LEMMA RestFacts ==
  ASSUME NEW q \in Seq(Requests), NEW n \in 1 .. Len(q) + 1, Distinct(q)
  PROVE  LET rest == SubSeq(q, n + 1, Len(q))
         IN  /\ rest \in Seq(Requests)
             /\ DOMAIN rest = 1 .. (IF n <= Len(q) THEN Len(q) - n ELSE 0)
             /\ \A i \in DOMAIN rest : rest[i] = q[n + i]
             /\ Distinct(rest)
             /\ Members(rest) = {q[i] : i \in n + 1 .. Len(q)}
             /\ rest # <<>> => n <= Len(q)
  <1> DEFINE rest == SubSeq(q, n + 1, Len(q))
  <1>1. /\ rest \in Seq(Requests)
        /\ Len(rest) = IF n + 1 <= Len(q) THEN Len(q) - (n + 1) + 1 ELSE 0
        /\ \A i \in 1 .. Len(q) - (n + 1) + 1 : rest[i] = q[n + 1 + i - 1]
    BY SubSeqProperties
  <1>2. DOMAIN rest = 1 .. Len(rest) /\ DOMAIN q = 1 .. Len(q)
    BY <1>1
  <1> HIDE DEF rest
  <1>3. DOMAIN rest = 1 .. (IF n <= Len(q) THEN Len(q) - n ELSE 0)
    <2>1. Len(q) \in Nat
      OBVIOUS
    <2>2. Len(rest) = IF n <= Len(q) THEN Len(q) - n ELSE 0
      BY <2>1, <1>1
    <2>3. QED BY <2>2, <1>2
  <1>4. \A i \in DOMAIN rest : n + i \in n + 1 .. Len(q) /\ rest[i] = q[n + i]
    BY <1>1, <1>3
  <1>5. Distinct(rest)
    BY <1>2, <1>3, <1>4 DEF Distinct
  <1>6. Members(rest) = {q[i] : i \in n + 1 .. Len(q)}
    <2>1. \A i \in n + 1 .. Len(q) : i - n \in DOMAIN rest /\ rest[i - n] = q[i]
      BY <1>3, <1>4
    <2>2. QED BY <2>1, <1>4 DEF Members
  <1>7. rest # <<>> => n <= Len(q)
    <2>1. Len(rest) = 0 => rest = <<>>
      BY <1>1, EmptySeq
    <2>2. QED BY <2>1, <1>1
  <1>8. QED BY <1>1, <1>3, <1>4, <1>5, <1>6, <1>7 DEF rest

-----------------------------------------------------------------------------
(* The inductive invariant: the queue of a key lists exactly the calls     *)
(* that wait for it, in the order in which they came, behind a running     *)
(* task.                                                                   *)
Fresh     == \A r \in Requests : r \notin called => task[r] = "idle" /\ answer[r] = "none"
Line(k)   == /\ Distinct(queue[k])
             /\ Members(queue[k]) = {r \in Requests : Waiting(r) /\ KeyOf[r] = k}
InOrder(k) == \A i, j \in DOMAIN queue[k] : i < j => queue[k][j] \notin ahead[queue[k][i]]
Taken     == \A k \in Keys : active[k] <=> \E r \in Requests : KeyOf[r] = k /\ task[r] = "running"
HandOver  == \A k \in Keys : queue[k] # <<>> => active[k]

Inv ==
  /\ TypeOK
  /\ Fresh
  /\ \A k \in Keys : Line(k) /\ InOrder(k)
  /\ \A r \in Requests : ahead[r] \subseteq called
  /\ Taken
  /\ HandOver
  /\ OneTaskPerKey
  /\ ToldNoMeansNo
  /\ NothingLeaks

(* A queue is empty exactly when nobody waits.                             *)
LEMMA EmptyLine ==
  ASSUME Inv, NEW k \in Keys
  PROVE  /\ queue[k] \in Seq(Requests)
         /\ queue[k] = <<>> <=> ~ \E r \in Requests : Waiting(r) /\ KeyOf[r] = k
  <1>1. queue[k] \in Seq(Requests)
    BY DEF Inv, TypeOK
  <1>2. queue[k] = <<>> <=> Members(queue[k]) = {}
    <2>1. queue[k] # <<>> => Len(queue[k]) \in Nat \ {0}
      BY <1>1, EmptySeq
    <2>2. queue[k] # <<>> => 1 \in DOMAIN queue[k]
      BY <2>1, <1>1
    <2>3. queue[k] = <<>> => DOMAIN queue[k] = {}
      BY EmptySeq
    <2>4. QED BY <2>2, <2>3 DEF Members
  <1>3. QED BY <1>1, <1>2 DEF Inv, Line

(* Initially nothing waits and nothing runs.                               *)
LEMMA InitInv == Init => Inv
  <1> SUFFICES ASSUME Init PROVE Inv
    OBVIOUS
  <1>1. TypeOK
    BY EmptySeq DEF Init, TypeOK, Answers
  <1>2. \A k \in Keys : Line(k) /\ InOrder(k)
    BY DEF Init, Line, InOrder, Distinct, Members, Waiting
  <1>3. QED
    BY <1>1, <1>2 DEF Init, Inv, Fresh, Taken, HandOver, OneTaskPerKey, ToldNoMeansNo,
                      NothingLeaks

(* A step that touches neither a key nor an alarm, and answers only calls  *)
(* that never began to wait.                                               *)
LEMMA AnsweredAtOnce ==
  ASSUME Inv, NEW r \in Requests, Refuse(r) \/ Conflict(r)
  PROVE  Inv'
  <1>1. /\ r \notin called /\ task[r] = "idle" /\ answer[r] = "none"
        /\ called' = called \cup {r}
        /\ UNCHANGED <<active, queue, alarms, aborted, task, ahead>>
        /\ \E how \in {"cancelled", "conflict"} : answer' = [answer EXCEPT ![r] = how]
    BY DEF Inv, Fresh, Refuse, Conflict, guards
  <1>2. entries' = entries
    <2>1. CASE Refuse(r)
      BY <2>1 DEF Refuse, guards
    <2>2. CASE Conflict(r)
      <3>1. KeyOf[r] \in entries
        BY <2>2, CoordinatorAssumption DEF Conflict, Inv, NothingLeaks, Busy
      <3>2. QED BY <2>2, <3>1 DEF Conflict
    <2>3. QED BY <2>1, <2>2
  <1>3. TypeOK'
    BY <1>1, <1>2 DEF Inv, TypeOK, Answers, alarms
  <1>4. \A p \in Requests : Waiting(p)' <=> Waiting(p)
    BY <1>1 DEF Waiting, Inv, TypeOK
  <1>5. \A k \in Keys : Line(k)' /\ InOrder(k)'
    BY <1>1, <1>4 DEF Inv, Line, InOrder, Members, Distinct
  <1>6. Fresh'
    BY <1>1 DEF Inv, Fresh, TypeOK
  <1>7. (\A p \in Requests : ahead[p] \subseteq called)'
    BY <1>1 DEF Inv
  <1>8. Taken' /\ HandOver' /\ OneTaskPerKey'
    BY <1>1 DEF Inv, Taken, HandOver, OneTaskPerKey
  <1>9. ToldNoMeansNo'
    BY <1>1 DEF Inv, ToldNoMeansNo, TypeOK
  <1>10. NothingLeaks'
    BY <1>1, <1>2, <1>4 DEF Inv, NothingLeaks, alarms, TypeOK
  <1>11. QED
    BY <1>3, <1>5, <1>6, <1>7, <1>8, <1>9, <1>10 DEF Inv

(* An idle key is taken by a call that finds nobody before it.             *)
LEMMA StartNowInv ==
  ASSUME Inv, NEW r \in Requests, StartNow(r)
  PROVE  Inv'
  <1> DEFINE k == KeyOf[r]
  <1>1. /\ k \in Keys
        /\ r \notin called /\ task[r] = "idle" /\ answer[r] = "none"
        /\ ~active[k] /\ queue[k] = <<>>
    BY CoordinatorAssumption DEF Inv, Fresh, StartNow, Busy
  <1>2. /\ called' = called \cup {r}
        /\ entries' = entries \cup {k}
        /\ active' = [active EXCEPT ![k] = TRUE]
        /\ task' = [task EXCEPT ![r] = "running"]
        /\ UNCHANGED <<queue, cancelled, timers, listening, aborted, answer, ahead>>
    BY DEF StartNow, alarms
  <1> HIDE DEF k
  <1>3. TypeOK'
    BY <1>1, <1>2 DEF Inv, TypeOK
  <1>4. \A p \in Requests : Waiting(p)' <=> Waiting(p)
    BY <1>1, <1>2 DEF Waiting, Inv, TypeOK
  <1>5. \A h \in Keys : Line(h)' /\ InOrder(h)'
    BY <1>2, <1>4 DEF Inv, Line, InOrder, Members, Distinct
  <1>6. Fresh'
    BY <1>2 DEF Inv, Fresh, TypeOK
  <1>7. (\A p \in Requests : ahead[p] \subseteq called)'
    BY <1>2 DEF Inv
  <1>8. Taken'
    <2>1. \A p \in Requests : p # r => task'[p] = task[p]
      BY <1>2 DEF Inv, TypeOK
    <2>2. task'[r] = "running" /\ active'[k] = TRUE /\ KeyOf[r] = k
      BY <1>1, <1>2 DEF Inv, TypeOK, k
    <2>3. \A h \in Keys : h # k => active'[h] = active[h]
      BY <1>2 DEF Inv, TypeOK
    <2>4. QED BY <2>1, <2>2, <2>3 DEF Inv, Taken
  <1>9. HandOver'
    BY <1>1, <1>2 DEF Inv, HandOver, TypeOK
  <1>10. OneTaskPerKey'
    <2>1. \A p \in Requests : KeyOf[p] = k => task[p] # "running"
      BY <1>1 DEF Inv, Taken
    <2>2. QED BY <2>1, <1>1, <1>2 DEF Inv, OneTaskPerKey, TypeOK, k
  <1>11. ToldNoMeansNo'
    BY <1>1, <1>2 DEF Inv, ToldNoMeansNo, TypeOK
  <1>12. NothingLeaks'
    BY <1>1, <1>2, <1>4 DEF Inv, NothingLeaks, TypeOK
  <1>13. QED
    BY <1>3, <1>5, <1>6, <1>7, <1>8, <1>9, <1>10, <1>11, <1>12 DEF Inv

(* A call that has to wait goes to the end of the queue of a busy key.     *)
LEMMA EnqueueInv ==
  ASSUME Inv, NEW r \in Requests, Enqueue(r)
  PROVE  Inv'
  <1> DEFINE k == KeyOf[r]
             q == queue[k]
  <1>1. /\ k \in Keys
        /\ r \notin called /\ task[r] = "idle" /\ answer[r] = "none"
        /\ q \in Seq(Requests) /\ Distinct(q) /\ r \notin Members(q)
    BY CoordinatorAssumption DEF Inv, Fresh, Enqueue, Line, TypeOK, Waiting
  <1>2. active[k]
    BY <1>1 DEF Enqueue, Busy, Inv, HandOver
  <1>3. /\ called' = called \cup {r}
        /\ entries' = entries \cup {k}
        /\ queue' = [queue EXCEPT ![k] = Joined(q, r)]
        /\ timers' = timers \cup {r}
        /\ listening' = listening \cup {r}
        /\ ahead' = [ahead EXCEPT ![r] = {p \in Requests : Waiting(p) /\ KeyOf[p] = k}]
        /\ UNCHANGED <<active, cancelled, aborted, task, answer>>
    BY DEF Enqueue
  <1>4. /\ Joined(q, r) \in Seq(Requests)
        /\ Distinct(Joined(q, r))
        /\ Members(Joined(q, r)) = Members(q) \cup {r}
        /\ Joined(q, r) # <<>>
        /\ DOMAIN Joined(q, r) = 1 .. Len(q) + 1
        /\ \A i \in DOMAIN q : Joined(q, r)[i] = q[i]
        /\ Joined(q, r)[Len(q) + 1] = r
    BY <1>1, JoinedFacts
  <1>5. /\ queue'[k] = Joined(q, r)
        /\ \A h \in Keys : h # k => queue'[h] = queue[h]
    BY <1>1, <1>3 DEF Inv, TypeOK
  <1>6. \A p \in Requests : Waiting(p)' <=> Waiting(p) \/ p = r
    BY <1>1, <1>3 DEF Waiting
  <1>7. KeyOf[r] = k /\ ~Waiting(r)
    BY <1>1 DEF Waiting
  <1>8. \A h \in Keys : Members(queue[h]) = {p \in Requests : Waiting(p) /\ KeyOf[p] = h}
    BY DEF Inv, Line
  <1>9. DOMAIN q = 1 .. Len(q) /\ Len(q) \in Nat /\ Members(q) \subseteq called /\ q = queue[k]
    BY <1>1, <1>8 DEF Waiting
  <1>10. \A p \in Requests : p # r => ahead'[p] = ahead[p]
    BY <1>3 DEF Inv, TypeOK
  <1> HIDE DEF k, q
  <1>11. TypeOK'
    BY <1>1, <1>3, <1>4 DEF Inv, TypeOK
  <1>12. ASSUME NEW h \in Keys PROVE Line(h)' /\ InOrder(h)'
    <2>1. CASE h # k
      <3>1. Line(h)'
        BY <2>1, <1>5, <1>6, <1>7 DEF Line, Inv
      <3>2. \A i \in DOMAIN queue[h] : queue[h][i] \in Requests /\ queue[h][i] # r
        BY <1>8, <1>7 DEF Members
      <3>3. InOrder(h)'
        BY <2>1, <1>5, <1>10, <3>2 DEF InOrder, Inv
      <3>4. QED BY <3>1, <3>3
    <2>2. CASE h = k
      <3>1. Line(h)'
        BY <2>2, <1>4, <1>5, <1>6, <1>7, <1>8, <1>9 DEF Line
      <3>2. ASSUME NEW i \in 1 .. Len(q) + 1, NEW j \in 1 .. Len(q) + 1, i < j
            PROVE  Joined(q, r)[j] \notin ahead'[Joined(q, r)[i]]
        <4>1. i \in DOMAIN q /\ Joined(q, r)[i] = q[i]
          BY <3>2, <1>4, <1>9
        <4>2. q[i] \in Members(q) /\ q[i] \in Requests /\ q[i] # r
          BY <4>1, <1>1 DEF Members
        <4>3. ahead'[q[i]] = ahead[q[i]] /\ ahead[q[i]] \subseteq called
          BY <4>2, <1>10 DEF Inv
        <4>4. CASE j = Len(q) + 1
          BY <4>1, <4>3, <4>4, <1>1, <1>4
        <4>5. CASE j # Len(q) + 1
          <5>1. j \in DOMAIN q /\ Joined(q, r)[j] = q[j]
            BY <4>5, <1>4, <1>9
          <5>2. q[j] \notin ahead[q[i]]
            BY <5>1, <4>1, <3>2, <1>1, <1>9 DEF Inv, InOrder
          <5>3. QED BY <5>1, <5>2, <4>1, <4>3
        <4>6. QED BY <4>4, <4>5
      <3>3. InOrder(h)'
        BY <2>2, <3>2, <1>4, <1>5 DEF InOrder
      <3>4. QED BY <3>1, <3>3
    <2>3. QED BY <2>1, <2>2
  <1>13. Fresh'
    BY <1>3 DEF Inv, Fresh
  <1>14. (\A p \in Requests : ahead[p] \subseteq called)'
    <2>1. ahead'[r] \subseteq called
      BY <1>3 DEF Inv, TypeOK, Waiting
    <2>2. QED BY <2>1, <1>10, <1>3 DEF Inv
  <1>15. Taken' /\ OneTaskPerKey' /\ ToldNoMeansNo'
    BY <1>3 DEF Inv, Taken, OneTaskPerKey, ToldNoMeansNo
  <1>16. HandOver'
    BY <1>2, <1>3, <1>5 DEF Inv, HandOver
  <1>17. NothingLeaks'
    <2>1. entries' = entries
      BY <1>1, <1>2, <1>3 DEF Inv, NothingLeaks
    <2>2. \A h \in Keys : active'[h] \/ queue'[h] # <<>> <=> active[h] \/ queue[h] # <<>>
      BY <1>2, <1>3, <1>5
    <2>3. \A p \in timers' \cup listening' : Waiting(p)'
      BY <1>3, <1>6 DEF Inv, NothingLeaks, TypeOK
    <2>4. QED BY <2>1, <2>2, <2>3 DEF Inv, NothingLeaks
  <1>18. QED
    BY <1>11, <1>12, <1>13, <1>14, <1>15, <1>16, <1>17 DEF Inv

(* A waiting call is withdrawn: it leaves the queue and takes its timer    *)
(* and its listener with it.                                               *)
LEMMA WithdrawInv ==
  ASSUME Inv, NEW r \in Requests, NEW how \in {"cancelled", "timeout"},
         r \in timers \cup listening, Withdraw(r, how), aborted' \subseteq Requests
  PROVE  Inv'
  <1> DEFINE k == KeyOf[r]
             q == queue[k]
             w == Without(q, r)
  <1>1. /\ k \in Keys /\ Waiting(r) /\ r \in called /\ task[r] = "idle" /\ answer[r] = "none"
        /\ q \in Seq(Requests) /\ Distinct(q) /\ r \in Members(q)
    BY CoordinatorAssumption DEF Inv, NothingLeaks, Line, TypeOK, Waiting
  <1>2. q # <<>> /\ active[k]
    BY <1>1, EmptyLine DEF Inv, HandOver
  <1>3. /\ cancelled' = cancelled \cup {r}
        /\ queue' = [queue EXCEPT ![k] = w]
        /\ timers' = timers \ {r}
        /\ listening' = listening \ {r}
        /\ entries' = Cleaned(entries, k, active[k], w)
        /\ answer' = [answer EXCEPT ![r] = how]
        /\ UNCHANGED <<active, called, task, ahead>>
    BY <1>1 DEF Withdraw, Settled
  <1>4. entries' = entries
    BY <1>2, <1>3 DEF Cleaned
  <1>5. /\ w \in Seq(Requests)
        /\ Distinct(w)
        /\ Members(w) = Members(q) \ {r}
        /\ \A i, j \in DOMAIN w : i < j =>
             \E m, n \in DOMAIN q : m < n /\ w[i] = q[m] /\ w[j] = q[n]
    BY <1>1, WithoutFacts
  <1>6. /\ queue'[k] = w
        /\ \A h \in Keys : h # k => queue'[h] = queue[h]
    BY <1>1, <1>3 DEF Inv, TypeOK
  <1>7. \A p \in Requests : Waiting(p)' <=> Waiting(p) /\ p # r
    BY <1>1, <1>3 DEF Waiting, Inv, TypeOK
  <1>8. \A h \in Keys : Members(queue[h]) = {p \in Requests : Waiting(p) /\ KeyOf[p] = h}
    BY DEF Inv, Line
  <1>9. KeyOf[r] = k /\ q = queue[k]
    OBVIOUS
  <1> HIDE DEF k, q, w
  <1>10. TypeOK'
    BY <1>3, <1>4, <1>5 DEF Inv, TypeOK, Answers
  <1>11. ASSUME NEW h \in Keys PROVE Line(h)' /\ InOrder(h)'
    <2>1. CASE h # k
      BY <2>1, <1>3, <1>6, <1>7, <1>9 DEF Inv, Line, InOrder
    <2>2. CASE h = k
      <3>1. Line(h)'
        BY <2>2, <1>5, <1>6, <1>7, <1>8, <1>9 DEF Line
      <3>2. InOrder(h)'
        BY <2>2, <1>3, <1>5, <1>6, <1>9 DEF Inv, InOrder
      <3>3. QED BY <3>1, <3>2
    <2>3. QED BY <2>1, <2>2
  <1>12. Fresh'
    BY <1>1, <1>3 DEF Inv, Fresh, TypeOK
  <1>13. (\A p \in Requests : ahead[p] \subseteq called)' /\ Taken' /\ OneTaskPerKey'
    BY <1>3 DEF Inv, Taken, OneTaskPerKey
  <1>14. HandOver'
    BY <1>2, <1>3, <1>6 DEF Inv, HandOver
  <1>15. ToldNoMeansNo'
    BY <1>1, <1>3 DEF Inv, ToldNoMeansNo, TypeOK
  <1>16. NothingLeaks'
    <2>1. \A h \in Keys : active'[h] \/ queue'[h] # <<>> <=> active[h] \/ queue[h] # <<>>
      BY <1>2, <1>3, <1>6
    <2>2. \A p \in timers' \cup listening' : Waiting(p)'
      BY <1>3, <1>7 DEF Inv, NothingLeaks, TypeOK
    <2>3. QED BY <1>4, <2>1, <2>2 DEF Inv, NothingLeaks
  <1>17. QED
    BY <1>10, <1>11, <1>12, <1>13, <1>14, <1>15, <1>16 DEF Inv

(* What a release does: it shifts entries 1..n out of the queue, answers   *)
(* those before n, starts the n-th, and keeps the others waiting.          *)
LEMMA ReleaseFacts ==
  ASSUME NEW q \in Seq(Requests), Distinct(q), NEW n \in 1 .. Len(q) + 1
  PROVE  LET shifted == {q[i] : i \in DOMAIN q \cap (1 .. n)}
             dropped == {q[i] : i \in 1 .. n - 1}
         IN  /\ dropped \subseteq shifted
             /\ shifted \subseteq Members(q)
             /\ n <= Len(q) => shifted \ dropped = {q[n]}
             /\ n > Len(q) => shifted \ dropped = {} /\ shifted = Members(q)
             /\ {q[i] : i \in n + 1 .. Len(q)} = Members(q) \ shifted
  <1>1. DOMAIN q = 1 .. Len(q) /\ Len(q) \in Nat /\ n \in Nat
    OBVIOUS
  <1>2. n <= Len(q) => n \notin 1 .. n - 1 /\ n \in DOMAIN q
    BY <1>1
  <1>3. \A i \in 1 .. n - 1 : i \in DOMAIN q /\ i \in 1 .. n
    BY <1>1
  <1>4. \A i \in DOMAIN q \cap (1 .. n) : i \in 1 .. n - 1 \/ i = n
    BY <1>1
  <1>5. \A i \in n + 1 .. Len(q) : i \in DOMAIN q /\ i \notin 1 .. n
    BY <1>1
  <1>6. \A i \in DOMAIN q : i \in 1 .. n \/ i \in n + 1 .. Len(q)
    BY <1>1
  <1>7. n > Len(q) => \A i \in DOMAIN q : i \in 1 .. n /\ i # n
    BY <1>1
  <1>8. QED BY <1>2, <1>3, <1>4, <1>5, <1>6, <1>7 DEF Distinct, Members

(* The end of a task hands its key over to the first call that still wants *)
(* it, or frees it.                                                        *)
LEMMA TaskEndsInv ==
  ASSUME Inv, NEW r \in Requests, TaskEnds(r)
  PROVE  Inv'
  <1> DEFINE k == KeyOf[r]
             q == queue[k]
  <1>1. PICK n \in 1 .. Len(q) + 1 :
          LET shifted == {q[i] : i \in DOMAIN q \cap (1 .. n)}
              dropped == {q[i] : i \in 1 .. n - 1}
          IN  /\ queue' = [queue EXCEPT ![k] = SubSeq(q, n + 1, Len(q))]
              /\ active' = [active EXCEPT ![k] = StaysActive(n, q)]
              /\ entries' = Cleaned(entries, k, StaysActive(n, q), SubSeq(q, n + 1, Len(q)))
              /\ timers' = Disarmed(timers, shifted)
              /\ listening' = Disarmed(listening, shifted)
              /\ cancelled' = cancelled \cup dropped
              /\ task' = [p \in Requests |-> CASE p = r -> "ended"
                                               [] p # r /\ p \in shifted \ dropped -> "running"
                                               [] OTHER -> task[p]]
              /\ answer' = [p \in Requests |-> CASE p = r -> Settled(p, "result")
                               [] p # r /\ p \in dropped -> Settled(p, "cancelled")
                               [] OTHER -> answer[p]]
    BY DEF TaskEnds
  <1> DEFINE shifted == {q[i] : i \in DOMAIN q \cap (1 .. n)}
             dropped == {q[i] : i \in 1 .. n - 1}
             rest == SubSeq(q, n + 1, Len(q))
  <1>2. /\ k \in Keys /\ task[r] = "running"
        /\ q \in Seq(Requests) /\ Distinct(q)
        /\ Members(q) = {p \in Requests : Waiting(p) /\ KeyOf[p] = k}
        /\ UNCHANGED <<aborted, called, ahead>>
    BY CoordinatorAssumption DEF Inv, Line, TypeOK, TaskEnds
  <1>3. /\ dropped \subseteq shifted
        /\ shifted \subseteq Members(q)
        /\ n <= Len(q) => shifted \ dropped = {q[n]}
        /\ n > Len(q) => shifted \ dropped = {} /\ shifted = Members(q)
        /\ {q[i] : i \in n + 1 .. Len(q)} = Members(q) \ shifted
    BY <1>2, ReleaseFacts
  <1>4. /\ rest \in Seq(Requests)
        /\ DOMAIN rest = 1 .. (IF n <= Len(q) THEN Len(q) - n ELSE 0)
        /\ \A i \in DOMAIN rest : rest[i] = q[n + i]
        /\ Distinct(rest)
        /\ Members(rest) = {q[i] : i \in n + 1 .. Len(q)}
        /\ rest # <<>> => n <= Len(q)
    BY <1>2, RestFacts
  <1>5. DOMAIN q = 1 .. Len(q) /\ Len(q) \in Nat /\ KeyOf[r] = k /\ q = queue[k]
    BY <1>2
  <1>6. /\ queue' = [queue EXCEPT ![k] = rest]
        /\ active' = [active EXCEPT ![k] = n <= Len(q)]
        /\ entries' = IF n > Len(q) THEN entries \ {k} ELSE entries
        /\ timers' = timers \ shifted
        /\ listening' = listening \ shifted
        /\ cancelled' = cancelled \cup dropped
    BY <1>1, <1>4, <1>5 DEF StaysActive, Cleaned, Disarmed
  <1>7. ~Waiting(r) /\ r \notin shifted
    BY <1>2, <1>3 DEF Waiting
  <1>8. /\ task'[r] = "ended"
        /\ \A p \in shifted \ dropped : task'[p] = "running"
        /\ \A p \in Requests : p # r /\ p \notin shifted \ dropped => task'[p] = task[p]
        /\ task' \in [Requests -> {"idle", "running", "ended"}]
    BY <1>1, <1>7, <1>2, <1>3 DEF Inv, TypeOK
  <1>9. /\ answer'[r] = Settled(r, "result")
        /\ \A p \in dropped : answer'[p] = "cancelled"
        /\ \A p \in Requests : p # r /\ p \notin dropped => answer'[p] = answer[p]
        /\ answer' \in [Requests -> Answers]
    BY <1>1, <1>7, <1>2, <1>3 DEF Inv, TypeOK, Answers, Settled, Waiting
  <1>10. /\ queue'[k] = rest /\ active'[k] = (n <= Len(q))
         /\ \A h \in Keys : h # k => queue'[h] = queue[h] /\ active'[h] = active[h]
    BY <1>2, <1>6 DEF Inv, TypeOK
  <1> HIDE DEF k, q, shifted, dropped, rest
  <1>11. \A p \in Requests : Waiting(p)' <=> Waiting(p) /\ p \notin shifted
    <2>1. \A p \in shifted : p \in Requests /\ Waiting(p) /\ KeyOf[p] = k
      BY <1>2, <1>3
    <2>2. \A p \in shifted : ~Waiting(p)'
      BY <2>1, <1>8, <1>9 DEF Waiting
    <2>3. ~Waiting(r)'
      BY <1>8 DEF Waiting
    <2>4. \A p \in Requests : p # r /\ p \notin shifted => (Waiting(p)' <=> Waiting(p))
      BY <1>2, <1>3, <1>8, <1>9 DEF Waiting
    <2>5. QED BY <2>2, <2>3, <2>4, <1>7
  <1>12. TypeOK'
    BY <1>2, <1>3, <1>4, <1>6, <1>8, <1>9 DEF Inv, TypeOK
  <1>13. ASSUME NEW h \in Keys PROVE Line(h)' /\ InOrder(h)'
    <2>1. CASE h # k
      <3>1. \A p \in shifted : KeyOf[p] = k
        BY <1>2, <1>3
      <3>2. Line(h)'
        BY <2>1, <3>1, <1>10, <1>11 DEF Inv, Line
      <3>3. InOrder(h)'
        BY <2>1, <1>2, <1>10 DEF Inv, InOrder
      <3>4. QED BY <3>2, <3>3
    <2>2. CASE h = k
      <3>1. Line(h)'
        BY <2>2, <1>2, <1>3, <1>4, <1>10, <1>11 DEF Line
      <3>2. \A i, j \in DOMAIN rest : i < j =>
              n + i \in DOMAIN q /\ n + j \in DOMAIN q /\ n + i < n + j
        BY <1>4, <1>5
      <3>3. InOrder(h)'
        BY <2>2, <3>2, <1>2, <1>4, <1>5, <1>10 DEF Inv, InOrder
      <3>4. QED BY <3>1, <3>3
    <2>3. QED BY <2>1, <2>2
  <1>14. \A p \in Requests : p # r => (task'[p] = "running" <=> task[p] = "running" \/
                                          p \in shifted \ dropped)
    BY <1>8
  <1>15. \A p \in Requests : KeyOf[p] = k /\ task[p] = "running" => p = r
    BY <1>2, <1>5 DEF Inv, OneTaskPerKey
  <1>16. Fresh'
    BY <1>2, <1>3, <1>8, <1>9 DEF Inv, Fresh, Waiting
  <1>17. (\A p \in Requests : ahead[p] \subseteq called)'
    BY <1>2 DEF Inv
  <1>18. Taken'
    <2>1. ASSUME NEW h \in Keys
          PROVE  active'[h] <=> \E p \in Requests : KeyOf[p] = h /\ task'[p] = "running"
      <3>1. CASE h # k
        <4>1. \A p \in Requests : KeyOf[p] = h => (task'[p] = "running" <=> task[p] = "running")
          BY <3>1, <1>2, <1>3, <1>5, <1>14
        <4>2. QED BY <3>1, <4>1, <1>10 DEF Inv, Taken
      <3>2. CASE h = k /\ n <= Len(q)
        <4>1. q[n] \in shifted \ dropped
          BY <3>2, <1>3
        <4>2. q[n] \in Requests /\ KeyOf[q[n]] = k /\ task'[q[n]] = "running"
          BY <4>1, <1>2, <1>3, <1>8
        <4>3. QED BY <3>2, <4>2, <1>10
      <3>3. CASE h = k /\ ~(n <= Len(q))
        <4>1. shifted \ dropped = {}
          BY <3>3, <1>3, <1>5
        <4>2. \A p \in Requests : KeyOf[p] = k => task'[p] # "running"
          BY <4>1, <1>8, <1>14, <1>15
        <4>3. QED BY <3>3, <4>2, <1>10
      <3>4. QED BY <3>1, <3>2, <3>3
    <2>2. QED BY <2>1 DEF Taken
  <1>19. HandOver'
    BY <1>4, <1>10 DEF Inv, HandOver
  <1>20. OneTaskPerKey'
    <2>1. \A p, o \in shifted \ dropped : p = o
      BY <1>3, <1>5
    <2>2. \A p \in shifted : KeyOf[p] = k
      BY <1>2, <1>3
    <2>3. QED BY <2>1, <2>2, <1>8, <1>14, <1>15 DEF Inv, OneTaskPerKey
  <1>21. ToldNoMeansNo'
    <2>1. answer[r] \notin {"conflict", "cancelled", "timeout"}
      BY <1>2 DEF Inv, ToldNoMeansNo
    <2>2. answer'[r] \notin {"conflict", "cancelled", "timeout"}
      BY <2>1, <1>9 DEF Settled
    <2>3. \A p \in dropped : task'[p] = "idle"
      BY <1>2, <1>3, <1>7, <1>8 DEF Waiting
    <2>4. \A p \in shifted \ dropped : answer'[p] = "none"
      BY <1>2, <1>3, <1>7, <1>9 DEF Waiting
    <2>5. QED BY <2>2, <2>3, <2>4, <1>8, <1>9 DEF Inv, ToldNoMeansNo
  <1>22. NothingLeaks'
    <2>1. active[k]
      BY <1>2, <1>5 DEF Inv, Taken
    <2>2. \A h \in Keys : h # k => (active'[h] \/ queue'[h] # <<>> <=> active[h] \/ queue[h] # <<>>)
      BY <1>10
    <2>3. active'[k] \/ queue'[k] # <<>> <=> n <= Len(q)
      BY <1>4, <1>10
    <2>4. entries' = {h \in Keys : active'[h] \/ queue'[h] # <<>>}
      BY <2>1, <2>2, <2>3, <1>2, <1>5, <1>6 DEF Inv, NothingLeaks
    <2>5. \A p \in timers' \cup listening' : Waiting(p)'
      BY <1>6, <1>11 DEF Inv, NothingLeaks, TypeOK
    <2>6. QED BY <2>4, <2>5 DEF NothingLeaks
  <1>23. QED
    BY <1>12, <1>13, <1>16, <1>17, <1>18, <1>19, <1>20, <1>21, <1>22 DEF Inv

(* Abort of a call that does not wait only marks its signal.               *)
LEMMA SignalOnly ==
  ASSUME Inv, NEW r \in Requests, aborted' = aborted \cup {r},
         UNCHANGED <<guards, alarms, called, task, answer, ahead>>
  PROVE  Inv'
  BY DEF Inv, TypeOK, Fresh, Line, InOrder, Waiting, Taken, HandOver, OneTaskPerKey,
         ToldNoMeansNo, NothingLeaks, guards, alarms

(* Every step of the coordinator preserves the invariant.                  *)
LEMMA StepInv == Inv /\ [Next]_vars => Inv'
  <1> SUFFICES ASSUME Inv, [Next]_vars PROVE Inv'
    OBVIOUS
  <1>1. CASE UNCHANGED vars
    BY <1>1 DEF Inv, TypeOK, Fresh, Line, InOrder, Waiting, Taken, HandOver, OneTaskPerKey,
                ToldNoMeansNo, NothingLeaks, vars
  <1>2. ASSUME NEW r \in Requests, Execute(r) PROVE Inv'
    BY <1>2, AnsweredAtOnce, StartNowInv, EnqueueInv DEF Execute
  <1>3. ASSUME NEW r \in Requests, Abort(r) PROVE Inv'
    <2>1. CASE r \in listening /\ r \notin cancelled
      <3>1. Withdraw(r, "cancelled") /\ aborted' \subseteq Requests
        BY <1>3, <2>1 DEF Abort, Inv, TypeOK
      <3>2. QED BY <2>1, <3>1, WithdrawInv
    <2>2. CASE ~(r \in listening /\ r \notin cancelled)
      BY <1>3, <2>2, SignalOnly DEF Abort
    <2>3. QED BY <2>1, <2>2
  <1>4. ASSUME NEW r \in Requests, Timeout(r) PROVE Inv'
    BY <1>4, WithdrawInv DEF Timeout, Inv, TypeOK
  <1>5. ASSUME NEW r \in Requests, TaskEnds(r) PROVE Inv'
    BY <1>5, TaskEndsInv
  <1>6. QED BY <1>1, <1>2, <1>3, <1>4, <1>5 DEF Next

(* The invariant holds in every reachable state.                           *)
THEOREM Invariance == Spec => []Inv
  BY InitInv, StepInv, PTL DEF Spec

(* The variables of the coordinator keep their types: the map holds keys,  *)
(* a queue holds calls, an answer is one of the five.                      *)
THEOREM TypeCorrect == Spec => []TypeOK
  <1>1. Inv => TypeOK
    BY DEF Inv
  <1>2. QED BY <1>1, Invariance, PTL

(* For any number of callers, modes, aborts and timeouts, a session branch *)
(* runs one generation at a time.                                          *)
THEOREM MutualExclusion == Spec => []OneTaskPerKey
  <1>1. Inv => OneTaskPerKey
    BY DEF Inv
  <1>2. QED BY <1>1, Invariance, PTL

(* A waiting call always has a running task of its key before it.          *)
THEOREM NoLostWakeup == Spec => []NobodyWaitsForNothing
  <1>1. Inv => NobodyWaitsForNothing
    <2> SUFFICES ASSUME Inv, NEW r \in Requests, Waiting(r)
                 PROVE  \E q \in Requests : KeyOf[q] = KeyOf[r] /\ task[q] = "running"
      BY DEF NobodyWaitsForNothing
    <2>1. KeyOf[r] \in Keys
      BY CoordinatorAssumption
    <2>2. active[KeyOf[r]]
      BY <2>1, EmptyLine DEF Inv, HandOver
    <2>3. QED BY <2>1, <2>2 DEF Inv, Taken
  <1>2. QED BY <1>1, Invariance, PTL

(* A call that was refused, withdrawn or timed out never runs.             *)
THEOREM NoIsFinal == Spec => []ToldNoMeansNo
  <1>1. Inv => ToldNoMeansNo
    BY DEF Inv
  <1>2. QED BY <1>1, Invariance, PTL

(* The coordinator keeps no entry, timer or listener longer than needed.   *)
THEOREM NoLeak == Spec => []NothingLeaks
  <1>1. Inv => NothingLeaks
    BY DEF Inv
  <1>2. QED BY <1>1, Invariance, PTL

(* Calls of one key start in the order in which they came.                 *)
THEOREM FirstComeFirstServed == Spec => NoOvertaking
  <1>1. Inv /\ [Next]_vars =>
          [\A r, q \in Requests : StartsBefore(r, q) => r \in called /\ q \notin ahead[r]]_vars
    <2> SUFFICES ASSUME Inv, Next, NEW r \in Requests, NEW p \in Requests,
                        task[r] = "idle", task'[r] = "running",
                        KeyOf[p] = KeyOf[r], Waiting(p), Waiting(p)'
                 PROVE  r \in called /\ p \notin ahead[r]
      BY DEF StartsBefore
    <2> DEFINE k == KeyOf[r]
    <2>1. k \in Keys /\ active[k]
      <3>1. k \in Keys
        BY CoordinatorAssumption
      <3>2. QED BY <3>1, EmptyLine DEF Inv, HandOver
    <2>2. PICK s \in Requests : TaskEnds(s)
      <3>1. ASSUME NEW s \in Requests, Execute(s) PROVE FALSE
        <4>1. ~StartNow(s) \/ s # r
          BY <2>1 DEF StartNow, Busy
        <4>2. task'[r] = task[r]
          BY <3>1, <4>1 DEF Execute, Refuse, StartNow, Conflict, Enqueue, Inv, TypeOK
        <4>3. QED BY <4>2
      <3>2. ASSUME NEW s \in Requests, Abort(s) \/ Timeout(s) PROVE FALSE
        BY <3>2 DEF Abort, Timeout, Withdraw
      <3>3. QED BY <3>1, <3>2 DEF Next
    <2> DEFINE h == KeyOf[s]
               o == queue[h]
    <2>3. PICK n \in 1 .. Len(o) + 1 :
            LET shifted == {o[i] : i \in DOMAIN o \cap (1 .. n)}
                dropped == {o[i] : i \in 1 .. n - 1}
            IN  /\ queue' = [queue EXCEPT ![h] = SubSeq(o, n + 1, Len(o))]
                /\ task' = [c \in Requests |-> CASE c = s -> "ended"
                                                 [] c # s /\ c \in shifted \ dropped -> "running"
                                                 [] OTHER -> task[c]]
      BY <2>2 DEF TaskEnds
    <2> DEFINE shifted == {o[i] : i \in DOMAIN o \cap (1 .. n)}
               dropped == {o[i] : i \in 1 .. n - 1}
    <2>4. h \in Keys /\ o \in Seq(Requests) /\ Distinct(o)
          /\ Members(o) = {c \in Requests : Waiting(c) /\ KeyOf[c] = h} /\ InOrder(h)
      BY CoordinatorAssumption DEF Inv, Line, TypeOK
    <2>5. /\ shifted \subseteq Members(o)
          /\ n <= Len(o) => shifted \ dropped = {o[n]}
          /\ n > Len(o) => shifted \ dropped = {}
          /\ {o[i] : i \in n + 1 .. Len(o)} = Members(o) \ shifted
      BY <2>4, ReleaseFacts
    <2>6. r \in shifted \ dropped
      BY <2>3
    <2>7. n <= Len(o) /\ r = o[n] /\ n \in DOMAIN o
      BY <2>4, <2>5, <2>6
    <2>8. r \in called /\ h = k
      BY <2>4, <2>5, <2>6 DEF Waiting
    <2>9. Inv'
      BY <2>2, TaskEndsInv
    <2>10. p \in Members(queue'[h])
      BY <2>4, <2>8, <2>9 DEF Inv, Line
    <2>11. Members(queue'[h]) = {o[i] : i \in n + 1 .. Len(o)}
      <3>1. queue'[h] = SubSeq(o, n + 1, Len(o))
        BY <2>3, <2>4 DEF Inv, TypeOK
      <3>2. QED BY <3>1, <2>4, RestFacts
    <2>12. PICK i \in n + 1 .. Len(o) : p = o[i]
      BY <2>10, <2>11
    <2>13. i \in DOMAIN o /\ n < i
      BY <2>4, <2>7
    <2>14. p \notin ahead[r]
      BY <2>4, <2>7, <2>12, <2>13 DEF InOrder
    <2>15. QED BY <2>8, <2>14
  <1>2. QED BY <1>1, Invariance, PTL DEF Spec, NoOvertaking

=============================================================================
