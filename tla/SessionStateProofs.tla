------------------------- MODULE SessionStateProofs -------------------------
(***************************************************************************)
(* Proofs about session state, for every set of floors, branches and slots,*)
(* every clock, and every number of turns, batches and crashes.            *)
(*                                                                         *)
(* StateInv is inductive: the rows of floors form paths that only grow     *)
(* (RowsSound), a turn that runs holds a generating floor of its branch    *)
(* (TurnsSound), a batch belongs to the branch of its floor and is known   *)
(* to heads and snapshots only once it exists (BatchesSound), what a crash *)
(* left staged sits on a floor no turn will take again (LostIsDead), and   *)
(* what a failed discard left is older than what a turn stages after it    *)
(* (KeptIsOlder).                                                          *)
(*                                                                         *)
(* HistoryInv is about what a floor grew on: the floors of a branch that   *)
(* stand are on one path (Chain), a floor that no longer stands never      *)
(* stands again, and so what a snapshot holds was applied on the path of   *)
(* its floor (PastKept).  CurrentInv is about time: a head and a snapshot  *)
(* of the latest floors of a branch agree unless the head is newer (Sync,  *)
(* Outside).                                                               *)
(***************************************************************************)
EXTENDS SessionState, FiniteSetTheorems, WellFoundedInduction, TLAPS

Exists(f) == floor[f].state # "none"

\* Floors and the paths they grew on.
RowsSound ==
  \A f \in Floors :
    /\ floor[f].no <= turns
    /\ ~Exists(f) => floor[f].path = {} /\ floor[f].parent = NoFloor
    /\ Exists(f) => f \in floor[f].path
    /\ \A g \in floor[f].path : Exists(g)
    /\ floor[f].parent # NoFloor =>
         Exists(floor[f].parent) /\ floor[floor[f].parent].path \subseteq floor[f].path

\* A branch without a turn holds no floor; a turn holds one that is generating.
TurnsSound ==
  \A b \in Branches :
    /\ turn[b].stage = "idle" => turn[b].floor = NoFloor
    /\ turn[b].stage # "idle" => /\ turn[b].floor \in Floors
                                 /\ floor[turn[b].floor].state = "generating"
                                 /\ floor[turn[b].floor].branch = b

\* Batches are used in order, and belong to the branch of their floor.
BatchesSound ==
  \A w \in Batches :
    /\ w > used => batch[w].status = "unused" /\ w \notin lost \cup kept
    /\ batch[w].status = "staged" => /\ batch[w].floor \in Floors
                                     /\ Exists(batch[w].floor)
                                     /\ batch[w].branch = floor[batch[w].floor].branch

\* Heads and snapshots name batches that exist.
ValuesSound ==
  /\ \A b \in Branches, s \in Slots : liveHead[b][s].batch <= used
  /\ \A f \in Floors, s \in Slots : snapshot[f][s].batch <= used

\* What a crash left staged is on a floor that no turn holds or will hold.
LostIsDead ==
  \A w \in lost \ kept :
    /\ batch[w].status = "staged"
    /\ floor[batch[w].floor].state \in {"generating", "failed"}
    /\ \A b \in Branches : turn[b].floor # batch[w].floor

\* What a turn staged is younger than what a failed discard left on its floor.
KeptIsOlder ==
  \A w \in kept, x \in Batches \ (kept \cup lost) :
    batch[w].status = "staged" /\ batch[x].status = "staged" /\ batch[w].floor = batch[x].floor
      => w < x

StateInv ==
  /\ TypeOK /\ RowsSound /\ TurnsSound /\ BatchesSound /\ ValuesSound
  /\ LostIsDead /\ KeptIsOlder
  /\ OnlyCommittedTurnsWrite /\ BranchesStayApart

-----------------------------------------------------------------------------
(* Choices.                                                                *)

\* A set of numbers with an upper bound has a largest one.
LEMMA LargestExists ==
  ASSUME NEW bound \in Nat, NEW ns \in SUBSET (0 .. bound), ns # {}
  PROVE  \E n \in ns : \A x \in ns : x <= n
<1> DEFINE gaps == {bound - n : n \in ns}
<1>0. \A n \in ns : n \in Nat /\ n <= bound /\ bound - n \in Nat
  OBVIOUS
<1>1. gaps \in SUBSET Nat /\ gaps # {}
  BY <1>0
<1>2. PICK g \in gaps : \A x \in gaps : ~(<<x, g>> \in OpToRel(<, Nat))
  BY <1>1, NatLessThanWellFounded, WFMin
<1>3. \A x \in gaps : ~(x < g)
  BY <1>1, <1>2 DEF OpToRel
<1>4. PICK n \in ns : g = bound - n
  OBVIOUS
<1>5. \A x \in ns : bound - x \in gaps
  OBVIOUS
<1>6. \A x \in ns : ~(bound - x < bound - n)
  BY <1>3, <1>4, <1>5
<1>7. \A x \in ns : x <= n
  <2> HIDE DEF gaps
  <2> QED BY <1>0, <1>4, <1>6
<1> QED
  BY <1>4, <1>7

\* The newest of some floors is one of them, and none has a larger number.
LEMMA NewestIsOne ==
  ASSUME TypeOK, RowsSound, NEW fs \in SUBSET Floors
  PROVE  /\ fs # {} => /\ Newest(fs) \in fs
                       /\ \A g \in fs : floor[g].no <= floor[Newest(fs)].no
         /\ fs = {} => Newest(fs) = NoFloor
<1>1. SUFFICES ASSUME fs # {}
               PROVE  \E f \in fs : \A g \in fs : floor[g].no <= floor[f].no
  BY DEF Newest
<1> DEFINE ns == {floor[f].no : f \in fs}
<1>2. turns \in Nat /\ \A f \in fs : floor[f].no \in 0 .. turns
  BY DEF TypeOK, RowsSound, FloorRow
<1>3. ns \in SUBSET (0 .. turns) /\ ns # {}
  BY <1>1, <1>2
<1>4. PICK n \in ns : \A x \in ns : x <= n
  <2> HIDE DEF ns
  <2> QED BY <1>2, <1>3, LargestExists
<1> QED
  BY <1>4

\* The batch applied last to a slot is the largest one on it.
LEMMA LastOnIsLast ==
  ASSUME StateConstants, NEW ws \in SUBSET Batches, NEW bs, NEW s
  PROVE  LET last == LastOn(ws, bs, s)
         IN  \/ last = 0 /\ \A w \in ws : s \notin bs[w].slots
             \/ /\ last \in ws /\ s \in bs[last].slots
                /\ \A w \in ws : s \in bs[w].slots => w <= last
<1> DEFINE on == {w \in ws : s \in bs[w].slots}
<1>1. CASE on = {}
  BY <1>1 DEF LastOn
<1>2. CASE on # {}
  <2>1. on \subseteq 0 .. MaxBatches /\ MaxBatches \in Nat
    <3>1. Batches \subseteq 0 .. MaxBatches /\ MaxBatches \in Nat
      BY DEF Batches, StateConstants
    <3> QED BY <3>1
  <2>2. \E n \in on : \A x \in on : x <= n
    <3> HIDE DEF on
    <3> QED BY <1>2, <2>1, LargestExists
  <2> QED
    BY <1>2, <2>2 DEF LastOn
<1> QED
  BY <1>1, <1>2

-----------------------------------------------------------------------------
(* What a step does to the floors.                                         *)

\* A row that exists keeps what the properties are about; a row that is created
\* grows on one that exists, or on none.
RowKept(f) ==
  /\ floor'[f].state # "none"
  /\ floor'[f].branch = floor[f].branch
  /\ floor'[f].parent = floor[f].parent
  /\ floor'[f].path = floor[f].path
  /\ floor'[f].no = floor[f].no

RowGrown(f) ==
  /\ floor'[f].state # "none"
  /\ floor'[f].no <= turns'
  /\ \/ floor'[f].parent = NoFloor /\ floor'[f].path = {f}
     \/ /\ floor'[f].parent \in Floors
        /\ Exists(floor'[f].parent)
        /\ floor'[f].path = floor[floor'[f].parent].path \cup {f}

RowsStep ==
  /\ floor' \in [Floors -> FloorRow]
  /\ turns' \in Nat /\ turns <= turns'
  /\ \A f \in Floors :
       /\ Exists(f) => RowKept(f)
       /\ ~Exists(f) => floor'[f] = floor[f] \/ RowGrown(f)

\* The floor a turn is started on.
Started(b, f) ==
  /\ turn[b].stage = "idle"
  /\ turn'[b].stage = "running" /\ turn'[b].floor = f
  /\ \A c \in Branches \ {b} : turn'[c] = turn[c]
  /\ turn' \in [Branches -> Turn]
  /\ turns' = turns + 1
  /\ floor'[f].state = "generating" /\ floor'[f].branch = b
  /\ floor[f].state \notin {"generating", "failed"}
  /\ \A g \in Floors \ {f} : floor'[g].state = floor[g].state
  /\ UNCHANGED <<batch, used, liveHead, snapshot, now, crashes, lost, kept, rewritten, early>>

LEMMA RespondFacts ==
  ASSUME StateConstants, StateInv, NEW b \in Branches, NEW f \in Floors, Respond(b, f)
  PROVE  RowsStep /\ Started(b, f)
<1> USE DEF StateInv
<1>1. \E n \in Nat, p \in Floors \cup {NoFloor} :
        /\ n <= turns + 1
        /\ p # NoFloor => Exists(p)
        /\ floor' = [floor EXCEPT ![f] = With(NewFloor(b, n, p), f)]
  <2> DEFINE last == Newest(OnBranch(b))
  <2>1. CASE last # NoFloor
    <3>1. last \in Floors /\ Exists(last)
      <4>1. OnBranch(b) \subseteq Floors /\ \A g \in OnBranch(b) : Exists(g)
        BY DEF OnBranch, Exists
      <4> QED BY <2>1, <4>1, NewestIsOne
    <3>2. LatestCommitted(b) # NoFloor =>
            LatestCommitted(b) \in Floors /\ Exists(LatestCommitted(b))
      <4> DEFINE done == {g \in OnBranch(b) : floor[g].state = "committed"}
      <4>1. done \subseteq Floors /\ \A g \in done : Exists(g)
        BY DEF OnBranch, Exists
      <4> QED BY <4>1, NewestIsOne DEF LatestCommitted
    <3>3. /\ floor[last].no + 1 \in Nat /\ floor[last].no + 1 <= turns + 1
          /\ floor[last].parent \in Floors \cup {NoFloor}
          /\ floor[last].parent # NoFloor => Exists(floor[last].parent)
      BY <3>1 DEF TypeOK, FloorRow, RowsSound
    <3>4. PICK p : p = IF LatestCommitted(b) # NoFloor THEN LatestCommitted(b)
                       ELSE floor[last].parent
      OBVIOUS
    <3>5. floor' = [floor EXCEPT ![f] = With(NewFloor(b, floor[last].no + 1, p), f)]
      BY <2>1, <3>4 DEF Respond
    <3> QED BY <3>2, <3>3, <3>4, <3>5
  <2>2. CASE last = NoFloor
    <3>1. PICK source \in Sources :
            floor' = [floor EXCEPT ![f] =
              With(NewFloor(b, IF source = NoFloor THEN 0 ELSE floor[source].no + 1, source), f)]
      BY <2>2 DEF Respond
    <3>2. source # NoFloor => source \in Floors /\ Exists(source)
      <4> DEFINE done == {g \in OnBranch(Main) : floor[g].state = "committed"}
      <4>1. done \subseteq Floors /\ \A g \in done : Exists(g)
        BY DEF OnBranch, Exists
      <4>2. LatestCommitted(Main) # NoFloor =>
              LatestCommitted(Main) \in Floors /\ Exists(LatestCommitted(Main))
        BY <4>1, NewestIsOne DEF LatestCommitted
      <4> QED BY <4>2 DEF Sources, Exists
    <3>3. source # NoFloor => floor[source].no + 1 \in Nat /\ floor[source].no + 1 <= turns + 1
      BY <3>2 DEF TypeOK, FloorRow, RowsSound
    <3>4. turns \in Nat
      BY DEF TypeOK
    <3>5. PICK n : n = IF source = NoFloor THEN 0 ELSE floor[source].no + 1
      OBVIOUS
    <3>6. n \in Nat /\ n <= turns + 1
      BY <3>3, <3>4, <3>5
    <3>7. source \in Floors \cup {NoFloor}
      BY <3>2
    <3> QED BY <3>1, <3>2, <3>5, <3>6, <3>7
  <2> QED BY <2>1, <2>2
<1>2. PICK n \in Nat, p \in Floors \cup {NoFloor} :
        /\ n <= turns + 1
        /\ p # NoFloor => Exists(p)
        /\ floor' = [floor EXCEPT ![f] = With(NewFloor(b, n, p), f)]
  BY <1>1
<1>3. PICK row : row = With(NewFloor(b, n, p), f)
  OBVIOUS
<1>4. /\ row \in FloorRow
      /\ row.state = "generating" /\ row.branch = b /\ row.no = n /\ row.parent = p
      /\ row.path = IF p = NoFloor THEN {f} ELSE floor[p].path \cup {f}
  <2>1. p \in Floors => floor[p].path \in SUBSET Floors
    BY DEF TypeOK, FloorRow
  <2>2. p # NoFloor => p \in Floors
    OBVIOUS
  <2> QED BY <1>3, <2>1, <2>2 DEF With, NewFloor, FloorRow
<1>5. floor' = [floor EXCEPT ![f] = row]
  BY <1>2, <1>3
<1>6. /\ turn[b].stage = "idle" /\ turns' = turns + 1
      /\ turn' = [turn EXCEPT ![b] = [stage |-> "running", floor |-> f, kind |-> "respond"]]
      /\ UNCHANGED <<batch, used, liveHead, snapshot, now, crashes, lost, kept, rewritten, early>>
      /\ floor[f].state = "none"
  BY DEF Respond, StartTurn
<1>7. RowsStep
  BY <1>2, <1>4, <1>5, <1>6 DEF RowsStep, RowKept, RowGrown, Exists, TypeOK
<1>8. Started(b, f)
  BY <1>4, <1>5, <1>6 DEF Started, TypeOK, Turn
<1> QED
  BY <1>7, <1>8

LEMMA RegenerateFacts ==
  ASSUME StateConstants, StateInv, NEW f \in Floors, Regenerate(f)
  PROVE  RowsStep /\ Started(Main, f)
<1> USE DEF StateInv
<1>1. PICK source : source = LatestCommitted(Main)
  OBVIOUS
<1>2. source \in Floors /\ Exists(source) /\ floor[source].state = "committed"
  <2> DEFINE done == {g \in OnBranch(Main) : floor[g].state = "committed"}
  <2>1. done \subseteq Floors /\ \A g \in done : Exists(g) /\ floor[g].state = "committed"
    BY DEF OnBranch, Exists
  <2>2. source # NoFloor
    BY <1>1 DEF Regenerate
  <2> QED BY <1>1, <2>1, <2>2, NewestIsOne DEF LatestCommitted
<1>3. Main \in Branches /\ source # NoFloor /\ source # f /\ floor[f].state = "none"
  BY <1>1, <1>2 DEF Regenerate, StateConstants
<1>4. PICK row : row = With(NewFloor(Main, floor[source].no, source), f)
  OBVIOUS
<1>5. floor[source].no \in Nat /\ floor[source].no <= turns /\ turns \in Nat
  BY <1>2 DEF TypeOK, FloorRow, RowsSound
<1>6. /\ row \in FloorRow
      /\ row.state = "generating" /\ row.branch = Main /\ row.no = floor[source].no
      /\ row.parent = source /\ row.path = floor[source].path \cup {f}
  <2>1. PICK n : n = floor[source].no
    OBVIOUS
  <2>2. row = With(NewFloor(Main, n, source), f)
    BY <1>4, <2>1
  <2>3. n \in Nat /\ floor[source].path \in SUBSET Floors
    BY <1>2, <1>5, <2>1 DEF TypeOK, FloorRow
  <2> QED BY <1>2, <1>3, <2>1, <2>2, <2>3 DEF With, NewFloor, FloorRow
<1>7. floor' = [floor EXCEPT ![f] = row, ![source].live = FALSE]
  BY <1>1, <1>4 DEF Regenerate
<1>8. /\ turn[Main].stage = "idle" /\ turns' = turns + 1
      /\ turn' = [turn EXCEPT ![Main] = [stage |-> "running", floor |-> f, kind |-> "regenerate"]]
      /\ UNCHANGED <<batch, used, liveHead, snapshot, now, crashes, lost, kept, rewritten, early>>
  BY DEF Regenerate, StartTurn
<1>9. floor'[f] = row /\ floor'[source] = [floor[source] EXCEPT !.live = FALSE]
      /\ (\A g \in Floors \ {f, source} : floor'[g] = floor[g])
      /\ DOMAIN floor' = Floors
  BY <1>2, <1>3, <1>7 DEF TypeOK
<1>11. floor[source] \in FloorRow
  BY <1>2 DEF TypeOK
<1>10. floor' \in [Floors -> FloorRow]
  <2>1. [floor[source] EXCEPT !.live = FALSE] \in FloorRow
    BY <1>11 DEF FloorRow
  <2>2. \A g \in Floors : floor'[g] \in FloorRow
    BY <1>6, <1>9, <2>1 DEF TypeOK
  <2>3. floor' = [g \in Floors |-> floor'[g]]
    BY <1>7 DEF TypeOK
  <2> QED BY <2>2, <2>3
<1>12. /\ floor'[source].state = floor[source].state /\ floor'[source].no = floor[source].no
       /\ floor'[source].branch = floor[source].branch
       /\ floor'[source].parent = floor[source].parent /\ floor'[source].path = floor[source].path
  BY <1>9, <1>11 DEF FloorRow
<1>13. \A g \in Floors : Exists(g) => RowKept(g)
  BY <1>2, <1>3, <1>9, <1>12 DEF RowKept, Exists
<1>14. RowGrown(f)
  BY <1>2, <1>5, <1>6, <1>8, <1>9 DEF RowGrown, Exists
<1>15. RowsStep
  <2>1. \A g \in Floors : ~Exists(g) => floor'[g] = floor[g] \/ RowGrown(g)
    BY <1>2, <1>9, <1>14
  <2>2. turns' \in Nat /\ turns <= turns'
    BY <1>5, <1>8
  <2> QED BY <1>10, <1>13, <2>1, <2>2 DEF RowsStep
<1>16. Started(Main, f)
  <2>1. /\ turn' \in [Branches -> Turn]
        /\ turn'[Main].stage = "running" /\ turn'[Main].floor = f
        /\ \A c \in Branches \ {Main} : turn'[c] = turn[c]
    BY <1>3, <1>8 DEF TypeOK, Turn
  <2>2. \A g \in Floors \ {f} : floor'[g].state = floor[g].state
    BY <1>9, <1>12
  <2> QED BY <1>3, <1>6, <1>8, <1>9, <2>1, <2>2 DEF Started
<1> QED
  BY <1>15, <1>16

LEMMA RetryFacts ==
  ASSUME StateConstants, StateInv, NEW f \in Floors, Retry(f)
  PROVE  RowsStep /\ floor[f].branch \in Branches /\ Started(floor[f].branch, f)
<1> USE DEF StateInv
<1>1. PICK b : b = floor[f].branch
  OBVIOUS
<1>2. b \in Branches /\ floor[f] \in FloorRow
  BY <1>1 DEF TypeOK, FloorRow
<1>3. /\ floor[f].state = "committed" /\ floor' = [floor EXCEPT ![f].state = "generating"]
      /\ turn[b].stage = "idle" /\ turns' = turns + 1
      /\ turn' = [turn EXCEPT ![b] = [stage |-> "running", floor |-> f, kind |-> "retry"]]
      /\ UNCHANGED <<batch, used, liveHead, snapshot, now, crashes, lost, kept, rewritten, early>>
  BY <1>1 DEF Retry, StartTurn
<1>4. /\ floor'[f] = [floor[f] EXCEPT !.state = "generating"]
      /\ \A g \in Floors \ {f} : floor'[g] = floor[g]
  BY <1>3 DEF TypeOK
<1>5. floor' \in [Floors -> FloorRow]
  BY <1>2, <1>3 DEF TypeOK, FloorRow
<1>6. RowsStep
  BY <1>2, <1>3, <1>4, <1>5 DEF RowsStep, RowKept, Exists, TypeOK, FloorRow
<1>7. Started(b, f)
  BY <1>1, <1>2, <1>3, <1>4 DEF Started, TypeOK, Turn, FloorRow
<1> QED
  BY <1>1, <1>2, <1>6, <1>7

\* Paths stay paths, and what was on one stays on it.
LEMMA PathsGrow ==
  ASSUME StateConstants, StateInv, RowsStep
  PROVE  /\ RowsSound'
         /\ \A f \in Floors : {floor[g].branch : g \in floor[f].path}
                                \subseteq {floor'[g].branch : g \in floor'[f].path}
<1> USE DEF StateInv
<1>1. \A f \in Floors : floor[f] \in FloorRow /\ floor'[f] \in FloorRow
  BY DEF TypeOK, RowsStep
<1>2. \A f \in Floors : /\ floor[f].path \subseteq Floors /\ floor'[f].path \subseteq Floors
                        /\ floor[f].no \in Nat /\ floor'[f].no \in Nat
                        /\ floor[f].parent \in Floors \cup {NoFloor}
                        /\ floor'[f].parent \in Floors \cup {NoFloor}
  BY <1>1 DEF FloorRow
<1>3. turns \in Nat /\ turns' \in Nat /\ turns <= turns'
  BY DEF TypeOK, RowsStep
<1>4. \A f \in Floors : Exists(f) => Exists(f)' /\ floor'[f].path = floor[f].path
                                                /\ floor'[f].branch = floor[f].branch
  BY DEF RowsStep, RowKept, Exists
<1>5. ASSUME NEW f \in Floors
      PROVE  /\ floor'[f].no <= turns'
             /\ ~Exists(f)' => floor'[f].path = {} /\ floor'[f].parent = NoFloor
             /\ Exists(f)' => f \in floor'[f].path
             /\ \A g \in floor'[f].path : Exists(g)'
             /\ floor'[f].parent # NoFloor =>
                  Exists(floor[f].parent)' /\ floor'[floor'[f].parent].path \subseteq floor'[f].path
             /\ floor[f].path \subseteq floor'[f].path
  <2>1. CASE Exists(f)
    <3>1. RowKept(f)
      BY <2>1 DEF RowsStep
    <3>2. floor[f].no <= turns /\ f \in floor[f].path
          /\ (\A g \in floor[f].path : Exists(g))
          /\ (floor[f].parent # NoFloor =>
                Exists(floor[f].parent) /\ floor[floor[f].parent].path \subseteq floor[f].path)
      BY <2>1 DEF RowsSound
    <3>3. PICK p : p = floor[f].parent
      OBVIOUS
    <3>4. p \in Floors \cup {NoFloor} /\ floor'[f].parent = p
      BY <1>2, <3>1, <3>3 DEF RowKept
    <3>5. p # NoFloor => Exists(p)' /\ floor'[p].path = floor[p].path
      BY <1>4, <3>2, <3>3, <3>4
    <3>6. floor'[f].no <= turns'
      BY <1>2, <1>3, <3>1, <3>2 DEF RowKept
    <3>7. Exists(f)' /\ floor'[f].path = floor[f].path
      BY <1>4, <2>1
    <3>8. \A g \in floor[f].path : Exists(g)'
      BY <1>2, <1>4, <3>2
    <3>9. p # NoFloor => Exists(p)' /\ floor'[p].path \subseteq floor'[f].path
      BY <3>2, <3>3, <3>5, <3>7
    <3> QED BY <3>2, <3>4, <3>6, <3>7, <3>8, <3>9
  <2>2. CASE ~Exists(f)
    <3>1. floor[f].no <= turns /\ floor[f].path = {} /\ floor[f].parent = NoFloor
      BY <2>2 DEF RowsSound
    <3>2. CASE floor'[f] = floor[f]
      BY <1>2, <1>3, <2>2, <3>1, <3>2 DEF Exists
    <3>3. CASE RowGrown(f)
      <4>1. CASE floor'[f].parent = NoFloor /\ floor'[f].path = {f}
        BY <3>1, <3>3, <4>1 DEF RowGrown, Exists
      <4>2. CASE floor'[f].parent # NoFloor
        <5>1. PICK p : p = floor'[f].parent
          OBVIOUS
        <5>2. p \in Floors /\ Exists(p) /\ floor'[f].path = floor[p].path \cup {f}
              /\ Exists(f)' /\ floor'[f].no <= turns'
          BY <3>3, <4>2, <5>1 DEF RowGrown, Exists
        <5>3. \A g \in floor[p].path : g \in Floors /\ Exists(g)
          BY <1>2, <5>2 DEF RowsSound
        <5>4. \A g \in floor'[f].path : Exists(g)'
          BY <1>4, <5>2, <5>3
        <5>5. Exists(p)' /\ floor'[p].path \subseteq floor'[f].path /\ f \in floor'[f].path
          BY <1>4, <5>2
        <5> QED BY <3>1, <5>1, <5>2, <5>4, <5>5
      <4> QED BY <3>3, <4>1, <4>2 DEF RowGrown
    <3> QED BY <2>2, <3>2, <3>3 DEF RowsStep
  <2> QED BY <2>1, <2>2
<1>6. RowsSound'
  <2> SUFFICES ASSUME NEW f \in Floors
               PROVE  /\ floor'[f].no <= turns'
                      /\ ~Exists(f)' => floor'[f].path = {} /\ floor'[f].parent = NoFloor
                      /\ Exists(f)' => f \in floor'[f].path
                      /\ \A g \in floor'[f].path : Exists(g)'
                      /\ floor'[f].parent # NoFloor =>
                           /\ Exists(floor[f].parent)'
                           /\ floor'[floor'[f].parent].path \subseteq floor'[f].path
    BY DEF RowsSound, Exists
  <2> QED BY <1>5
<1>7. \A f \in Floors : \A g \in floor[f].path :
        g \in floor'[f].path /\ floor'[g].branch = floor[g].branch
  BY <1>2, <1>4, <1>5 DEF RowsSound
<1> QED
  BY <1>6, <1>7

\* Nothing that is in a live head or a snapshot changes sides while batches keep
\* their branch.
LEMMA ApartUnchanged ==
  ASSUME StateConstants, StateInv, RowsStep, UNCHANGED <<liveHead, snapshot>>,
         \A w \in Batches : w <= used => batch'[w].branch = batch[w].branch
  PROVE  BranchesStayApart'
<1> USE DEF StateInv
<1>1. \A b \in Branches, s \in Slots : liveHead[b][s].batch <= used
                                       /\ liveHead[b][s].batch \in 0 .. MaxBatches
  BY DEF TypeOK, ValuesSound, Value
<1>2. \A f \in Floors, s \in Slots : snapshot[f][s].batch <= used
                                     /\ snapshot[f][s].batch \in 0 .. MaxBatches
  BY DEF TypeOK, ValuesSound, Value
<1>3. \A n \in 0 .. MaxBatches : n # 0 => n \in Batches
  BY DEF Batches, StateConstants
<1>4. ASSUME NEW b \in Branches, NEW s \in Slots, liveHead[b][s].batch # 0
      PROVE  batch'[liveHead[b][s].batch].branch = b
  BY <1>1, <1>3, <1>4 DEF BranchesStayApart
<1>5. ASSUME NEW f \in Floors, NEW s \in Slots, snapshot[f][s].batch # 0
      PROVE  batch'[snapshot[f][s].batch].branch \in {floor'[g].branch : g \in floor'[f].path}
  <2>1. batch[snapshot[f][s].batch].branch \in {floor[g].branch : g \in floor[f].path}
    BY <1>5 DEF BranchesStayApart
  <2>2. batch'[snapshot[f][s].batch].branch = batch[snapshot[f][s].batch].branch
    BY <1>2, <1>3, <1>5
  <2>3. {floor[g].branch : g \in floor[f].path} \subseteq {floor'[g].branch : g \in floor'[f].path}
    BY PathsGrow
  <2> QED BY <2>1, <2>2, <2>3
<1> QED
  BY <1>4, <1>5 DEF BranchesStayApart

-----------------------------------------------------------------------------
(* Every action keeps the invariant.                                       *)

\* What an action that leaves values and used batches alone still has to show.
LEMMA ValuesUnchanged ==
  ASSUME StateConstants, StateInv, RowsStep, UNCHANGED <<liveHead, snapshot>>,
         used' \in Nat, used <= used',
         \A w \in Batches : w <= used => batch'[w].branch = batch[w].branch
  PROVE  RowsSound' /\ ValuesSound' /\ BranchesStayApart'
<1>1. RowsSound' /\ BranchesStayApart'
  BY PathsGrow, ApartUnchanged
<1>2. /\ \A b \in Branches, s \in Slots : liveHead[b][s].batch \in Nat
      /\ \A f \in Floors, s \in Slots : snapshot[f][s].batch \in Nat
      /\ used \in Nat
  BY DEF StateInv, TypeOK, Value
<1>3. ValuesSound'
  BY <1>2 DEF StateInv, ValuesSound
<1> QED
  BY <1>1, <1>3

LEMMA StartKeeps ==
  ASSUME StateConstants, StateInv, NEW b \in Branches, NEW f \in Floors, RowsStep, Started(b, f)
  PROVE  StateInv'
<1> USE DEF StateInv
<1>1. TypeOK'
  BY DEF TypeOK, RowsStep, Started
<1>2. RowsSound' /\ ValuesSound' /\ BranchesStayApart'
  <2>1. used \in Nat
    BY DEF TypeOK
  <2> QED BY <2>1, ValuesUnchanged DEF Started
<1>3. NoFloor \notin Floors
  BY DEF StateConstants
<1>4. \A c \in Branches : turn[c].floor # f
  BY <1>3 DEF Started, TurnsSound
<1>5. TurnsSound'
  <2> SUFFICES ASSUME NEW c \in Branches
               PROVE  /\ turn'[c].stage = "idle" => turn'[c].floor = NoFloor
                      /\ turn'[c].stage # "idle" => /\ turn'[c].floor \in Floors
                                                    /\ floor'[turn'[c].floor].state = "generating"
                                                    /\ floor'[turn'[c].floor].branch = c
    BY DEF TurnsSound
  <2>1. CASE c = b
    BY <2>1 DEF Started
  <2>2. CASE c # b
    <3>1. turn'[c] = turn[c]
      BY <2>2 DEF Started
    <3>2. PICK g : g = turn[c].floor
      OBVIOUS
    <3>3. turn[c].stage = "idle" => g = NoFloor
      BY <3>2 DEF TurnsSound
    <3>4. ASSUME turn[c].stage # "idle"
          PROVE  g \in Floors /\ floor'[g].state = "generating" /\ floor'[g].branch = c
      <4>1. g \in Floors /\ floor[g].state = "generating" /\ floor[g].branch = c /\ g # f
        BY <1>4, <3>2, <3>4 DEF TurnsSound
      <4> QED BY <4>1 DEF Started, RowsStep, RowKept, Exists
    <3> QED BY <3>1, <3>2, <3>3, <3>4
  <2> QED BY <2>1, <2>2
<1>6. BatchesSound'
  BY DEF BatchesSound, Started, RowsStep, RowKept, Exists
<1>7. LostIsDead'
  <2> SUFFICES ASSUME NEW w \in lost \ kept
               PROVE  /\ batch[w].status = "staged"
                      /\ floor'[batch[w].floor].state \in {"generating", "failed"}
                      /\ \A c \in Branches : turn'[c].floor # batch[w].floor
    BY DEF LostIsDead, Started
  <2>1. /\ batch[w].status = "staged" /\ batch[w].floor \in Floors
        /\ floor[batch[w].floor].state \in {"generating", "failed"}
        /\ \A c \in Branches : turn[c].floor # batch[w].floor
    BY DEF LostIsDead, BatchesSound, TypeOK
  <2>2. batch[w].floor # f
    BY <2>1 DEF Started
  <2> QED BY <2>1, <2>2 DEF Started
<1>8. KeptIsOlder'
  BY DEF KeptIsOlder, Started
<1>9. OnlyCommittedTurnsWrite'
  <2> SUFFICES ASSUME NEW w \in Batches
               PROVE  /\ w \in lost \ kept => batch[w].status # "applied"
                      /\ batch[w].status = "staged" /\ w \notin lost \cup kept =>
                           /\ turn'[batch[w].branch].stage = "staged"
                           /\ turn'[batch[w].branch].floor = batch[w].floor
    BY DEF OnlyCommittedTurnsWrite, Started
  <2>1. batch[w].branch \in Branches
    BY DEF TypeOK, Batch
  <2>2. batch[w].status = "staged" /\ w \notin lost \cup kept => batch[w].branch # b
    BY DEF OnlyCommittedTurnsWrite, Started
  <2> QED BY <2>1, <2>2 DEF OnlyCommittedTurnsWrite, Started
<1> QED
  BY <1>1, <1>2, <1>5, <1>6, <1>7, <1>8, <1>9

\* An action that leaves the floors alone.
LEMMA RowsUnchanged ==
  ASSUME StateInv, UNCHANGED <<floor, turns>>
  PROVE  RowsStep
BY DEF StateInv, TypeOK, RowsStep, RowKept, Exists

LEMMA StageKeeps ==
  ASSUME StateConstants, StateInv, NEW b \in Branches, Stage(b)
  PROVE  StateInv'
<1> USE DEF StateInv
<1>1. /\ turn[b].stage = "running" /\ turn' = [turn EXCEPT ![b].stage = "staged"]
      /\ UNCHANGED <<floor, liveHead, snapshot, now, turns, crashes, lost, kept, rewritten, early>>
  BY DEF Stage
<1>2. PICK f : f = turn[b].floor
  OBVIOUS
<1>3. /\ f \in Floors /\ floor[f].state = "generating" /\ floor[f].branch = b
      /\ turn[b] \in Turn /\ used \in Nat
  BY <1>1, <1>2 DEF TurnsSound, TypeOK
<1>4. \/ UNCHANGED <<batch, used>>
      \/ \E slots \in SUBSET Slots :
           /\ used + 1 \in Batches
           /\ used' = used + 1
           /\ batch' = [batch EXCEPT ![used + 1] =
                [status |-> "staged", slots |-> slots, branch |-> b, floor |-> f]]
  <2>1. used < MaxBatches => used + 1 \in Batches
    BY <1>3 DEF Batches, StateConstants
  <2> QED BY <1>2, <2>1 DEF Stage
<1>5. /\ used' \in Nat /\ used <= used'
      /\ \A w \in Batches : /\ w <= used => batch'[w] = batch[w]
                            /\ w > used' => batch'[w] = batch[w]
                            /\ w \in Nat
      /\ used' # used => /\ used' = used + 1 /\ used' \in Batches
                         /\ batch'[used'] \in Batch /\ batch'[used'].status = "staged"
                         /\ batch'[used'].branch = b /\ batch'[used'].floor = f
      /\ used' = used => batch' = batch
      /\ batch' \in [Batches -> Batch] /\ used' \in 0 .. MaxBatches
  <2>1. \A w \in Batches : w \in Nat
    BY DEF Batches
  <2>2. CASE UNCHANGED <<batch, used>>
    BY <1>3, <2>1, <2>2 DEF TypeOK
  <2>3. CASE ~UNCHANGED <<batch, used>>
    <3>1. PICK slots \in SUBSET Slots :
            /\ used + 1 \in Batches
            /\ used' = used + 1
            /\ batch' = [batch EXCEPT ![used + 1] =
                 [status |-> "staged", slots |-> slots, branch |-> b, floor |-> f]]
      BY <1>4, <2>3
    <3>2. [status |-> "staged", slots |-> slots, branch |-> b, floor |-> f] \in Batch
      BY <1>3 DEF Batch
    <3>3. used + 1 \in 0 .. MaxBatches
      BY <3>1 DEF Batches, StateConstants
    <3> QED BY <1>3, <2>1, <3>1, <3>2, <3>3 DEF TypeOK
  <2> QED BY <2>2, <2>3
<1>6. TypeOK'
  <2>1. turn' \in [Branches -> Turn]
    BY <1>1, <1>3 DEF TypeOK, Turn
  <2> QED BY <1>1, <1>5, <2>1 DEF TypeOK
<1>7. RowsSound' /\ ValuesSound' /\ BranchesStayApart'
  BY <1>1, <1>5, RowsUnchanged, ValuesUnchanged
<1>8. /\ turn'[b].stage = "staged" /\ turn'[b].floor = f
      /\ \A c \in Branches \ {b} : turn'[c] = turn[c]
  BY <1>1, <1>2, <1>3 DEF TypeOK, Turn
<1>9. TurnsSound'
  BY <1>1, <1>2, <1>3, <1>8 DEF TurnsSound
<1>10. BatchesSound'
  <2> SUFFICES ASSUME NEW w \in Batches
               PROVE  /\ w > used' => batch'[w].status = "unused" /\ w \notin lost \cup kept
                      /\ batch'[w].status = "staged" =>
                           /\ batch'[w].floor \in Floors
                           /\ floor[batch'[w].floor].state # "none"
                           /\ batch'[w].branch = floor[batch'[w].floor].branch
    BY <1>1 DEF BatchesSound, Exists
  <2>1. CASE used' # used /\ w = used'
    BY <1>3, <1>5, <2>1
  <2>2. CASE ~(used' # used /\ w = used')
    <3>1. batch'[w] = batch[w] /\ (w > used' => w > used)
      BY <1>3, <1>5, <2>2
    <3> QED BY <3>1 DEF BatchesSound, Exists
  <2> QED BY <2>1, <2>2
<1>11. \A w \in lost \cup kept : w \in Batches /\ w <= used /\ batch'[w] = batch[w]
  <2>1. lost \cup kept \subseteq Batches
    BY DEF TypeOK
  <2> QED BY <1>3, <1>5, <2>1 DEF BatchesSound
<1>12. LostIsDead'
  BY <1>1, <1>2, <1>8, <1>11 DEF LostIsDead
<1>13. KeptIsOlder'
  <2> SUFFICES ASSUME NEW w \in kept, NEW x \in Batches \ (kept \cup lost),
                      batch'[w].status = "staged", batch'[x].status = "staged",
                      batch'[w].floor = batch'[x].floor
               PROVE  w < x
    BY <1>1 DEF KeptIsOlder
  <2>1. w \in Batches /\ w <= used /\ batch'[w] = batch[w] /\ w \in Nat /\ x \in Nat
    BY <1>5, <1>11
  <2>2. CASE x <= used
    BY <1>5, <2>1, <2>2 DEF KeptIsOlder
  <2>3. CASE ~(x <= used)
    BY <1>3, <2>1, <2>3
  <2> QED BY <2>2, <2>3
<1>14. OnlyCommittedTurnsWrite'
  <2> SUFFICES ASSUME NEW w \in Batches
               PROVE  /\ w \in lost \ kept => batch'[w].status # "applied"
                      /\ batch'[w].status = "staged" /\ w \notin lost \cup kept =>
                           /\ turn'[batch'[w].branch].stage = "staged"
                           /\ turn'[batch'[w].branch].floor = batch'[w].floor
    BY <1>1 DEF OnlyCommittedTurnsWrite
  <2>1. w \in lost \ kept => batch'[w].status # "applied"
    BY <1>11 DEF OnlyCommittedTurnsWrite
  <2>2. ASSUME batch'[w].status = "staged", w \notin lost \cup kept
        PROVE  /\ turn'[batch'[w].branch].stage = "staged"
               /\ turn'[batch'[w].branch].floor = batch'[w].floor
    <3>1. CASE used' # used /\ w = used'
      BY <1>5, <1>8, <3>1
    <3>2. CASE ~(used' # used /\ w = used')
      <4>1. batch'[w] = batch[w]
        <5>1. CASE w <= used \/ w > used'
          BY <1>5, <5>1
        <5>2. CASE ~(w <= used \/ w > used')
          <6>1. used' # used
            BY <1>3, <1>5, <5>2
          <6>2. w = used'
            BY <1>3, <1>5, <5>2, <6>1
          <6> QED BY <3>2, <6>1, <6>2
        <5> QED BY <5>1, <5>2
      <4>2. batch[w].branch \in Branches
        BY DEF TypeOK, Batch
      <4>3. batch[w].branch # b
        BY <1>1, <2>2, <4>1, SMTT(30) DEF OnlyCommittedTurnsWrite
      <4> QED BY <1>8, <2>2, <4>1, <4>2, <4>3 DEF OnlyCommittedTurnsWrite
    <3> QED BY <3>1, <3>2
  <2> QED BY <2>1, <2>2
<1> QED
  BY <1>6, <1>7, <1>9, <1>10, <1>12, <1>13, <1>14

LEMMA TurnFailsKeeps ==
  ASSUME StateConstants, StateInv, NEW b \in Branches, TurnFails(b)
  PROVE  StateInv'
<1> USE DEF StateInv
<1>1. PICK f : f = turn[b].floor
  OBVIOUS
<1>2. /\ turn[b].stage # "idle" /\ turn' = [turn EXCEPT ![b] = NoTurn]
      /\ \/ batch' = Discarded(StagedFor(f)) /\ kept' = kept
         \/ kept' = kept \cup StagedFor(f) /\ batch' = batch
      /\ UNCHANGED <<used, liveHead, snapshot, now, turns, crashes, lost, rewritten, early>>
  BY <1>1 DEF TurnFails
<1>3. /\ f \in Floors /\ floor[f].state = "generating" /\ floor[f].branch = b
      /\ NoTurn \in Turn /\ NoTurn.stage = "idle" /\ NoTurn.floor = NoFloor
      /\ NoFloor \notin Floors
  BY <1>1, <1>2 DEF TurnsSound, NoTurn, Turn, StateConstants
<1>4. /\ floor' \in [Floors -> FloorRow]
      /\ floor'[f].state \in {"failed", "generating", "committed"}
      /\ \A g \in Floors : /\ g # f => floor'[g].state = floor[g].state
                           /\ floor'[g].branch = floor[g].branch /\ floor'[g].no = floor[g].no
                           /\ floor'[g].parent = floor[g].parent
                           /\ floor'[g].path = floor[g].path
                           /\ Exists(f) /\ (~Exists(g) => floor'[g] = floor[g] \/ g = floor[f].parent)
  <2>1. PICK end \in {"failed", "generating", "committed"} :
          \/ floor' = [floor EXCEPT ![f].state = end]
          \/ floor' = [floor EXCEPT ![f].state = end, ![f].live = FALSE,
                                    ![floor[f].parent].live = TRUE]
    BY <1>1 DEF TurnFails
  <2>2. \A g \in Floors : floor[g] \in FloorRow
    BY DEF TypeOK
  <2>3. CASE floor' = [floor EXCEPT ![f].state = end]
    BY <1>3, <2>1, <2>2, <2>3 DEF TypeOK, FloorRow, Exists
  <2>4. CASE floor' = [floor EXCEPT ![f].state = end, ![f].live = FALSE,
                                    ![floor[f].parent].live = TRUE]
    <3>1. PICK p : p = floor[f].parent
      OBVIOUS
    <3>2. PICK row : row = [[floor[f] EXCEPT !.state = end] EXCEPT !.live = FALSE]
      OBVIOUS
    <3>3. /\ row \in FloorRow /\ row.state = end /\ row.branch = floor[f].branch
          /\ row.no = floor[f].no /\ row.parent = floor[f].parent /\ row.path = floor[f].path
      BY <1>3, <2>1, <2>2, <3>2 DEF FloorRow
    <3>4. \A g \in Floors : floor'[g] = IF g = p THEN [(IF g = f THEN row ELSE floor[g])
                                                         EXCEPT !.live = TRUE]
                                        ELSE IF g = f THEN row ELSE floor[g]
      BY <1>3, <2>4, <3>1, <3>2 DEF TypeOK
    <3>5. \A r \in FloorRow :
            LET q == [r EXCEPT !.live = TRUE]
            IN  /\ q \in FloorRow /\ q.state = r.state /\ q.branch = r.branch /\ q.no = r.no
                /\ q.parent = r.parent /\ q.path = r.path
      BY DEF FloorRow
    <3>6. DOMAIN floor' = Floors /\ floor' = [g \in Floors |-> floor'[g]]
      BY <2>4 DEF TypeOK
    <3>7. \A g \in Floors : floor'[g] \in FloorRow
      BY <2>2, <3>3, <3>4, <3>5
    <3>8. floor' \in [Floors -> FloorRow]
      BY <3>6, <3>7
    <3>9. \A g \in Floors : /\ g # f => floor'[g].state = floor[g].state
                            /\ g = f => floor'[g].state = end
                            /\ floor'[g].branch = floor[g].branch /\ floor'[g].no = floor[g].no
                            /\ floor'[g].parent = floor[g].parent
                            /\ floor'[g].path = floor[g].path
      <4>1. TAKE g \in Floors
      <4>2. PICK r : r = IF g = f THEN row ELSE floor[g]
        OBVIOUS
      <4>3. r \in FloorRow
        BY <2>2, <3>3, <4>2
      <4>4. floor'[g] = r \/ floor'[g] = [r EXCEPT !.live = TRUE]
        BY <3>4, <4>2
      <4>5. PICK q : q = [r EXCEPT !.live = TRUE]
        OBVIOUS
      <4>6. /\ q.state = r.state /\ q.branch = r.branch /\ q.no = r.no
            /\ q.parent = r.parent /\ q.path = r.path
        BY <4>3, <4>5 DEF FloorRow
      <4>7. /\ floor'[g].state = r.state /\ floor'[g].branch = r.branch /\ floor'[g].no = r.no
            /\ floor'[g].parent = r.parent /\ floor'[g].path = r.path
        BY <4>4, <4>5, <4>6
      <4> QED BY <3>3, <4>2, <4>7
    <3>10. \A g \in Floors : ~Exists(g) => floor'[g] = floor[g] \/ g = floor[f].parent
      BY <1>3, <3>1, <3>4 DEF Exists
    <3> QED BY <1>3, <2>1, <3>8, <3>9, <3>10 DEF Exists
  <2> QED BY <2>1, <2>3, <2>4, SMTT(30)
<1>5. RowsStep
  <2>1. floor[f].parent # NoFloor => Exists(floor[f].parent)
    BY <1>3 DEF RowsSound
  <2>2. \A g \in Floors : Exists(g) => RowKept(g)
    BY <1>4 DEF RowKept, Exists
  <2>3. \A g \in Floors : ~Exists(g) => floor'[g] = floor[g]
    BY <1>3, <1>4, <2>1
  <2> QED BY <1>2, <1>4, <2>2, <2>3 DEF RowsStep, TypeOK
<1>6. /\ batch' \in [Batches -> Batch]
      /\ \A w \in Batches : /\ batch'[w].branch = batch[w].branch
                            /\ batch'[w].floor = batch[w].floor
                            /\ batch'[w].status = "staged" => batch[w].status = "staged"
                            /\ batch'[w].status = "applied" => batch[w].status = "applied"
                            /\ w \notin StagedFor(f) => batch'[w] = batch[w]
                            /\ w \in StagedFor(f) /\ w \notin kept' => batch'[w].status = "discarded"
  <2>1. CASE batch' = Discarded(StagedFor(f))
    <3>1. \A w \in Batches : batch[w] \in Batch
                              /\ (w \in StagedFor(f) => batch[w].status = "staged")
      BY DEF TypeOK, StagedFor
    <3>2. \A w \in Batches : batch'[w] = IF w \in StagedFor(f)
                                          THEN [batch[w] EXCEPT !.status = "discarded"]
                                          ELSE batch[w]
      BY <2>1 DEF Discarded
    <3>3. \A w \in Batches : batch'[w] \in Batch
      BY <3>1, <3>2 DEF Batch
    <3>4. batch' \in [Batches -> Batch]
      BY <2>1, <3>3 DEF Discarded
    <3>5. \A w \in StagedFor(f) :
            /\ w \in Batches => /\ batch'[w].status = "discarded"
                               /\ batch'[w].branch = batch[w].branch
                               /\ batch'[w].floor = batch[w].floor
      BY <3>1, <3>2 DEF Batch
    <3> QED BY <3>1, <3>2, <3>4, <3>5
  <2>2. CASE batch' = batch /\ kept' = kept \cup StagedFor(f)
    BY <2>2 DEF TypeOK
  <2> QED BY <1>2, <2>1, <2>2
<1>7. /\ kept' \subseteq Batches /\ kept \subseteq kept'
      /\ kept' \subseteq kept \cup StagedFor(f)
      /\ kept' # kept => StagedFor(f) \subseteq kept'
  BY <1>2 DEF TypeOK, StagedFor
<1>8. TypeOK'
  <2>1. turn' \in [Branches -> Turn]
    BY <1>2, <1>3 DEF TypeOK
  <2> QED BY <1>2, <1>4, <1>6, <1>7, <2>1 DEF TypeOK
<1>9. RowsSound' /\ ValuesSound' /\ BranchesStayApart'
  <2>1. used \in Nat /\ used' = used
    BY <1>2 DEF TypeOK
  <2> QED BY <1>2, <1>5, <1>6, <2>1, ValuesUnchanged
<1>10. /\ turn'[b] = NoTurn
       /\ \A c \in Branches \ {b} : turn'[c] = turn[c] /\ turn'[c].floor # f
  BY <1>2, <1>3 DEF TypeOK, TurnsSound
<1>11. TurnsSound'
  <2> SUFFICES ASSUME NEW c \in Branches \ {b}
               PROVE  /\ turn[c].stage = "idle" => turn[c].floor = NoFloor
                      /\ turn[c].stage # "idle" => /\ turn[c].floor \in Floors
                                                   /\ floor'[turn[c].floor].state = "generating"
                                                   /\ floor'[turn[c].floor].branch = c
    BY <1>3, <1>10 DEF TurnsSound
  <2> QED BY <1>4, <1>10 DEF TurnsSound
<1>12. \A w \in Batches : batch[w].status = "staged" => batch[w].floor \in Floors
  BY DEF BatchesSound
<1>13. BatchesSound'
  <2> SUFFICES ASSUME NEW w \in Batches
               PROVE  /\ w > used => batch'[w].status = "unused" /\ w \notin lost \cup kept'
                      /\ batch'[w].status = "staged" =>
                           /\ batch'[w].floor \in Floors
                           /\ floor'[batch'[w].floor].state # "none"
                           /\ batch'[w].branch = floor'[batch'[w].floor].branch
    BY <1>2 DEF BatchesSound, Exists
  <2>1. w > used => w \notin StagedFor(f)
    BY DEF BatchesSound, StagedFor
  <2>2. w > used => batch'[w].status = "unused" /\ w \notin lost \cup kept'
    BY <1>6, <1>7, <2>1 DEF BatchesSound
  <2>3. ASSUME batch'[w].status = "staged"
        PROVE  /\ batch'[w].floor \in Floors
               /\ floor'[batch'[w].floor].state # "none"
               /\ batch'[w].branch = floor'[batch'[w].floor].branch
    <3>1. /\ batch[w].floor \in Floors /\ Exists(batch[w].floor)
          /\ batch[w].branch = floor[batch[w].floor].branch
      BY <1>6, <2>3 DEF BatchesSound
    <3> QED BY <1>4, <1>6, <3>1 DEF Exists
  <2> QED BY <2>2, <2>3
<1>14. LostIsDead'
  <2> SUFFICES ASSUME NEW w \in lost \ kept'
               PROVE  /\ batch'[w].status = "staged"
                      /\ floor'[batch'[w].floor].state \in {"generating", "failed"}
                      /\ \A c \in Branches : turn'[c].floor # batch'[w].floor
    BY <1>2 DEF LostIsDead
  <2>1. w \in lost \ kept /\ w \in Batches
    BY <1>7 DEF TypeOK
  <2>2. batch[w].floor # f /\ batch[w].status = "staged" /\ batch[w].floor \in Floors
        /\ floor[batch[w].floor].state \in {"generating", "failed"}
        /\ \A c \in Branches : turn[c].floor # batch[w].floor
    BY <1>1, <1>12, <2>1 DEF LostIsDead
  <2>3. batch'[w] = batch[w]
    BY <1>6, <2>1, <2>2 DEF StagedFor
  <2>4. \A c \in Branches : turn'[c].floor # batch[w].floor
    BY <1>3, <1>10, <2>2
  <2> QED BY <1>4, <2>2, <2>3, <2>4
<1>15. KeptIsOlder'
  <2> SUFFICES ASSUME NEW w \in kept', NEW x \in Batches \ (kept' \cup lost),
                      batch'[w].status = "staged", batch'[x].status = "staged",
                      batch'[w].floor = batch'[x].floor
               PROVE  w < x
    BY <1>2 DEF KeptIsOlder
  <2>1. /\ w \in Batches /\ batch[w].status = "staged" /\ batch[x].status = "staged"
        /\ batch[w].floor = batch[x].floor
    BY <1>6, <1>7
  <2>2. x \notin StagedFor(f)
    BY <1>6
  <2>3. w \in kept
    BY <1>7, <2>1, <2>2 DEF StagedFor
  <2> QED BY <1>7, <2>1, <2>3 DEF KeptIsOlder
<1>16. OnlyCommittedTurnsWrite'
  <2> SUFFICES ASSUME NEW w \in Batches
               PROVE  /\ w \in lost \ kept' => batch'[w].status # "applied"
                      /\ batch'[w].status = "staged" /\ w \notin lost \cup kept' =>
                           /\ turn'[batch'[w].branch].stage = "staged"
                           /\ turn'[batch'[w].branch].floor = batch'[w].floor
    BY <1>2 DEF OnlyCommittedTurnsWrite
  <2>1. w \in lost \ kept' => batch'[w].status # "applied"
    BY <1>6, <1>7 DEF OnlyCommittedTurnsWrite
  <2>2. ASSUME batch'[w].status = "staged", w \notin lost \cup kept'
        PROVE  /\ turn'[batch'[w].branch].stage = "staged"
               /\ turn'[batch'[w].branch].floor = batch'[w].floor
    <3>1. w \notin StagedFor(f) /\ batch[w].status = "staged" /\ w \notin lost \cup kept
      BY <1>6, <1>7, <2>2
    <3>2. batch'[w] = batch[w] /\ batch[w].floor # f /\ batch[w].branch \in Branches
      BY <1>6, <3>1 DEF StagedFor, TypeOK, Batch
    <3>3. turn[batch[w].branch].stage = "staged" /\ turn[batch[w].branch].floor = batch[w].floor
      BY <3>1 DEF OnlyCommittedTurnsWrite
    <3>4. batch[w].branch # b
      BY <1>1, <3>2, <3>3
    <3> QED BY <1>10, <3>2, <3>3, <3>4
  <2> QED BY <2>1, <2>2
<1> QED
  BY <1>8, <1>9, <1>11, <1>13, <1>14, <1>15, <1>16

LEMMA ReapKeeps ==
  ASSUME StateConstants, StateInv, NEW f \in Floors, Reap(f)
  PROVE  StateInv'
<1> USE DEF StateInv
<1>1. /\ floor[f].state = "generating" /\ \A b \in Branches : turn[b].floor # f
      /\ floor' = [floor EXCEPT ![f].state = "failed"]
      /\ UNCHANGED <<turn, batch, used, liveHead, snapshot, now, turns, crashes, lost, kept,
                     rewritten, early>>
  BY DEF Reap
<1>2. floor[f] \in FloorRow
  BY DEF TypeOK
<1>3. /\ floor' \in [Floors -> FloorRow] /\ floor'[f].state = "failed"
      /\ \A g \in Floors \ {f} : floor'[g] = floor[g]
      /\ floor'[f].branch = floor[f].branch
  BY <1>1, <1>2 DEF TypeOK, FloorRow
<1>4. RowsStep
  <2>1. \A g \in Floors : Exists(g) => RowKept(g)
    BY <1>1, <1>2, <1>3 DEF RowKept, Exists, FloorRow, TypeOK
  <2>2. \A g \in Floors : ~Exists(g) => floor'[g] = floor[g]
    BY <1>1, <1>3 DEF Exists
  <2> QED BY <1>1, <1>3, <2>1, <2>2 DEF RowsStep, TypeOK
<1>5. RowsSound' /\ ValuesSound' /\ BranchesStayApart'
  <2>1. used \in Nat
    BY DEF TypeOK
  <2> QED BY <1>1, <1>4, <2>1, ValuesUnchanged
<1>6. TypeOK'
  BY <1>1, <1>3 DEF TypeOK
<1>7. TurnsSound'
  BY <1>1, <1>3 DEF TurnsSound
<1>8. BatchesSound'
  BY <1>1, <1>3 DEF BatchesSound, Exists
<1>9. LostIsDead'
  <2> SUFFICES ASSUME NEW w \in lost \ kept
               PROVE  floor'[batch[w].floor].state \in {"generating", "failed"}
    BY <1>1 DEF LostIsDead
  <2>1. batch[w].floor \in Floors /\ floor[batch[w].floor].state \in {"generating", "failed"}
    BY DEF LostIsDead, BatchesSound, TypeOK
  <2> QED BY <1>3, <2>1
<1>10. KeptIsOlder' /\ OnlyCommittedTurnsWrite'
  BY <1>1 DEF KeptIsOlder, OnlyCommittedTurnsWrite
<1> QED
  BY <1>5, <1>6, <1>7, <1>8, <1>9, <1>10

LEMMA CrashKeeps ==
  ASSUME StateConstants, StateInv, Crash
  PROVE  StateInv'
<1> USE DEF StateInv
<1>1. PICK left : left = UNION {StagedFor(turn[b].floor) : b \in Branches}
  OBVIOUS
<1>2. /\ turn' = [b \in Branches |-> NoTurn] /\ lost' = lost \cup left /\ crashes' = crashes + 1
      /\ UNCHANGED <<floor, batch, used, liveHead, snapshot, now, turns, kept, rewritten, early>>
  BY <1>1 DEF Crash
<1>3. \A w \in left : /\ w \in Batches /\ batch[w].status = "staged"
                      /\ \E b \in Branches : turn[b].floor = batch[w].floor
  BY <1>1 DEF StagedFor
<1>4. NoTurn \in Turn /\ NoTurn.stage = "idle" /\ NoTurn.floor = NoFloor /\ NoFloor \notin Floors
  BY DEF NoTurn, Turn, StateConstants
<1>5. TypeOK'
  BY <1>2, <1>3, <1>4 DEF TypeOK
<1>6. RowsSound' /\ ValuesSound' /\ BranchesStayApart'
  <2>1. used \in Nat
    BY DEF TypeOK
  <2> QED BY <1>2, <2>1, RowsUnchanged, ValuesUnchanged
<1>7. TurnsSound'
  BY <1>2, <1>4 DEF TurnsSound
<1>8. BatchesSound'
  <2>1. \A w \in left : ~(w > used)
    BY <1>3 DEF BatchesSound
  <2> QED BY <1>2, <2>1 DEF BatchesSound, Exists
<1>9. LostIsDead'
  <2> SUFFICES ASSUME NEW w \in lost' \ kept
               PROVE  /\ batch[w].status = "staged"
                      /\ floor[batch[w].floor].state \in {"generating", "failed"}
                      /\ batch[w].floor # NoFloor
    BY <1>2, <1>4 DEF LostIsDead
  <2>1. CASE w \in lost
    <3>1. batch[w].status = "staged" /\ w \in Batches
          /\ floor[batch[w].floor].state \in {"generating", "failed"}
      BY <2>1 DEF LostIsDead, TypeOK
    <3> QED BY <1>4, <3>1 DEF BatchesSound
  <2>2. CASE w \in left
    <3>1. PICK b \in Branches : turn[b].floor = batch[w].floor
      BY <1>3, <2>2
    <3>2. batch[w].status = "staged" /\ batch[w].floor \in Floors
      BY <1>3, <2>2 DEF BatchesSound
    <3>3. turn[b].stage # "idle"
      BY <1>4, <3>1, <3>2 DEF TurnsSound
    <3> QED BY <1>4, <3>1, <3>2, <3>3 DEF TurnsSound
  <2> QED BY <1>2, <2>1, <2>2
<1>10. KeptIsOlder'
  BY <1>2 DEF KeptIsOlder
<1>11. OnlyCommittedTurnsWrite'
  <2> SUFFICES ASSUME NEW w \in Batches
               PROVE  /\ w \in lost' \ kept => batch[w].status # "applied"
                      /\ batch[w].status = "staged" => w \in lost' \cup kept
    BY <1>2 DEF OnlyCommittedTurnsWrite
  <2>1. w \in lost' \ kept => batch[w].status # "applied"
    BY <1>2, <1>3 DEF OnlyCommittedTurnsWrite
  <2>2. ASSUME batch[w].status = "staged", w \notin lost \cup kept
        PROVE  w \in left
    <3>1. batch[w].branch \in Branches /\ turn[batch[w].branch].floor = batch[w].floor
      BY <2>2 DEF OnlyCommittedTurnsWrite, TypeOK, Batch
    <3> QED BY <1>1, <2>2, <3>1 DEF StagedFor
  <2> QED BY <1>2, <2>1, <2>2
<1> QED
  BY <1>5, <1>6, <1>7, <1>8, <1>9, <1>10, <1>11

-----------------------------------------------------------------------------
(* Applying batches.                                                       *)

LEMMA AppliedFacts ==
  ASSUME NEW ws \in SUBSET Batches, NEW bs \in [Batches -> Batch], NEW after,
         after = Applied(ws, bs)
  PROVE  /\ after \in [Batches -> Batch]
         /\ \A w \in Batches : w \notin ws => after[w] = bs[w]
         /\ \A w \in Batches : after[w].branch = bs[w].branch /\ after[w].floor = bs[w].floor
                               /\ after[w].slots = bs[w].slots
         /\ \A w \in ws : after[w].status = "applied"
<1>1. \A w \in Batches : bs[w] \in Batch
  OBVIOUS
<1>2. \A w \in Batches : after[w] = IF w \in ws THEN [bs[w] EXCEPT !.status = "applied"] ELSE bs[w]
  BY DEF Applied
<1>3. \A w \in Batches : after[w] \in Batch /\ after[w].branch = bs[w].branch
                         /\ after[w].floor = bs[w].floor /\ after[w].slots = bs[w].slots
                         /\ (w \in ws => after[w].status = "applied")
  BY <1>1, <1>2 DEF Batch
<1>4. after \in [Batches -> Batch]
  BY <1>3 DEF Applied
<1> QED
  BY <1>2, <1>3, <1>4

\* Which batch is last depends on the slots alone.
LEMMA LastOnSlots ==
  ASSUME StateConstants, NEW ws \in SUBSET Batches, NEW bs, NEW cs, NEW s,
         \A w \in ws : bs[w].slots = cs[w].slots
  PROVE  LastOn(ws, bs, s) = LastOn(ws, cs, s)
<1>1. PICK m : m = LastOn(ws, bs, s)
  OBVIOUS
<1>2. PICK n : n = LastOn(ws, cs, s)
  OBVIOUS
<1>3. \/ m = 0 /\ \A w \in ws : s \notin bs[w].slots
      \/ m \in ws /\ s \in bs[m].slots /\ \A w \in ws : s \in bs[w].slots => w <= m
  BY <1>1, LastOnIsLast
<1>4. \/ n = 0 /\ \A w \in ws : s \notin cs[w].slots
      \/ n \in ws /\ s \in cs[n].slots /\ \A w \in ws : s \in cs[w].slots => w <= n
  BY <1>2, LastOnIsLast
<1>5. ws \subseteq Nat
  BY DEF Batches
<1>6. CASE m = 0 /\ \A w \in ws : s \notin bs[w].slots
  BY <1>1, <1>2, <1>4, <1>6
<1>7. CASE m \in ws /\ s \in bs[m].slots /\ \A w \in ws : s \in bs[w].slots => w <= m
  <2>1. s \in cs[m].slots
    BY <1>7
  <2>2. n \in ws /\ s \in cs[n].slots /\ m <= n
    BY <1>4, <1>7, <2>1
  <2>3. n <= m
    BY <1>7, <2>2
  <2>4. m \in Nat /\ n \in Nat
    BY <1>5, <1>7, <2>2
  <2> QED BY <1>1, <1>2, <2>2, <2>3, <2>4
<1> QED
  BY <1>3, <1>6, <1>7

LEMMA HeadsTyped ==
  ASSUME StateConstants, TypeOK, NEW b \in Branches, NEW ws \in SUBSET Batches, NEW bs,
         NEW t \in Nat
  PROVE  Heads(b, ws, bs, t) \in [Branches -> [Slots -> Value]]
<1>1. \A s \in Slots : LastOn(ws, bs, s) \in 0 .. MaxBatches
  <2>1. TAKE s \in Slots
  <2>2. LastOn(ws, bs, s) = 0 \/ LastOn(ws, bs, s) \in ws
    BY LastOnIsLast
  <2>3. ws \subseteq 0 .. MaxBatches /\ 0 \in 0 .. MaxBatches
    BY DEF Batches, StateConstants
  <2> QED BY <2>2, <2>3
<1>2. \A s \in Slots : liveHead[b][s] \in Value
  BY DEF TypeOK
<1>3. PICK new : new = [s \in Slots |-> IF LastOn(ws, bs, s) = 0 THEN liveHead[b][s]
                                        ELSE [taken |-> TRUE, batch |-> LastOn(ws, bs, s), at |-> t]]
  OBVIOUS
<1>0. PICK heads : heads = Heads(b, ws, bs, t)
  OBVIOUS
<1>4. heads = [liveHead EXCEPT ![b] = new]
  BY <1>0, <1>3 DEF Heads
<1>5. new \in [Slots -> Value]
  BY <1>1, <1>2, <1>3 DEF Value
<1>6. heads[b] = new /\ heads \in [Branches -> [Slots -> Value]]
  BY <1>4, <1>5 DEF TypeOK
<1> QED
  BY <1>0, <1>3, <1>6

\* What a snapshot shows for a slot the commit does not write.
Older(f, b, s, w) ==
  \/ w = 0 \/ w = liveHead[b][s].batch \/ w = snapshot[f][s].batch
  \/ floor[f].parent # NoFloor /\ w = snapshot[floor[f].parent][s].batch

LEMMA SnapshotFacts ==
  ASSUME StateConstants, TypeOK, NEW b \in Branches, NEW f \in Floors,
         NEW ws \in SUBSET Batches, NEW bs, NEW t \in Nat
  PROVE  /\ Snapshots(f, b, ws, bs, t) \in [Floors -> [Slots -> Value]]
         /\ \A s \in Slots : \/ Snapshots(f, b, ws, bs, t)[f][s].batch = LastOn(ws, bs, s)
                             \/ Older(f, b, s, Snapshots(f, b, ws, bs, t)[f][s].batch)
<1>1. PICK heads : heads = Heads(b, ws, bs, t)
  OBVIOUS
<1>2. /\ heads \in [Branches -> [Slots -> Value]]
      /\ \A s \in Slots : /\ LastOn(ws, bs, s) = 0 => heads[b][s] = liveHead[b][s]
                          /\ LastOn(ws, bs, s) # 0 => heads[b][s].batch = LastOn(ws, bs, s)
  <2>1. Heads(b, ws, bs, t) \in [Branches -> [Slots -> Value]]
    BY HeadsTyped
  <2>2. \A s \in Slots :
          /\ LastOn(ws, bs, s) = 0 => Heads(b, ws, bs, t)[b][s] = liveHead[b][s]
          /\ LastOn(ws, bs, s) # 0 => Heads(b, ws, bs, t)[b][s].batch = LastOn(ws, bs, s)
    BY DEF Heads, TypeOK
  <2> QED BY <1>1, <2>1, <2>2
<1>3. PICK p : p = floor[f].parent
  OBVIOUS
<1>4. PICK new : new = [s \in Slots |->
        IF s \in Known(bs)
          THEN [taken |-> TRUE, at |-> t,
                batch |-> Materialized(heads[b][s], IF p = NoFloor THEN NoValue ELSE snapshot[p][s],
                                       LastOn(ws, bs, s))]
          ELSE snapshot[f][s]]
  OBVIOUS
<1>0. PICK snaps : snaps = Snapshots(f, b, ws, bs, t)
  OBVIOUS
<1>5. snaps = [snapshot EXCEPT ![f] = new]
  BY <1>0, <1>1, <1>3, <1>4 DEF Snapshots
<1>6. ASSUME NEW s \in Slots
      PROVE  /\ new[s] \in Value
             /\ LET last == LastOn(ws, bs, s)
                    w == new[s].batch
                IN  /\ \/ w = 0 \/ w = last \/ w = liveHead[b][s].batch \/ w = snapshot[f][s].batch
                       \/ p # NoFloor /\ w = snapshot[p][s].batch
                    /\ last # 0 /\ s \in Known(bs) => w = last
  <2>1. PICK last : last = LastOn(ws, bs, s)
    OBVIOUS
  <2>2. last \in 0 .. MaxBatches
    <3>1. last = 0 \/ last \in ws
      BY <2>1, LastOnIsLast
    <3>2. ws \subseteq 0 .. MaxBatches /\ 0 \in 0 .. MaxBatches
      BY DEF Batches, StateConstants
    <3> QED BY <3>1, <3>2
  <2>3. PICK parent : parent = IF p = NoFloor THEN NoValue ELSE snapshot[p][s]
    OBVIOUS
  <2>4. p \in Floors \cup {NoFloor} /\ snapshot[f][s] \in Value /\ heads[b][s] \in Value
    BY <1>2, <1>3 DEF TypeOK, FloorRow
  <2>5. parent \in Value
    <3>1. NoValue \in Value
      BY DEF NoValue, Value, StateConstants
    <3>2. p # NoFloor => snapshot[p][s] \in Value
      BY <2>4 DEF TypeOK
    <3> QED BY <2>3, <3>1, <3>2
  <2>6. PICK w : w = Materialized(heads[b][s], parent, last)
    OBVIOUS
  <2>7. /\ w = last \/ (last = 0 /\ (w = heads[b][s].batch \/ w = 0 \/ (parent.taken /\ w = parent.batch)))
        /\ last # 0 => w = last
    BY <2>6 DEF Materialized
  <2>8. w \in 0 .. MaxBatches
    BY <2>2, <2>4, <2>5, <2>7 DEF Value, StateConstants
  <2>9. parent.taken => p # NoFloor
    BY <2>3 DEF NoValue
  <2>10. new[s] = IF s \in Known(bs) THEN [taken |-> TRUE, at |-> t, batch |-> w] ELSE snapshot[f][s]
    BY <1>4, <2>1, <2>3, <2>6
  <2>11. [taken |-> TRUE, at |-> t, batch |-> w] \in Value
    BY <2>8 DEF Value
  <2>12. new[s] \in Value
    BY <2>4, <2>10, <2>11
  <2>13. last = 0 => heads[b][s].batch = liveHead[b][s].batch
    BY <1>2, <2>1
  <2>14. /\ \/ w = 0 \/ w = last \/ w = liveHead[b][s].batch
            \/ p # NoFloor /\ w = snapshot[p][s].batch
         /\ last # 0 => w = last
    BY <2>3, <2>7, <2>9, <2>13
  <2>15. new[s].batch = IF s \in Known(bs) THEN w ELSE snapshot[f][s].batch
    BY <2>10
  <2> QED BY <2>1, <2>12, <2>14, <2>15
<1>7. new \in [Slots -> Value]
  BY <1>4, <1>6
<1>8. snaps[f] = new /\ snaps \in [Floors -> [Slots -> Value]]
      /\ \A g \in Floors \ {f} : snaps[g] = snapshot[g]
  BY <1>5, <1>7 DEF TypeOK
<1>9. \A s \in Slots : \/ new[s].batch = LastOn(ws, bs, s) \/ Older(f, b, s, new[s].batch)
  BY <1>3, <1>6 DEF Older
<1> QED
  BY <1>0, <1>8, <1>9

\* What a commit applies: everything staged for its floor, and at most one more
\* batch of its own.
Applies(b, f, ws, bs, t) ==
  /\ StagedFor(f) \subseteq ws
  /\ \A w \in ws : /\ w \in StagedFor(f) \/ w = used + 1
                   /\ w <= used'
                   /\ bs[w].branch = b /\ bs[w].floor = f
  /\ \A w \in Batches : w <= used => bs[w] = batch[w]
  /\ \A w \in Batches \ ws : bs[w] = batch[w]
  /\ used' \in 0 .. MaxBatches /\ used <= used'
  /\ batch' = Applied(ws, bs)
  /\ liveHead' = Heads(b, ws, bs, t)
  /\ snapshot' = Snapshots(f, b, ws, Applied(ws, bs), t)
  /\ now' = t

LEMMA CommitFacts ==
  ASSUME StateConstants, StateInv, NEW b \in Branches, NEW f, f = turn[b].floor, Commit(b)
  PROVE  /\ f \in Floors /\ floor[f].state = "generating" /\ floor[f].branch = b
         /\ turn[b].stage = "staged"
         /\ floor' = [floor EXCEPT ![f].state = "committed"]
         /\ turn' = [turn EXCEPT ![b] = NoTurn]
         /\ UNCHANGED <<turns, crashes, lost, kept, early>>
         /\ \E ws \in SUBSET Batches, bs \in [Batches -> Batch], t \in Nat : Applies(b, f, ws, bs, t)
<1> USE DEF StateInv
<1>1. /\ turn[b].stage = "staged"
      /\ floor' = [floor EXCEPT ![f].state = "committed"]
      /\ turn' = [turn EXCEPT ![b] = NoTurn]
      /\ UNCHANGED <<turns, crashes, lost, kept, early>>
  BY DEF Commit
<1>2. f \in Floors /\ floor[f].state = "generating" /\ floor[f].branch = b
  BY <1>1 DEF TurnsSound
<1>3. PICK rerouted \in SUBSET Slots, t \in Time :
        LET id == IF rerouted = {} THEN 0 ELSE used + 1
            bs == [w \in Batches |-> IF w = id
                     THEN [status |-> "staged", slots |-> rerouted, branch |-> b, floor |-> f]
                     ELSE batch[w]]
            ws == (StagedFor(f) \cup {id}) \ {0}
        IN  /\ id <= MaxBatches
            /\ used' = IF id = 0 THEN used ELSE id
            /\ batch' = Applied(ws, bs)
            /\ liveHead' = Heads(b, ws, bs, t)
            /\ snapshot' = Snapshots(f, b, ws, Applied(ws, bs), t)
            /\ now' = t
  BY DEF Commit
<1>4. PICK id : id = IF rerouted = {} THEN 0 ELSE used + 1
  OBVIOUS
<1>5. PICK bs : bs = [w \in Batches |-> IF w = id
                        THEN [status |-> "staged", slots |-> rerouted, branch |-> b, floor |-> f]
                        ELSE batch[w]]
  OBVIOUS
<1>6. PICK ws : ws = (StagedFor(f) \cup {id}) \ {0}
  OBVIOUS
<1>7. /\ id <= MaxBatches
      /\ used' = IF id = 0 THEN used ELSE id
      /\ batch' = Applied(ws, bs)
      /\ liveHead' = Heads(b, ws, bs, t)
      /\ snapshot' = Snapshots(f, b, ws, Applied(ws, bs), t)
      /\ now' = t
  BY <1>3, <1>4, <1>5, <1>6
<1>8. used \in Nat /\ used <= MaxBatches /\ MaxBatches \in Nat /\ t \in Nat
  BY <1>3 DEF TypeOK, StateConstants, Time
<1>9. id = 0 \/ (id = used + 1 /\ id \in Batches)
  BY <1>4, <1>7, <1>8 DEF Batches
<1>10. ws \in SUBSET Batches
  BY <1>6, <1>9 DEF StagedFor
<1>11. [status |-> "staged", slots |-> rerouted, branch |-> b, floor |-> f] \in Batch
  BY <1>2, <1>3 DEF Batch
<1>12. bs \in [Batches -> Batch]
  BY <1>5, <1>11 DEF TypeOK
<1>13. \A w \in StagedFor(f) : /\ w \in Batches /\ w \in Nat /\ w # 0 /\ w <= used
                               /\ batch[w].branch = b /\ batch[w].floor = f
  <2>1. TAKE w \in StagedFor(f)
  <2>2. w \in Batches /\ batch[w].status = "staged" /\ batch[w].floor = f
    BY DEF StagedFor
  <2>3. w \in Nat /\ w # 0
    BY <2>2 DEF Batches
  <2>4. ~(w > used) /\ batch[w].branch = b
    BY <1>2, <2>2 DEF BatchesSound
  <2> QED BY <1>8, <2>2, <2>3, <2>4
<1>14. used' \in 0 .. MaxBatches /\ used <= used' /\ (id # 0 => used' = used + 1)
  <2>1. CASE id = 0
    BY <1>7, <1>8, <2>1
  <2>2. CASE id # 0
    <3>1. id = used + 1 /\ used' = used + 1 /\ used + 1 <= MaxBatches
      BY <1>7, <1>9, <2>2
    <3> QED BY <1>8, <3>1
  <2> QED BY <2>1, <2>2
<1>15. StagedFor(f) \subseteq ws
  BY <1>6, <1>13
<1>16. \A w \in Batches : (w <= used => bs[w] = batch[w]) /\ (w \notin ws => bs[w] = batch[w])
  <2>1. \A w \in Batches : w \in Nat /\ w # 0
    BY DEF Batches
  <2> QED BY <1>5, <1>6, <1>8, <1>9, <2>1
<1>17. \A w \in ws : /\ w \in StagedFor(f) \/ w = used + 1
                     /\ w <= used'
                     /\ bs[w].branch = b /\ bs[w].floor = f
  <2>1. TAKE w \in ws
  <2>2. CASE w \in StagedFor(f)
    BY <1>8, <1>13, <1>14, <1>16, <2>2
  <2>3. CASE w = id /\ id # 0
    BY <1>5, <1>8, <1>9, <1>14, <2>3
  <2> QED BY <1>6, <2>2, <2>3
<1>18. Applies(b, f, ws, bs, t)
  BY <1>7, <1>14, <1>15, <1>16, <1>17 DEF Applies
<1> QED
  BY <1>1, <1>2, <1>8, <1>10, <1>12, <1>18

LEMMA CommitKeeps ==
  ASSUME StateConstants, StateInv, NEW b \in Branches, Commit(b)
  PROVE  StateInv'
<1> USE DEF StateInv
<1>1. PICK f : f = turn[b].floor
  OBVIOUS
<1>2. /\ f \in Floors /\ floor[f].state = "generating" /\ floor[f].branch = b
      /\ turn[b].stage = "staged"
      /\ floor' = [floor EXCEPT ![f].state = "committed"]
      /\ turn' = [turn EXCEPT ![b] = NoTurn]
      /\ UNCHANGED <<turns, crashes, lost, kept, early>>
      /\ \E ws \in SUBSET Batches, bs \in [Batches -> Batch], t \in Nat : Applies(b, f, ws, bs, t)
  BY <1>1, CommitFacts
<1>3. PICK ws \in SUBSET Batches, bs \in [Batches -> Batch], t \in Nat : Applies(b, f, ws, bs, t)
  BY <1>2
<1>4. /\ NoTurn \in Turn /\ NoTurn.stage = "idle" /\ NoTurn.floor = NoFloor
      /\ NoFloor \notin Floors
      /\ \A w \in Batches : w \in Nat
      /\ used \in Nat /\ used' \in Nat /\ used <= used' /\ used' \in 0 .. MaxBatches
  BY <1>3 DEF NoTurn, Turn, StateConstants, Batches, TypeOK, Applies
<1>5. /\ batch' \in [Batches -> Batch]
      /\ \A w \in Batches \ ws : batch'[w] = bs[w]
      /\ \A w \in Batches : batch'[w].branch = bs[w].branch /\ batch'[w].floor = bs[w].floor
                            /\ batch'[w].slots = bs[w].slots
      /\ \A w \in ws : batch'[w].status = "applied"
  BY <1>3, AppliedFacts DEF Applies
<1>6. /\ \A w \in Batches \ ws : batch'[w] = batch[w]
      /\ \A w \in Batches : w <= used => batch'[w].branch = batch[w].branch
      /\ \A w \in ws : batch'[w].branch = b /\ batch'[w].floor = f /\ w <= used'
                       /\ (w \in StagedFor(f) \/ w = used + 1)
  BY <1>3, <1>5 DEF Applies
<1>7. /\ floor' \in [Floors -> FloorRow] /\ floor'[f].state = "committed"
      /\ floor'[f].branch = floor[f].branch
      /\ \A g \in Floors \ {f} : floor'[g] = floor[g]
  <2>1. floor[f] \in FloorRow
    BY <1>2 DEF TypeOK
  <2>2. PICK row : row = [floor[f] EXCEPT !.state = "committed"]
    OBVIOUS
  <2>3. row \in FloorRow /\ row.state = "committed" /\ row.branch = floor[f].branch
    BY <2>1, <2>2 DEF FloorRow
  <2>4. floor' = [floor EXCEPT ![f] = row]
    BY <1>2, <2>2
  <2> QED BY <1>2, <2>3, <2>4 DEF TypeOK
<1>8. RowsStep
  <2>1. floor[f] \in FloorRow
    BY <1>2 DEF TypeOK
  <2>2. RowKept(f)
    BY <1>2, <2>1 DEF RowKept, FloorRow, TypeOK
  <2>3. \A g \in Floors \ {f} : Exists(g) => RowKept(g)
    BY <1>7 DEF RowKept, Exists
  <2> QED BY <1>2, <1>7, <2>2, <2>3 DEF RowsStep, TypeOK, Exists
<1>9. \A s \in Slots : LET last == LastOn(ws, bs, s)
                       IN  last = LastOn(ws, Applied(ws, bs), s) /\ (last = 0 \/ last \in ws)
  <2>1. TAKE s \in Slots
  <2>2. PICK cs : cs = Applied(ws, bs)
    OBVIOUS
  <2>3. \A w \in ws : bs[w].slots = cs[w].slots
    BY <1>3, <1>5, <2>2 DEF Applies
  <2>4. LastOn(ws, bs, s) = LastOn(ws, cs, s)
    BY <2>3, LastOnSlots
  <2>5. LastOn(ws, bs, s) = 0 \/ LastOn(ws, bs, s) \in ws
    BY LastOnIsLast
  <2> QED BY <2>2, <2>4, <2>5
<1>10. /\ liveHead' \in [Branches -> [Slots -> Value]]
       /\ \A c \in Branches \ {b} : liveHead'[c] = liveHead[c]
       /\ \A s \in Slots : /\ LastOn(ws, bs, s) = 0 => liveHead'[b][s] = liveHead[b][s]
                           /\ LastOn(ws, bs, s) # 0 => liveHead'[b][s].batch = LastOn(ws, bs, s)
  <2>1. /\ Heads(b, ws, bs, t) \in [Branches -> [Slots -> Value]]
        /\ \A c \in Branches \ {b} : Heads(b, ws, bs, t)[c] = liveHead[c]
        /\ \A s \in Slots :
             /\ LastOn(ws, bs, s) = 0 => Heads(b, ws, bs, t)[b][s] = liveHead[b][s]
             /\ LastOn(ws, bs, s) # 0 => Heads(b, ws, bs, t)[b][s].batch = LastOn(ws, bs, s)
    <3>1. Heads(b, ws, bs, t) \in [Branches -> [Slots -> Value]]
      BY HeadsTyped
    <3>2. \A c \in Branches \ {b} : Heads(b, ws, bs, t)[c] = liveHead[c]
      BY DEF Heads, TypeOK
    <3>3. \A s \in Slots :
             /\ LastOn(ws, bs, s) = 0 => Heads(b, ws, bs, t)[b][s] = liveHead[b][s]
             /\ LastOn(ws, bs, s) # 0 => Heads(b, ws, bs, t)[b][s].batch = LastOn(ws, bs, s)
      BY DEF Heads, TypeOK
    <3> QED BY <3>1, <3>2, <3>3
  <2> QED BY <1>3, <2>1 DEF Applies
<1>11. /\ snapshot' \in [Floors -> [Slots -> Value]]
       /\ \A g \in Floors \ {f} : snapshot'[g] = snapshot[g]
       /\ \A s \in Slots : snapshot'[f][s].batch \in ws \/ Older(f, b, s, snapshot'[f][s].batch)
  <2>1. PICK cs : cs = Applied(ws, bs)
    OBVIOUS
  <2>2. f \in Floors
    BY <1>2
  <2>3. Snapshots(f, b, ws, cs, t) \in [Floors -> [Slots -> Value]]
    BY <2>2, SnapshotFacts
  <2>4. \A g \in Floors : g # f => Snapshots(f, b, ws, cs, t)[g] = snapshot[g]
    BY <2>2 DEF Snapshots, TypeOK
  <2>5. \A s \in Slots : \/ Snapshots(f, b, ws, cs, t)[f][s].batch = LastOn(ws, cs, s)
                         \/ Older(f, b, s, Snapshots(f, b, ws, cs, t)[f][s].batch)
    BY <2>2, SnapshotFacts
  <2>6. \A s \in Slots : LastOn(ws, cs, s) = 0 \/ LastOn(ws, cs, s) \in ws
    BY <1>9, <2>1
  <2>7. snapshot' = Snapshots(f, b, ws, cs, t)
    BY <1>3, <2>1 DEF Applies
  <2>8. \A s \in Slots : snapshot'[f][s].batch = 0 \/ snapshot'[f][s].batch \in ws
                         \/ Older(f, b, s, snapshot'[f][s].batch)
    BY <2>5, <2>6, <2>7
  <2>9. \A s : Older(f, b, s, 0)
    BY DEF Older
  <2> QED BY <2>3, <2>4, <2>7, <2>8, <2>9
<1>12. TypeOK'
  <2>1. turn' \in [Branches -> Turn]
    BY <1>2, <1>4 DEF TypeOK
  <2>2. rewritten' \subseteq Floors
    BY <1>1, <1>2 DEF Commit, TypeOK
  <2>3. now' \in Nat
    BY <1>3 DEF Applies
  <2> QED BY <1>2, <1>4, <1>5, <1>7, <1>10, <1>11, <2>1, <2>2, <2>3 DEF TypeOK
<1>13. RowsSound'
  BY <1>8, PathsGrow
<1>14. turn'[b] = NoTurn /\ \A c \in Branches \ {b} : turn'[c] = turn[c] /\ turn[c].floor # f
  BY <1>2, <1>4 DEF TypeOK, TurnsSound
<1>15. TurnsSound'
  <2> SUFFICES ASSUME NEW c \in Branches \ {b}
               PROVE  /\ turn[c].stage = "idle" => turn[c].floor = NoFloor
                      /\ turn[c].stage # "idle" => /\ turn[c].floor \in Floors
                                                   /\ floor'[turn[c].floor].state = "generating"
                                                   /\ floor'[turn[c].floor].branch = c
    BY <1>4, <1>14 DEF TurnsSound
  <2> QED BY <1>7, <1>14 DEF TurnsSound
<1>16. BatchesSound'
  <2> SUFFICES ASSUME NEW w \in Batches
               PROVE  /\ w > used' => batch'[w].status = "unused" /\ w \notin lost \cup kept
                      /\ batch'[w].status = "staged" =>
                           /\ batch'[w].floor \in Floors
                           /\ floor'[batch'[w].floor].state # "none"
                           /\ batch'[w].branch = floor'[batch'[w].floor].branch
    BY <1>2 DEF BatchesSound, Exists
  <2>1. CASE w \in ws
    BY <1>4, <1>5, <1>6, <2>1
  <2>2. CASE w \notin ws
    <3>1. batch'[w] = batch[w] /\ (w > used' => w > used)
      BY <1>4, <1>6, <2>2
    <3>2. batch[w].status = "staged" => /\ batch[w].floor \in Floors
                                        /\ floor[batch[w].floor].state # "none"
                                        /\ batch[w].branch = floor[batch[w].floor].branch
      BY DEF BatchesSound, Exists
    <3>3. \A g \in Floors : floor[g].state # "none" => floor'[g].state # "none"
                                                      /\ floor'[g].branch = floor[g].branch
      BY <1>7
    <3> QED BY <3>1, <3>2, <3>3 DEF BatchesSound
  <2> QED BY <2>1, <2>2
<1>17. /\ \A c \in Branches, s \in Slots : liveHead[c][s].batch \in 0 .. used
       /\ \A g \in Floors, s \in Slots : snapshot[g][s].batch \in 0 .. used
       /\ \A n \in 0 .. used : n # 0 => n \in Batches /\ n <= used
  BY <1>4 DEF TypeOK, ValuesSound, Value, Batches
<1>18. ValuesSound'
  <2>1. \A c \in Branches, s \in Slots : liveHead'[c][s].batch <= used'
    BY <1>4, <1>6, <1>9, <1>10, <1>17
  <2>2. \A s \in Slots : snapshot'[f][s].batch <= used'
    <3>1. TAKE s \in Slots
    <3>2. PICK p : p = floor[f].parent
      OBVIOUS
    <3>3. p # NoFloor => snapshot[p][s].batch \in 0 .. used
      BY <1>2, <1>17, <3>2 DEF TypeOK, FloorRow
    <3>4. snapshot[f][s].batch \in 0 .. used /\ liveHead[b][s].batch \in 0 .. used
      BY <1>2, <1>17
    <3> QED BY <1>4, <1>6, <1>11, <3>2, <3>3, <3>4 DEF Older
  <2>3. \A g \in Floors, s \in Slots : snapshot'[g][s].batch <= used'
    BY <1>4, <1>11, <1>17, <2>2
  <2> QED BY <2>1, <2>3 DEF ValuesSound
<1>19. \A w \in lost \ kept : w \in Batches \ ws /\ batch[w].floor # f /\ batch'[w] = batch[w]
  <2>1. TAKE w \in lost \ kept
  <2>2. w \in Batches /\ batch[w].floor # f /\ batch[w].status = "staged"
    BY <1>1 DEF LostIsDead, TypeOK
  <2>3. w <= used
    BY <1>4, <2>2 DEF BatchesSound
  <2>4. w \notin ws
    BY <1>4, <1>6, <2>2, <2>3 DEF StagedFor
  <2> QED BY <1>6, <2>2, <2>4
<1>20. LostIsDead'
  <2> SUFFICES ASSUME NEW w \in lost \ kept
               PROVE  /\ batch'[w].status = "staged"
                      /\ floor'[batch'[w].floor].state \in {"generating", "failed"}
                      /\ \A c \in Branches : turn'[c].floor # batch'[w].floor
    BY <1>2 DEF LostIsDead
  <2>1. /\ batch'[w] = batch[w] /\ batch[w].floor # f /\ batch[w].status = "staged"
        /\ batch[w].floor \in Floors /\ floor[batch[w].floor].state \in {"generating", "failed"}
        /\ \A c \in Branches : turn[c].floor # batch[w].floor
    BY <1>19 DEF LostIsDead, BatchesSound
  <2> QED BY <1>4, <1>7, <1>14, <2>1
<1>21. KeptIsOlder'
  <2> SUFFICES ASSUME NEW w \in kept, NEW x \in Batches \ (kept \cup lost),
                      batch'[w].status = "staged", batch'[x].status = "staged",
                      batch'[w].floor = batch'[x].floor
               PROVE  w < x
    BY <1>2 DEF KeptIsOlder
  <2>1. w \in Batches
    BY DEF TypeOK
  <2>2. batch'[w] = batch[w] /\ batch'[x] = batch[x]
    BY <1>5, <1>6, <2>1
  <2> QED BY <2>2 DEF KeptIsOlder
<1>22. OnlyCommittedTurnsWrite'
  <2> SUFFICES ASSUME NEW w \in Batches
               PROVE  /\ w \in lost \ kept => batch'[w].status # "applied"
                      /\ batch'[w].status = "staged" /\ w \notin lost \cup kept =>
                           /\ turn'[batch'[w].branch].stage = "staged"
                           /\ turn'[batch'[w].branch].floor = batch'[w].floor
    BY <1>2 DEF OnlyCommittedTurnsWrite
  <2>1. w \in lost \ kept => batch'[w].status # "applied"
    BY <1>19 DEF LostIsDead
  <2>2. ASSUME batch'[w].status = "staged", w \notin lost \cup kept
        PROVE  /\ turn'[batch'[w].branch].stage = "staged"
               /\ turn'[batch'[w].branch].floor = batch'[w].floor
    <3>1. w \notin ws /\ batch'[w] = batch[w]
      BY <1>5, <1>6, <2>2
    <3>2. /\ batch[w].branch \in Branches
          /\ turn[batch[w].branch].stage = "staged"
          /\ turn[batch[w].branch].floor = batch[w].floor
      BY <2>2, <3>1 DEF OnlyCommittedTurnsWrite, TypeOK, Batch
    <3>3. batch[w].branch # b
      BY <1>1, <1>3, <2>2, <3>1, <3>2 DEF StagedFor, Applies
    <3> QED BY <1>14, <3>1, <3>2, <3>3
  <2> QED BY <2>1, <2>2
<1>23. \A n : n \in 0 .. used /\ n # 0 => batch'[n].branch = batch[n].branch
  BY <1>6, <1>17
<1>24. \A g \in Floors : floor'[g].path = floor[g].path
                         /\ {floor[h].branch : h \in floor[g].path}
                              \subseteq {floor'[h].branch : h \in floor'[g].path}
  <2>1. \A g \in Floors : {floor[h].branch : h \in floor[g].path}
                              \subseteq {floor'[h].branch : h \in floor'[g].path}
    BY <1>8, PathsGrow
  <2>2. \A g \in Floors : floor'[g].path = floor[g].path
    BY <1>2 DEF TypeOK, FloorRow
  <2> QED BY <2>1, <2>2
<1>25. BranchesStayApart'
  <2>1. ASSUME NEW c \in Branches, NEW s \in Slots, liveHead'[c][s].batch # 0
        PROVE  batch'[liveHead'[c][s].batch].branch = c
    <3>1. CASE liveHead'[c][s].batch = liveHead[c][s].batch
      BY <1>17, <1>23, <2>1, <3>1 DEF BranchesStayApart
    <3>2. CASE liveHead'[c][s].batch # liveHead[c][s].batch
      <4>1. c = b /\ liveHead'[b][s].batch \in ws
        BY <1>9, <1>10, <3>2
      <4> QED BY <1>6, <4>1
    <3> QED BY <3>1, <3>2
  <2>2. ASSUME NEW g \in Floors, NEW s \in Slots, snapshot'[g][s].batch # 0
        PROVE  batch'[snapshot'[g][s].batch].branch \in {floor'[h].branch : h \in floor'[g].path}
    <3>1. CASE snapshot'[g][s].batch = snapshot[g][s].batch
      <4>1. batch[snapshot[g][s].batch].branch \in {floor[h].branch : h \in floor[g].path}
        BY <2>2, <3>1 DEF BranchesStayApart
      <4>2. batch'[snapshot[g][s].batch].branch = batch[snapshot[g][s].batch].branch
        BY <1>17, <1>23, <2>2, <3>1
      <4> QED BY <1>24, <3>1, <4>1, <4>2
    <3>2. CASE snapshot'[g][s].batch # snapshot[g][s].batch
      <4>1. PICK w : w = snapshot'[g][s].batch
        OBVIOUS
      <4>2. g = f
        BY <1>11, <3>2
      <4>3. f \in floor'[f].path /\ floor'[f].branch = b
        BY <1>2, <1>7, <1>24 DEF RowsSound, Exists
      <4>4. b \in {floor'[h].branch : h \in floor'[f].path}
        BY <4>3
      <4>5. \/ w \in ws \/ w = liveHead[b][s].batch
            \/ floor[f].parent # NoFloor /\ w = snapshot[floor[f].parent][s].batch
        BY <1>11, <2>2, <3>2, <4>1, <4>2 DEF Older
      <4>6. CASE w \in ws
        BY <1>6, <4>1, <4>2, <4>4, <4>6
      <4>7. CASE w = liveHead[b][s].batch
        <5>1. batch[w].branch = b
          BY <2>2, <4>1, <4>7 DEF BranchesStayApart
        <5>2. batch'[w].branch = batch[w].branch
          BY <1>17, <1>23, <2>2, <4>1, <4>7
        <5> QED BY <4>1, <4>2, <4>4, <5>1, <5>2
      <4>8. CASE floor[f].parent # NoFloor /\ w = snapshot[floor[f].parent][s].batch
        <5>1. PICK p : p = floor[f].parent
          OBVIOUS
        <5>2. p \in Floors /\ floor[p].path \subseteq floor[f].path
          BY <1>2, <4>8, <5>1 DEF RowsSound, TypeOK, FloorRow
        <5>3. batch[w].branch \in {floor[h].branch : h \in floor[p].path}
          BY <2>2, <4>1, <4>8, <5>1, <5>2 DEF BranchesStayApart
        <5>4. batch'[w].branch = batch[w].branch
          BY <1>17, <1>23, <2>2, <4>1, <4>8, <5>1, <5>2
        <5>5. batch[w].branch \in {floor[h].branch : h \in floor[f].path}
          BY <5>2, <5>3
        <5> QED BY <1>2, <1>24, <4>1, <4>2, <5>4, <5>5
      <4> QED BY <4>5, <4>6, <4>7, <4>8
    <3> QED BY <3>1, <3>2
  <2> QED BY <2>1, <2>2 DEF BranchesStayApart
<1> QED
  BY <1>12, <1>13, <1>15, <1>16, <1>18, <1>20, <1>21, <1>22, <1>25

LEMMA DirectWriteKeeps ==
  ASSUME StateConstants, StateInv, NEW b \in Branches, NEW s \in Slots, DirectWrite(b, s)
  PROVE  StateInv'
<1> USE DEF StateInv
<1>1. PICK w : w = used + 1
  OBVIOUS
<1>2. PICK bs : bs = [batch EXCEPT ![w] = [status |-> "staged", slots |-> {s}, branch |-> b,
                                           floor |-> NoFloor]]
  OBVIOUS
<1>3. /\ used < MaxBatches /\ used' = w /\ batch' = Applied({w}, bs)
      /\ \E t \in Time : liveHead' = Heads(b, {w}, bs, t) /\ now' = t
      /\ early' = IF LatestCommitted(b) = NoFloor THEN early \cup {b} ELSE early
      /\ UNCHANGED <<floor, turn, snapshot, turns, crashes, lost, kept, rewritten>>
  BY <1>1, <1>2 DEF DirectWrite
<1>4. PICK t \in Time : liveHead' = Heads(b, {w}, bs, t) /\ now' = t
  BY <1>3
<1>5. /\ used \in Nat /\ t \in Nat /\ w \in Batches /\ w \in 0 .. MaxBatches /\ w \in Nat
      /\ \A x \in Batches : x \in Nat
  BY <1>1, <1>3 DEF TypeOK, StateConstants, Time, Batches
<1>6. {w} \in SUBSET Batches
  BY <1>5
<1>7. bs \in [Batches -> Batch] /\ bs[w].branch = b /\ bs[w].slots = {s}
      /\ \A x \in Batches : x # w => bs[x] = batch[x]
  <2>1. [status |-> "staged", slots |-> {s}, branch |-> b, floor |-> NoFloor] \in Batch
    BY DEF Batch
  <2> QED BY <1>2, <1>5, <2>1 DEF TypeOK
<1>8. /\ batch' \in [Batches -> Batch]
      /\ \A x \in Batches : x # w => batch'[x] = batch[x]
      /\ batch'[w].branch = b /\ batch'[w].status = "applied"
  <2>1. bs[w] \in Batch
    BY <1>5, <1>7
  <2>2. PICK row : row = [bs[w] EXCEPT !.status = "applied"]
    OBVIOUS
  <2>3. row \in Batch /\ row.branch = b /\ row.status = "applied"
    BY <1>7, <2>1, <2>2 DEF Batch
  <2>4. batch' = [x \in Batches |-> IF x = w THEN row ELSE bs[x]]
    BY <1>3, <2>2 DEF Applied
  <2> QED BY <1>5, <1>7, <2>3, <2>4
<1>9. /\ liveHead' \in [Branches -> [Slots -> Value]]
      /\ \A c \in Branches, r \in Slots :
           liveHead'[c][r] = liveHead[c][r] \/ (c = b /\ liveHead'[c][r].batch = w)
  <2>1. PICK ws : ws = {w}
    OBVIOUS
  <2>2. ws \in SUBSET Batches /\ t \in Nat
    BY <1>5, <1>6, <2>1
  <2>3. /\ Heads(b, ws, bs, t) \in [Branches -> [Slots -> Value]]
        /\ \A c \in Branches \ {b} : Heads(b, ws, bs, t)[c] = liveHead[c]
        /\ \A r \in Slots :
             /\ LastOn(ws, bs, r) = 0 => Heads(b, ws, bs, t)[b][r] = liveHead[b][r]
             /\ LastOn(ws, bs, r) # 0 => Heads(b, ws, bs, t)[b][r].batch = LastOn(ws, bs, r)
    <3>1. Heads(b, ws, bs, t) \in [Branches -> [Slots -> Value]]
      BY <2>2, HeadsTyped
    <3>2. \A c \in Branches \ {b} : Heads(b, ws, bs, t)[c] = liveHead[c]
      BY DEF Heads, TypeOK
    <3>3. \A r \in Slots :
             /\ LastOn(ws, bs, r) = 0 => Heads(b, ws, bs, t)[b][r] = liveHead[b][r]
             /\ LastOn(ws, bs, r) # 0 => Heads(b, ws, bs, t)[b][r].batch = LastOn(ws, bs, r)
      BY DEF Heads, TypeOK
    <3> QED BY <3>1, <3>2, <3>3
  <2>4. \A r \in Slots : LastOn(ws, bs, r) = 0 \/ LastOn(ws, bs, r) \in ws
    BY <2>2, LastOnIsLast
  <2>5. liveHead' = Heads(b, ws, bs, t)
    BY <1>4, <2>1
  <2> QED BY <2>1, <2>3, <2>4, <2>5
<1>10. \A x \in lost \cup kept : x \in Batches /\ x # w
  <2>1. w > used
    BY <1>1, <1>5
  <2> QED BY <1>5, <2>1 DEF BatchesSound, TypeOK
<1>11. TypeOK'
  <2>1. now' \in Nat /\ early' \subseteq Branches
    BY <1>3, <1>4, <1>5 DEF TypeOK
  <2> QED BY <1>3, <1>5, <1>8, <1>9, <2>1 DEF TypeOK
<1>12. RowsStep
  BY <1>3, RowsUnchanged
<1>13. RowsSound'
  BY <1>12, PathsGrow
<1>14. TurnsSound'
  BY <1>3 DEF TurnsSound
<1>15. BatchesSound'
  <2> SUFFICES ASSUME NEW x \in Batches
               PROVE  /\ x > used' => batch'[x].status = "unused" /\ x \notin lost \cup kept
                      /\ batch'[x].status = "staged" =>
                           /\ batch'[x].floor \in Floors
                           /\ floor[batch'[x].floor].state # "none"
                           /\ batch'[x].branch = floor[batch'[x].floor].branch
    BY <1>3 DEF BatchesSound, Exists
  <2>1. CASE x = w
    BY <1>3, <1>5, <1>8, <2>1
  <2>2. CASE x # w
    <3>1. batch'[x] = batch[x] /\ (x > used' => x > used)
      <4>1. x \in Nat /\ used' = used + 1
        BY <1>1, <1>3, <1>5
      <4> QED BY <1>5, <1>8, <2>2, <4>1
    <3> QED BY <3>1 DEF BatchesSound, Exists
  <2> QED BY <2>1, <2>2
<1>16. \A n : n \in 0 .. used => n \in 0 .. used' /\ (n # 0 => batch'[n] = batch[n] /\ n \in Batches)
  <2>1. TAKE n
  <2>2. HAVE n \in 0 .. used
  <2>3. n \in Nat /\ n <= used /\ n <= used' /\ n # w /\ used' \in Nat
    BY <1>1, <1>3, <1>5, <2>2
  <2>4. n # 0 => n \in Batches
    BY <1>3, <1>5, <2>3 DEF Batches, StateConstants
  <2> QED BY <1>8, <2>3, <2>4
<1>17. /\ \A c \in Branches, r \in Slots : liveHead[c][r].batch \in 0 .. used
       /\ \A g \in Floors, r \in Slots : snapshot[g][r].batch \in 0 .. used
  BY <1>5 DEF TypeOK, ValuesSound, Value
<1>18. ValuesSound'
  <2>1. \A n : n \in 0 .. used => n <= used'
    BY <1>1, <1>3, <1>5
  <2>2. w <= used'
    BY <1>3, <1>5
  <2> QED BY <1>3, <1>9, <1>17, <2>1, <2>2 DEF ValuesSound
<1>19. LostIsDead'
  <2>1. \A x \in lost : batch'[x] = batch[x]
    BY <1>8, <1>10
  <2> SUFFICES ASSUME NEW x \in lost \ kept
               PROVE  /\ batch'[x].status = "staged"
                      /\ floor[batch'[x].floor].state \in {"generating", "failed"}
                      /\ \A c \in Branches : turn[c].floor # batch'[x].floor
    BY <1>3 DEF LostIsDead
  <2> QED BY <2>1 DEF LostIsDead
<1>20. KeptIsOlder'
  <2> SUFFICES ASSUME NEW x \in kept, NEW y \in Batches \ (kept \cup lost),
                      batch'[x].status = "staged", batch'[y].status = "staged",
                      batch'[x].floor = batch'[y].floor
               PROVE  x < y
    BY <1>3 DEF KeptIsOlder
  <2>1. batch'[x] = batch[x]
    BY <1>8, <1>10
  <2>2. y # w
    BY <1>8
  <2>3. batch'[y] = batch[y]
    BY <1>8, <2>2
  <2> QED BY <2>1, <2>3 DEF KeptIsOlder
<1>21. OnlyCommittedTurnsWrite'
  BY <1>3, <1>8, <1>10 DEF OnlyCommittedTurnsWrite
<1>22. BranchesStayApart'
  <2>1. ASSUME NEW c \in Branches, NEW r \in Slots, liveHead'[c][r].batch # 0
        PROVE  batch'[liveHead'[c][r].batch].branch = c
    <3>1. CASE liveHead'[c][r] = liveHead[c][r]
      BY <1>16, <1>17, <2>1, <3>1 DEF BranchesStayApart
    <3>2. CASE c = b /\ liveHead'[c][r].batch = w
      BY <1>8, <3>2
    <3> QED BY <1>9, <3>1, <3>2
  <2>2. ASSUME NEW g \in Floors, NEW r \in Slots, snapshot[g][r].batch # 0
        PROVE  batch'[snapshot[g][r].batch].branch \in {floor[h].branch : h \in floor[g].path}
    BY <1>16, <1>17, <2>2 DEF BranchesStayApart
  <2> SUFFICES ASSUME NEW g \in Floors, NEW r \in Slots, snapshot'[g][r].batch # 0
               PROVE  batch'[snapshot'[g][r].batch].branch \in {floor'[h].branch : h \in floor'[g].path}
    BY <2>1 DEF BranchesStayApart
  <2>3. snapshot' = snapshot /\ floor' = floor
    BY <1>3
  <2>4. snapshot[g][r].batch # 0
    BY <2>3
  <2>5. batch'[snapshot[g][r].batch].branch \in {floor[h].branch : h \in floor[g].path}
    BY <2>2, <2>4
  <2> QED BY <2>3, <2>5
<1> QED
  BY <1>11, <1>13, <1>14, <1>15, <1>18, <1>19, <1>20, <1>21, <1>22

-----------------------------------------------------------------------------
(* The theorems.                                                           *)

LEMMA InvInit ==
  ASSUME StateConstants, Init
  PROVE  StateInv
<1>1. TypeOK
  BY DEF Init, TypeOK, StateConstants, NoRow, FloorRow, NoTurn, Turn, NoBatch, Batch, NoValue, Value
<1>2. RowsSound /\ TurnsSound /\ LostIsDead /\ KeptIsOlder
  BY DEF Init, RowsSound, Exists, TurnsSound, LostIsDead, KeptIsOlder, NoRow, NoTurn
<1>3. BatchesSound /\ OnlyCommittedTurnsWrite
  BY DEF Init, BatchesSound, OnlyCommittedTurnsWrite, NoBatch
<1>4. ValuesSound /\ BranchesStayApart
  BY DEF Init, ValuesSound, BranchesStayApart, NoValue
<1> QED
  BY <1>1, <1>2, <1>3, <1>4 DEF StateInv

LEMMA InvNext ==
  ASSUME StateConstants, StateInv, [Next]_vars
  PROVE  StateInv'
<1>1. ASSUME NEW f \in Floors, Regenerate(f)
      PROVE  StateInv'
  <2>1. RowsStep /\ Started(Main, f) /\ Main \in Branches
    BY <1>1, RegenerateFacts DEF StateConstants
  <2> QED BY <2>1, StartKeeps
<1>2. ASSUME NEW f \in Floors, Retry(f)
      PROVE  StateInv'
  <2>1. PICK b : b = floor[f].branch
    OBVIOUS
  <2>2. RowsStep /\ b \in Branches /\ Started(b, f)
    BY <1>2, <2>1, RetryFacts
  <2> QED BY <2>2, StartKeeps
<1>3. ASSUME NEW f \in Floors, Reap(f)
      PROVE  StateInv'
  BY <1>3, ReapKeeps
<1>4. ASSUME NEW b \in Branches, Stage(b)
      PROVE  StateInv'
  BY <1>4, StageKeeps
<1>5. ASSUME NEW b \in Branches, Commit(b)
      PROVE  StateInv'
  BY <1>5, CommitKeeps
<1>6. ASSUME NEW b \in Branches, TurnFails(b)
      PROVE  StateInv'
  BY <1>6, TurnFailsKeeps
<1>7. ASSUME NEW b \in Branches, NEW f \in Floors, Respond(b, f)
      PROVE  StateInv'
  <2>1. RowsStep /\ Started(b, f)
    BY <1>7, RespondFacts
  <2> QED BY <2>1, StartKeeps
<1>8. ASSUME NEW b \in Branches, NEW s \in Slots, DirectWrite(b, s)
      PROVE  StateInv'
  BY <1>8, DirectWriteKeeps
<1>9. CASE Crash
  BY <1>9, CrashKeeps
<1>10. CASE UNCHANGED vars
  BY <1>10 DEF vars, StateInv, TypeOK, RowsSound, TurnsSound, BatchesSound, ValuesSound,
     LostIsDead, KeptIsOlder, OnlyCommittedTurnsWrite, BranchesStayApart, Exists
<1> QED
  BY <1>1, <1>2, <1>3, <1>4, <1>5, <1>6, <1>7, <1>8, <1>9, <1>10 DEF Next

\* The inductive invariant holds in every state that can be reached.
THEOREM StateInvariant == Spec => []StateInv
<1>1. Init => StateInv
  BY StateConstants, InvInit
<1>2. StateInv /\ [Next]_vars => StateInv'
  BY StateConstants, InvNext
<1> QED
  BY <1>1, <1>2, PTL DEF Spec

\* Every table, head and snapshot keeps its type (session-state-service.ts).
THEOREM TypeCorrect == Spec => []TypeOK
<1>1. StateInv => TypeOK
  BY DEF StateInv
<1> QED
  BY <1>1, StateInvariant, PTL

\* What a turn staged (stageCommitBoundValue) takes effect only through the commit
\* of that turn: rows a crash left staged are never applied, and no turn leaves
\* rows behind that it did not fail to discard.
THEOREM OnlyTurnsThatCommitWrite == Spec => []OnlyCommittedTurnsWrite
<1>1. StateInv => OnlyCommittedTurnsWrite
  BY DEF StateInv
<1> QED
  BY <1>1, StateInvariant, PTL

\* A live head holds what was written on its own branch (buildLiveHeadItemKey),
\* and a snapshot what was written on the branches its floor grew through.
THEOREM BranchesAreIsolated == Spec => []BranchesStayApart
<1>1. StateInv => BranchesStayApart
  BY DEF StateInv
<1> QED
  BY <1>1, StateInvariant, PTL

\* What the commit of b on floor f applies is what its snapshot and the live head
\* of the branch hold afterwards.
LEMMA CommitShows ==
  ASSUME StateConstants, StateInv, NEW b \in Branches, Commit(b),
         NEW f \in Floors, NEW s \in Slots, NEW x \in Batches \ kept,
         s \in batch'[x].slots, batch'[x].floor = f,
         batch'[x].status = "applied", batch[x].status # "applied"
  PROVE  LET w == snapshot'[f][s].batch
         IN  /\ w = liveHead'[floor[f].branch][s].batch
             /\ w \in Batches \ kept
             /\ s \in batch'[w].slots /\ batch'[w].floor = f
             /\ batch'[w].status = "applied" /\ batch[w].status # "applied"
<1> USE DEF StateInv
<1>1. PICK h : h = turn[b].floor
  OBVIOUS
<1>2. /\ h \in Floors /\ floor[h].state = "generating" /\ floor[h].branch = b
      /\ turn[b].stage = "staged"
      /\ \E ws \in SUBSET Batches, bs \in [Batches -> Batch], t \in Nat : Applies(b, h, ws, bs, t)
  BY <1>1, CommitFacts
<1>3. PICK ws \in SUBSET Batches, bs \in [Batches -> Batch], t \in Nat : Applies(b, h, ws, bs, t)
  BY <1>2
<1>4. /\ \A w \in Batches \ ws : batch'[w] = bs[w]
      /\ \A w \in Batches : batch'[w].branch = bs[w].branch /\ batch'[w].floor = bs[w].floor
                            /\ batch'[w].slots = bs[w].slots
      /\ \A w \in ws : batch'[w].status = "applied"
  BY <1>3, AppliedFacts DEF Applies
<1>5. x \in ws /\ h = f
  BY <1>3, <1>4 DEF Applies
<1>6. PICK m : m = LastOn(ws, bs, s)
  OBVIOUS
<1>7. m \in ws /\ s \in bs[m].slots /\ x <= m
  <2>1. s \in bs[x].slots
    BY <1>4
  <2>2. \/ m = 0 /\ \A w \in ws : s \notin bs[w].slots
        \/ m \in ws /\ s \in bs[m].slots /\ \A w \in ws : s \in bs[w].slots => w <= m
    BY <1>6, LastOnIsLast
  <2> QED BY <1>5, <2>1, <2>2
<1>8. m \in Batches /\ m \in Nat /\ x \in Nat /\ m # 0 /\ used \in Nat
  BY <1>3, <1>7 DEF Batches, TypeOK
<1>9. \A w \in ws : batch[w].status # "applied"
  BY <1>3, <1>8 DEF Applies, StagedFor, BatchesSound
<1>10. m \notin kept
  <2> SUFFICES ASSUME m \in kept
               PROVE  FALSE
    OBVIOUS
  <2>1. m <= used
    BY <1>8 DEF BatchesSound
  <2>2. m \in StagedFor(f)
    BY <1>3, <1>5, <1>7, <1>8, <2>1 DEF Applies
  <2>3. x # m /\ x <= used /\ x \in StagedFor(f)
    BY <1>3, <1>5, <1>7, <1>8, <2>1 DEF Applies
  <2>4. x \notin lost
    BY <1>1, <1>5, <2>3 DEF LostIsDead, StagedFor
  <2>5. m < x
    BY <2>2, <2>3, <2>4 DEF KeptIsOlder, StagedFor
  <2> QED BY <1>7, <1>8, <2>5
<1>11. s \in batch'[m].slots /\ batch'[m].floor = f
       /\ batch'[m].status = "applied" /\ batch[m].status # "applied"
  BY <1>3, <1>4, <1>5, <1>7, <1>8, <1>9 DEF Applies
<1>12. liveHead'[b][s].batch = m
  <2>1. \A r \in Slots :
          /\ LastOn(ws, bs, r) = 0 => Heads(b, ws, bs, t)[b][r] = liveHead[b][r]
          /\ LastOn(ws, bs, r) # 0 => Heads(b, ws, bs, t)[b][r].batch = LastOn(ws, bs, r)
    BY DEF Heads, TypeOK
  <2> QED BY <1>3, <1>6, <1>8, <2>1 DEF Applies
<1>13. snapshot'[f][s].batch = m
  <2>1. PICK cs : cs = Applied(ws, bs)
    OBVIOUS
  <2>2. cs = batch' /\ snapshot' = Snapshots(f, b, ws, cs, t)
    BY <1>3, <1>5, <2>1 DEF Applies
  <2>3. \A w \in ws : bs[w].slots = cs[w].slots
    BY <1>4, <2>2
  <2>4. LastOn(ws, cs, s) = m
    BY <1>6, <2>3, LastOnSlots
  <2>5. s \in Known(cs)
    BY <1>8, <1>11, <2>2 DEF Known
  <2>6. PICK parent : parent = IF floor[f].parent = NoFloor THEN NoValue
                               ELSE snapshot[floor[f].parent][s]
    OBVIOUS
  <2>7. Snapshots(f, b, ws, cs, t)[f][s].batch
          = Materialized(Heads(b, ws, cs, t)[b][s], parent, LastOn(ws, cs, s))
    BY <2>5, <2>6 DEF Snapshots, TypeOK
  <2>8. Materialized(Heads(b, ws, cs, t)[b][s], parent, m) = m
    BY <1>8 DEF Materialized
  <2> QED BY <2>2, <2>4, <2>7, <2>8
<1> QED
  BY <1>2, <1>5, <1>8, <1>10, <1>11, <1>12, <1>13

\* Only a commit applies what belongs to a floor.
LEMMA OnlyCommitsApply ==
  ASSUME StateConstants, StateInv, [Next]_vars, NEW f \in Floors, NEW x \in Batches,
         batch'[x].floor = f, batch'[x].status = "applied", batch[x].status # "applied"
  PROVE  \E b \in Branches : Commit(b)
<1> USE DEF StateInv
<1>1. batch' # batch
  OBVIOUS
<1>2. ASSUME NEW b \in Branches, Stage(b)
      PROVE  FALSE
  <2>1. PICK slots :
          /\ used < MaxBatches
          /\ batch' = [batch EXCEPT ![used + 1] =
               [status |-> "staged", slots |-> slots, branch |-> b, floor |-> turn[b].floor]]
    BY <1>1, <1>2 DEF Stage
  <2> QED BY <2>1 DEF TypeOK
<1>3. ASSUME NEW b \in Branches, TurnFails(b)
      PROVE  FALSE
  <2>1. batch' = Discarded(StagedFor(turn[b].floor))
    BY <1>1, <1>3 DEF TurnFails
  <2>2. batch[x] \in Batch
    BY DEF TypeOK
  <2>3. batch'[x] = batch[x] \/ batch'[x] = [batch[x] EXCEPT !.status = "discarded"]
    BY <2>1 DEF Discarded
  <2> QED BY <2>2, <2>3, SMTT(30) DEF Batch
<1>4. ASSUME NEW b \in Branches, NEW s \in Slots, DirectWrite(b, s)
      PROVE  FALSE
  <2>1. PICK w : w = used + 1
    OBVIOUS
  <2>2. PICK bs : bs = [batch EXCEPT ![w] = [status |-> "staged", slots |-> {s}, branch |-> b,
                                             floor |-> NoFloor]]
    OBVIOUS
  <2>3. batch' = Applied({w}, bs)
    BY <1>4, <2>1, <2>2 DEF DirectWrite
  <2>4. batch'[x] = IF x = w THEN [bs[x] EXCEPT !.status = "applied"] ELSE bs[x]
    BY <2>3 DEF Applied
  <2>5. bs[x] = IF x = w THEN [status |-> "staged", slots |-> {s}, branch |-> b, floor |-> NoFloor]
                ELSE batch[x]
    BY <2>2 DEF TypeOK
  <2>6. x = w
    BY <2>4, <2>5
  <2>7. batch'[x].floor = NoFloor
    BY <2>4, <2>5, <2>6
  <2> QED BY <2>7 DEF StateConstants
<1> QED
  BY <1>1, <1>2, <1>3, <1>4
  DEF Next, vars, Regenerate, Retry, Reap, Respond, StartTurn, Crash

\* The commit of a turn (applyStagedMutationsForFloor, then the snapshot) is seen
\* at once, by readers of the branch and of the floor's snapshot alike.
THEOREM CommittedWritesAreSeen == Spec => CommitShowsWrites
<1> DEFINE Shows ==
      \A f \in Floors, s \in Slots :
        LET own == {w \in Batches \ kept :
                      s \in batch'[w].slots /\ batch'[w].floor = f
                      /\ batch'[w].status = "applied" /\ batch[w].status # "applied"}
        IN  own # {} => /\ snapshot'[f][s].batch = liveHead'[floor[f].branch][s].batch
                        /\ snapshot'[f][s].batch \in own
<1>1. ASSUME StateInv, [Next]_vars
      PROVE  Shows
  <2> SUFFICES ASSUME NEW f \in Floors, NEW s \in Slots, NEW x \in Batches \ kept,
                      s \in batch'[x].slots, batch'[x].floor = f,
                      batch'[x].status = "applied", batch[x].status # "applied"
               PROVE  LET w == snapshot'[f][s].batch
                      IN  /\ w = liveHead'[floor[f].branch][s].batch
                          /\ w \in Batches \ kept
                          /\ s \in batch'[w].slots /\ batch'[w].floor = f
                          /\ batch'[w].status = "applied" /\ batch[w].status # "applied"
    OBVIOUS
  <2>1. PICK b \in Branches : Commit(b)
    BY <1>1, StateConstants, OnlyCommitsApply
  <2> QED BY <1>1, <2>1, StateConstants, CommitShows
<1>2. StateInv /\ [Next]_vars => [Shows]_vars
  BY <1>1
<1> QED
  BY <1>2, StateInvariant, PTL DEF Spec, CommitShowsWrites

-----------------------------------------------------------------------------
(* Floors that stand, and how steps change them.                           *)

Held(f) == \E b \in Branches : turn[b].floor = f

\* Floor x is what a running regenerate puts in the place of floor y.
Replaces(x, y) ==
  \E b \in Branches : /\ turn[b].stage # "idle" /\ turn[b].kind = "regenerate"
                      /\ turn[b].floor = x /\ floor[x].parent = y

\* Floors that are committed and shown, or may come to be so by the end of a
\* turn that runs.
Standing(g) ==
  \/ floor[g].live /\ (floor[g].state = "committed" \/ Held(g))
  \/ \E x \in Floors : Replaces(x, g)

GrownOn(f) == \E c \in Floors : Exists(c) /\ floor[c].parent = f

\* Numbers do not fall along a path, and a path leads through parents.
PathsSound ==
  \A f \in Floors : \A g \in floor[f].path :
    floor[g].no <= floor[f].no /\ (g # f => GrownOn(g))

\* A floor is hidden by one that grew on it.
HiddenSound ==
  \A f \in Floors :
    ~floor[f].live /\ (floor[f].state = "committed" \/ Held(f)) => GrownOn(f)

ReplacesSound ==
  \A x \in Floors, y \in Floors \cup {NoFloor} : Replaces(x, y) =>
    /\ y \in Floors /\ y # x
    /\ floor[x].branch = Main /\ floor[y].branch = Main
    /\ floor[x].live /\ ~floor[y].live
    /\ floor[y].state = "committed"
    /\ floor[x].no = floor[y].no

\* The floors of a branch that stand are on one path, and only a floor and its
\* replacement share a number.
Chain ==
  \A x, y \in Floors : Standing(x) /\ Standing(y) /\ floor[x].branch = floor[y].branch =>
    /\ x \in floor[y].path \/ y \in floor[x].path
    /\ x # y /\ floor[x].no = floor[y].no => Replaces(x, y) \/ Replaces(y, x)

FamilyInv == PathsSound /\ HiddenSound /\ ReplacesSound /\ Chain

Shown(g) == floor[g].live /\ floor[g].state = "committed"

\* The floor of branch b that is read and grown on.
IsLatest(b, p) ==
  /\ p \in Floors /\ Shown(p) /\ floor[p].branch = b
  /\ \A g \in Floors : Shown(g) /\ floor[g].branch = b => floor[g].no <= floor[p].no

LEMMA LatestFacts ==
  ASSUME StateConstants, StateInv, NEW b \in Branches, NEW p, p = LatestCommitted(b)
  PROVE  /\ p # NoFloor => IsLatest(b, p)
         /\ p = NoFloor => \A g \in Floors : floor[g].branch = b => ~Shown(g)
<1> USE DEF StateInv
<1>1. PICK done : done = {g \in OnBranch(b) : floor[g].state = "committed"}
  OBVIOUS
<1>2. \A g \in Floors : g \in done <=> Shown(g) /\ floor[g].branch = b
  BY <1>1 DEF OnBranch, Shown
<1>3. done \in SUBSET Floors /\ NoFloor \notin Floors
  BY <1>1 DEF OnBranch, StateConstants
<1>4. p = Newest(done)
  BY <1>1 DEF LatestCommitted
<1>5. /\ done # {} => p \in done /\ \A g \in done : floor[g].no <= floor[p].no
      /\ done = {} => p = NoFloor
  BY <1>3, <1>4, NewestIsOne
<1>6. ASSUME p # NoFloor
      PROVE  IsLatest(b, p)
  BY <1>2, <1>3, <1>5, <1>6 DEF IsLatest
<1>7. ASSUME p = NoFloor
      PROVE  done = {}
  BY <1>3, <1>5, <1>7
<1> QED
  BY <1>2, <1>6, <1>7

\* Floor f is created for branch b and grows on p, or on none.
Grows(b, f, p) ==
  /\ ~Exists(f)
  /\ p \in Floors \cup {NoFloor}
  /\ p # NoFloor => Exists(p) /\ floor[p].no <= floor'[f].no
  /\ floor'[f].state = "generating" /\ floor'[f].branch = b /\ floor'[f].live
  /\ floor'[f].parent = p
  /\ floor'[f].path = IF p = NoFloor THEN {f} ELSE floor[p].path \cup {f}
  /\ IsLatest(b, p) \/ \A g \in Floors : floor[g].branch = b => ~Shown(g)

\* What respond leads to.
GrowsOnLatest(b, f, p) ==
  /\ Grows(b, f, p)
  /\ turn'[b].kind = "respond"
  /\ \A g \in Floors \ {f} : floor'[g] = floor[g]
  /\ \A g \in OnBranch(b) : floor[g].no < floor'[f].no
  /\ \/ p = NoFloor \/ floor[p].branch = b \/ OnBranch(b) = {}
     \/ \E last \in Floors : /\ Exists(last) /\ floor[last].branch = b
                             /\ floor[last].parent = p

LEMMA RespondGrows ==
  ASSUME StateConstants, StateInv, PathsSound, NEW b \in Branches, NEW f \in Floors, Respond(b, f)
  PROVE  \E p \in Floors \cup {NoFloor} : GrowsOnLatest(b, f, p)
<1> USE DEF StateInv
<1>1. PICK last : last = Newest(OnBranch(b))
  OBVIOUS
<1>2. PICK grown : grown = LatestCommitted(b)
  OBVIOUS
<1>3. /\ OnBranch(b) \in SUBSET Floors /\ NoFloor \notin Floors
      /\ \A g \in OnBranch(b) : Exists(g) /\ floor[g].branch = b
      /\ \A g \in Floors : Shown(g) => Exists(g)
      /\ \A g \in Floors : Shown(g) /\ floor[g].branch = b => g \in OnBranch(b)
      /\ \A g \in Floors : /\ floor[g].no \in Nat /\ floor[g].parent \in Floors \cup {NoFloor}
                           /\ floor[g].path \in SUBSET Floors
  BY DEF OnBranch, StateConstants, Shown, Exists, TypeOK, FloorRow
<1>4. /\ grown # NoFloor => IsLatest(b, grown)
      /\ grown = NoFloor => \A g \in Floors : floor[g].branch = b => ~Shown(g)
  BY <1>2, LatestFacts
<1>5. /\ OnBranch(b) # {} => /\ last \in OnBranch(b)
                             /\ \A g \in OnBranch(b) : floor[g].no <= floor[last].no
      /\ OnBranch(b) = {} => last = NoFloor
  BY <1>1, <1>3, NewestIsOne
<1>6. \E n \in Nat, p \in Floors \cup {NoFloor} :
        /\ floor' = [floor EXCEPT ![f] = With(NewFloor(b, n, p), f)]
        /\ p # NoFloor => Exists(p) /\ floor[p].no <= n
        /\ IsLatest(b, p) \/ \A g \in Floors : floor[g].branch = b => ~Shown(g)
        /\ \A g \in OnBranch(b) : floor[g].no < n
        /\ \/ p = NoFloor \/ floor[p].branch = b \/ OnBranch(b) = {}
           \/ \E h \in Floors : Exists(h) /\ floor[h].branch = b /\ floor[h].parent = p
  <2>1. CASE last # NoFloor
    <3>1. PICK p : p = IF grown # NoFloor THEN grown ELSE floor[last].parent
      OBVIOUS
    <3>2. PICK n : n = floor[last].no + 1
      OBVIOUS
    <3>3. floor' = [floor EXCEPT ![f] = With(NewFloor(b, n, p), f)]
      BY <1>1, <1>2, <2>1, <3>1, <3>2 DEF Respond
    <3>4. last \in OnBranch(b) /\ last \in Floors /\ Exists(last) /\ floor[last].branch = b
      BY <1>3, <1>5, <2>1
    <3>5. n \in Nat /\ \A g \in OnBranch(b) : floor[g].no < n
      BY <1>3, <1>5, <3>2, <3>4
    <3>6. CASE grown # NoFloor
      <4>1. p = grown /\ IsLatest(b, p)
        BY <1>4, <3>1, <3>6
      <4>2. p \in Floors /\ p \in OnBranch(b) /\ floor[p].branch = b /\ Exists(p)
        BY <1>3, <4>1 DEF IsLatest
      <4>3. floor[p].no <= n
        BY <1>3, <3>5, <4>2
      <4> QED BY <3>3, <3>5, <4>1, <4>2, <4>3
    <3>7. CASE grown = NoFloor
      <4>1. p = floor[last].parent /\ p \in Floors \cup {NoFloor}
        BY <1>3, <3>1, <3>4, <3>7
      <4>2. ASSUME p # NoFloor
            PROVE  Exists(p) /\ floor[p].no <= n
        <5>1. p \in Floors /\ Exists(p) /\ floor[p].path \subseteq floor[last].path
          BY <3>4, <4>1, <4>2 DEF RowsSound
        <5>2. p \in floor[last].path
          BY <5>1 DEF RowsSound
        <5>3. floor[p].no <= floor[last].no
          BY <3>4, <5>2 DEF PathsSound
        <5> QED BY <1>3, <3>2, <3>4, <5>1, <5>3
      <4> QED BY <1>4, <3>3, <3>4, <3>5, <3>7, <4>1, <4>2
    <3> QED BY <3>6, <3>7
  <2>2. CASE last = NoFloor
    <3>1. OnBranch(b) = {}
      BY <1>3, <1>5, <2>2
    <3>2. PICK p \in Sources :
            floor' = [floor EXCEPT ![f] =
              With(NewFloor(b, IF p = NoFloor THEN 0 ELSE floor[p].no + 1, p), f)]
      BY <1>1, <2>2 DEF Respond
    <3>3. PICK n : n = IF p = NoFloor THEN 0 ELSE floor[p].no + 1
      OBVIOUS
    <3>4. p # NoFloor => p \in Floors /\ Exists(p)
      <4>1. Main \in Branches
        BY DEF StateConstants
      <4>2. PICK m : m = LatestCommitted(Main)
        OBVIOUS
      <4>3. m # NoFloor => IsLatest(Main, m)
        BY <4>1, <4>2, LatestFacts
      <4> QED BY <1>3, <4>2, <4>3 DEF Sources, IsLatest, Exists
    <3>5. n \in Nat /\ (p # NoFloor => floor[p].no <= n)
      BY <1>3, <3>3, <3>4
    <3>6. \A g \in Floors : floor[g].branch = b => ~Shown(g)
      BY <1>3, <3>1
    <3>7. floor' = [floor EXCEPT ![f] = With(NewFloor(b, n, p), f)]
      BY <3>2, <3>3
    <3>8. p \in Floors \cup {NoFloor}
      BY <3>4
    <3> QED BY <3>1, <3>4, <3>5, <3>6, <3>7, <3>8
  <2> QED BY <2>1, <2>2
<1>7. PICK n \in Nat, p \in Floors \cup {NoFloor} :
        /\ floor' = [floor EXCEPT ![f] = With(NewFloor(b, n, p), f)]
        /\ p # NoFloor => Exists(p) /\ floor[p].no <= n
        /\ IsLatest(b, p) \/ \A g \in Floors : floor[g].branch = b => ~Shown(g)
        /\ \A g \in OnBranch(b) : floor[g].no < n
        /\ \/ p = NoFloor \/ floor[p].branch = b \/ OnBranch(b) = {}
           \/ \E h \in Floors : Exists(h) /\ floor[h].branch = b /\ floor[h].parent = p
  BY <1>6
<1>8. PICK row : row = With(NewFloor(b, n, p), f)
  OBVIOUS
<1>9. /\ row.state = "generating" /\ row.branch = b /\ row.no = n /\ row.parent = p /\ row.live
      /\ row.path = IF p = NoFloor THEN {f} ELSE floor[p].path \cup {f}
  BY <1>8 DEF With, NewFloor
<1>10. floor'[f] = row /\ \A g \in Floors \ {f} : floor'[g] = floor[g]
  BY <1>7, <1>8 DEF TypeOK
<1>11. ~Exists(f) /\ turn'[b].kind = "respond"
  BY DEF Respond, StartTurn, Exists, TypeOK
<1>12. Grows(b, f, p)
  BY <1>7, <1>9, <1>10, <1>11 DEF Grows
<1>13. /\ \A g \in OnBranch(b) : floor[g].no < floor'[f].no
       /\ \/ p = NoFloor \/ floor[p].branch = b \/ OnBranch(b) = {}
          \/ \E last0 \in Floors : Exists(last0) /\ floor[last0].branch = b /\ floor[last0].parent = p
  BY <1>7, <1>9, <1>10
<1> QED
  BY <1>10, <1>11, <1>12, <1>13 DEF GrowsOnLatest

\* What regenerate leads to.
GrowsOver(f, p) ==
  /\ Grows(Main, f, p)
  /\ IsLatest(Main, p) /\ p # f
  /\ turn'[Main].kind = "regenerate"
  /\ floor'[f].no = floor[p].no
  /\ ~floor'[p].live /\ floor'[p].state = floor[p].state
  /\ \A g \in Floors \ {f, p} : floor'[g] = floor[g]

LEMMA RegenerateGrows ==
  ASSUME StateConstants, StateInv, NEW f \in Floors, Regenerate(f)
  PROVE  \E p \in Floors : GrowsOver(f, p)
<1> USE DEF StateInv
<1>1. PICK p : p = LatestCommitted(Main)
  OBVIOUS
<1>2. p # NoFloor /\ floor[f].state = "none" /\ Main \in Branches
  BY <1>1 DEF Regenerate, StateConstants
<1>3. IsLatest(Main, p)
  BY <1>1, <1>2, LatestFacts
<1>4. p \in Floors /\ p # f /\ Exists(p) /\ floor[p] \in FloorRow /\ floor[p].no \in Nat
  BY <1>2, <1>3 DEF IsLatest, Shown, Exists, TypeOK, FloorRow
<1>5. PICK row : row = With(NewFloor(Main, floor[p].no, p), f)
  OBVIOUS
<1>6. /\ row.state = "generating" /\ row.branch = Main /\ row.no = floor[p].no /\ row.parent = p
      /\ row.live /\ row.path = floor[p].path \cup {f}
  BY <1>2, <1>5 DEF With, NewFloor
<1>7. floor' = [floor EXCEPT ![f] = row, ![p].live = FALSE]
  BY <1>1, <1>5 DEF Regenerate
<1>8. floor'[f] = row /\ floor'[p] = [floor[p] EXCEPT !.live = FALSE]
      /\ \A g \in Floors \ {f, p} : floor'[g] = floor[g]
  BY <1>4, <1>7 DEF TypeOK
<1>9. ~floor'[p].live /\ floor'[p].state = floor[p].state
  BY <1>4, <1>8 DEF FloorRow
<1>10. turn'[Main].kind = "regenerate"
  BY <1>2 DEF Regenerate, StartTurn, TypeOK
<1>11. Grows(Main, f, p)
  BY <1>2, <1>3, <1>4, <1>6, <1>8 DEF Grows, Exists
<1> QED
  BY <1>3, <1>4, <1>6, <1>8, <1>9, <1>10, <1>11 DEF GrowsOver

\* Paths stay as they are, and the path of a new floor continues one.
LEMMA PathsStay ==
  ASSUME StateConstants, StateInv, PathsSound, RowsStep,
         \A f \in Floors : ~Exists(f) =>
           floor'[f] = floor[f] \/ \E b \in Branches, p \in Floors \cup {NoFloor} : Grows(b, f, p)
  PROVE  PathsSound' /\ \A f \in Floors : GrownOn(f) => GrownOn(f)'
<1> USE DEF StateInv
<1>1. \A f \in Floors : Exists(f) => Exists(f)' /\ floor'[f].path = floor[f].path
                                     /\ floor'[f].no = floor[f].no
                                     /\ floor'[f].parent = floor[f].parent
  BY DEF RowsStep, RowKept, Exists
<1>2. ASSUME NEW f \in Floors, GrownOn(f)
      PROVE  GrownOn(f)'
  BY <1>1, <1>2 DEF GrownOn
<1>3. \A f \in Floors : /\ floor[f].path \in SUBSET Floors /\ floor[f].no \in Nat
                        /\ floor'[f].no \in Nat
  BY DEF TypeOK, RowsStep, FloorRow
<1>4. ASSUME NEW f \in Floors, NEW g \in floor'[f].path
      PROVE  floor'[g].no <= floor'[f].no /\ (g # f => GrownOn(g)')
  <2>1. CASE Exists(f)
    <3>1. g \in floor[f].path /\ g \in Floors /\ Exists(g)
      BY <1>1, <1>3, <1>4, <2>1 DEF RowsSound
    <3>2. floor[g].no <= floor[f].no /\ (g # f => GrownOn(g))
      BY <3>1 DEF PathsSound
    <3> QED BY <1>1, <1>2, <2>1, <3>1, <3>2
  <2>2. CASE ~Exists(f) /\ floor'[f] = floor[f]
    BY <1>4, <2>2 DEF RowsSound
  <2>3. CASE ~Exists(f) /\ \E b \in Branches, p \in Floors \cup {NoFloor} : Grows(b, f, p)
    <3>1. PICK p : /\ p # NoFloor => Exists(p) /\ floor[p].no <= floor'[f].no
                   /\ p \in Floors \cup {NoFloor}
                   /\ floor'[f].state = "generating" /\ floor'[f].parent = p
                   /\ floor'[f].path = IF p = NoFloor THEN {f} ELSE floor[p].path \cup {f}
      BY <2>3 DEF Grows
    <3>2. CASE g = f
      BY <1>3, <3>2
    <3>3. CASE g # f
      <4>1. p \in Floors /\ Exists(p) /\ g \in floor[p].path /\ floor[p].no <= floor'[f].no
        BY <1>4, <3>1, <3>3
      <4>2. g \in Floors /\ Exists(g) /\ floor[g].no <= floor[p].no /\ (g # p => GrownOn(g))
        BY <1>3, <4>1 DEF RowsSound, PathsSound
      <4>3. GrownOn(p)'
        BY <3>1 DEF GrownOn, Exists
      <4> QED BY <1>1, <1>2, <1>3, <4>1, <4>2, <4>3
    <3> QED BY <3>2, <3>3
  <2> QED BY <2>1, <2>2, <2>3 DEF RowsStep
<1> QED
  BY <1>2, <1>4 DEF PathsSound

\* On a branch without a turn what stands is committed and shown.
LEMMA QuietBranch ==
  ASSUME StateConstants, StateInv, ReplacesSound, NEW b \in Branches, turn[b].stage = "idle",
         NEW g \in Floors, floor[g].branch = b
  PROVE  /\ ~Held(g)
         /\ \A x \in Floors : ~Replaces(x, g) /\ ~Replaces(g, x)
         /\ Standing(g) <=> Shown(g)
<1> USE DEF StateInv
<1>1. NoFloor \notin Floors
  BY DEF StateConstants
<1>2. \A h \in Floors : floor[h].branch = b => ~Held(h)
  BY <1>1 DEF Held, TurnsSound
<1>3. ASSUME NEW x \in Floors, NEW y \in Floors, Replaces(x, y), floor[x].branch = b \/ floor[y].branch = b
      PROVE  FALSE
  <2>1. floor[x].branch = b
    BY <1>3 DEF ReplacesSound
  <2>2. Held(x)
    BY <1>3 DEF Held, Replaces
  <2> QED BY <1>2, <2>1, <2>2
<1> QED
  BY <1>2, <1>3 DEF Standing, Shown

\* The latest floor of a quiet branch has all that stand there on its path.
LEMMA OnLatestPath ==
  ASSUME StateConstants, StateInv, FamilyInv, NEW b \in Branches, turn[b].stage = "idle",
         NEW p, IsLatest(b, p), NEW g \in Floors, floor[g].branch = b, Standing(g)
  PROVE  /\ g \in floor[p].path /\ Shown(g)
         /\ floor[g].no = floor[p].no => g = p
<1> USE DEF StateInv, FamilyInv
<1>1. p \in Floors /\ Shown(p) /\ floor[p].branch = b
  BY DEF IsLatest
<1>2. /\ Standing(p) /\ Shown(g)
      /\ \A x \in Floors : ~Replaces(x, g) /\ ~Replaces(g, x)
  BY <1>1, QuietBranch
<1>3. floor[g].no <= floor[p].no /\ floor[g].no \in Nat /\ floor[p].no \in Nat
  BY <1>1, <1>2 DEF IsLatest, TypeOK, FloorRow
<1>4. floor[g].no = floor[p].no => g = p
  BY <1>1, <1>2 DEF Chain
<1>5. g \in floor[p].path \/ p \in floor[g].path
  BY <1>1, <1>2 DEF Chain
<1>6. CASE p \in floor[g].path
  <2>1. floor[p].no <= floor[g].no
    BY <1>6 DEF PathsSound
  <2>2. g = p
    BY <1>3, <1>4, <2>1
  <2>3. p \in floor[p].path
    BY <1>1 DEF RowsSound, Shown, Exists
  <2> QED BY <1>2, <2>2, <2>3
<1> QED
  BY <1>2, <1>4, <1>5, <1>6

-----------------------------------------------------------------------------
(* Every action keeps what is known of the floors, and a floor that no     *)
(* longer stands never stands again.                                       *)

Shrinks == \A g \in Floors : Exists(g) /\ Standing(g)' => Standing(g)

LEMMA RespondFamily ==
  ASSUME StateConstants, StateInv, FamilyInv, NEW b \in Branches, NEW f \in Floors, Respond(b, f)
  PROVE  FamilyInv' /\ Shrinks
<1> USE DEF StateInv, FamilyInv
<1>1. RowsStep /\ Started(b, f)
  BY RespondFacts
<1>2. PICK p \in Floors \cup {NoFloor} : GrowsOnLatest(b, f, p)
  BY RespondGrows
<1>3. /\ ~Exists(f) /\ (\A g \in Floors \ {f} : floor'[g] = floor[g])
      /\ floor'[f].branch = b /\ floor'[f].live /\ floor'[f].state = "generating"
      /\ turn[b].stage = "idle" /\ turn'[b].floor = f /\ turn'[b].kind = "respond"
      /\ (\A c \in Branches \ {b} : turn'[c] = turn[c])
      /\ NoFloor \notin Floors /\ turn[b].floor = NoFloor
  BY <1>1, <1>2 DEF GrowsOnLatest, Grows, Started, StateConstants, TurnsSound
<1>4. PathsSound' /\ \A g \in Floors : GrownOn(g) => GrownOn(g)'
  BY <1>1, <1>2, <1>3, PathsStay DEF GrowsOnLatest
<1>5. \A c \in Branches : turn[c].stage # "idle" => c # b /\ turn[c].floor # f /\ turn[c].floor \in Floors
  BY <1>3 DEF TurnsSound, Exists
<1>6. \A x \in Floors, y \in Floors \cup {NoFloor} : Replaces(x, y)' <=> Replaces(x, y)
  BY <1>3, <1>5, SMTT(30) DEF Replaces
<1>7. \A g \in Floors \ {f} : Held(g)' <=> Held(g)
  BY <1>3 DEF Held
<1>8. \A x \in Floors, y \in Floors \cup {NoFloor} : Replaces(x, y) => x # f /\ y # f
  <2>1. \A x \in Floors, y \in Floors \cup {NoFloor} : Replaces(x, y) => x # f
    BY <1>5 DEF Replaces
  <2> QED BY <1>3, <2>1 DEF ReplacesSound, Exists
<1>9. \A g \in Floors \ {f} : Standing(g)' <=> Standing(g)
  BY <1>3, <1>6, <1>7 DEF Standing
<1>10. HiddenSound'
  BY <1>3, <1>4, <1>7 DEF HiddenSound
<1>11. ReplacesSound'
  <2> SUFFICES ASSUME NEW x \in Floors, NEW y \in Floors \cup {NoFloor}, Replaces(x, y)'
               PROVE  /\ y \in Floors /\ y # x
                      /\ floor'[x].branch = Main /\ floor'[y].branch = Main
                      /\ floor'[x].live /\ ~floor'[y].live
                      /\ floor'[y].state = "committed"
                      /\ floor'[x].no = floor'[y].no
    BY DEF ReplacesSound
  <2>1. Replaces(x, y) /\ x # f /\ y # f
    BY <1>6, <1>8
  <2>2. y \in Floors
    BY <2>1 DEF ReplacesSound
  <2> QED BY <1>3, <2>1, <2>2 DEF ReplacesSound
<1>12. ASSUME NEW g \in Floors \ {f}, floor[g].branch = b, Standing(g)
       PROVE  g \in floor'[f].path /\ floor'[g].no < floor'[f].no
  <2>1. Shown(g)
    BY <1>3, <1>12, QuietBranch
  <2>2. IsLatest(b, p)
    BY <1>2, <1>12, <2>1 DEF GrowsOnLatest, Grows
  <2>3. g \in floor[p].path
    BY <1>3, <1>12, <2>2, OnLatestPath
  <2>4. p # NoFloor
    BY <1>3, <2>2 DEF IsLatest
  <2>5. floor'[f].path = floor[p].path \cup {f}
    BY <1>2, <2>4 DEF GrowsOnLatest, Grows
  <2>6. g \in OnBranch(b)
    BY <1>12, <2>1 DEF OnBranch, Shown
  <2> QED BY <1>2, <1>3, <2>3, <2>5, <2>6 DEF GrowsOnLatest
<1>13. Chain'
  <2> SUFFICES ASSUME NEW x \in Floors, NEW y \in Floors, Standing(x)', Standing(y)',
                      floor'[x].branch = floor'[y].branch
               PROVE  /\ x \in floor'[y].path \/ y \in floor'[x].path
                      /\ x # y /\ floor'[x].no = floor'[y].no => Replaces(x, y)' \/ Replaces(y, x)'
    BY DEF Chain
  <2>1. CASE x # f /\ y # f
    BY <1>3, <1>6, <1>9, <2>1 DEF Chain
  <2>2. CASE x = f /\ y = f
    <3>1. f \in floor'[f].path
      BY <1>2 DEF GrowsOnLatest, Grows
    <3> QED BY <2>2, <3>1
  <2>3. \A g \in Floors : floor'[g].no \in Nat
    BY <1>1 DEF RowsStep, FloorRow
  <2>4. CASE x = f /\ y # f
    <3>1. y \in floor'[f].path /\ floor'[y].no < floor'[f].no
      BY <1>3, <1>9, <1>12, <2>4
    <3> QED BY <2>3, <2>4, <3>1
  <2>5. CASE x # f /\ y = f
    <3>1. x \in floor'[f].path /\ floor'[x].no < floor'[f].no
      BY <1>3, <1>9, <1>12, <2>5
    <3> QED BY <2>3, <2>5, <3>1
  <2> QED BY <2>1, <2>2, <2>4, <2>5
<1>14. Shrinks
  BY <1>3, <1>9 DEF Shrinks
<1> QED
  BY <1>4, <1>10, <1>11, <1>13, <1>14

LEMMA RegenerateFamily ==
  ASSUME StateConstants, StateInv, FamilyInv, NEW f \in Floors, Regenerate(f)
  PROVE  FamilyInv' /\ Shrinks
<1> USE DEF StateInv, FamilyInv
<1>1. RowsStep /\ Started(Main, f)
  BY RegenerateFacts
<1>2. PICK p \in Floors : GrowsOver(f, p)
  BY RegenerateGrows
<1>3. /\ ~Exists(f) /\ p # f /\ IsLatest(Main, p)
      /\ (\A g \in Floors \ {f, p} : floor'[g] = floor[g])
      /\ ~floor'[p].live /\ floor'[p].state = floor[p].state
      /\ floor'[f].branch = Main /\ floor'[f].live /\ floor'[f].state = "generating"
      /\ floor'[f].parent = p /\ floor'[f].path = floor[p].path \cup {f}
      /\ floor'[f].no = floor[p].no
      /\ turn[Main].stage = "idle" /\ turn'[Main].floor = f
      /\ turn'[Main].kind = "regenerate" /\ turn'[Main].stage = "running"
      /\ (\A c \in Branches \ {Main} : turn'[c] = turn[c])
      /\ Main \in Branches /\ NoFloor \notin Floors /\ turn[Main].floor = NoFloor
  BY <1>1, <1>2 DEF GrowsOver, Grows, Started, StateConstants, TurnsSound
<1>4. Shown(p) /\ floor[p].branch = Main /\ Exists(p)
  BY <1>3 DEF IsLatest, Shown, Exists
<1>5. \A g \in Floors : Exists(g) => floor'[g].branch = floor[g].branch /\ floor'[g].no = floor[g].no
                                     /\ floor'[g].parent = floor[g].parent
                                     /\ floor'[g].path = floor[g].path
  BY <1>1 DEF RowsStep, RowKept
<1>6. PathsSound' /\ \A g \in Floors : GrownOn(g) => GrownOn(g)'
  <2>1. \A g \in Floors : ~Exists(g) => floor'[g] = floor[g] \/ (Grows(Main, f, p) /\ g = f)
    BY <1>2, <1>3, <1>4 DEF GrowsOver
  <2> QED BY <1>1, <1>3, <2>1, PathsStay
<1>7. \A x \in Floors, y \in Floors \cup {NoFloor} : ~Replaces(x, y)
  <2> SUFFICES ASSUME NEW x \in Floors, NEW y \in Floors \cup {NoFloor}, Replaces(x, y)
               PROVE  FALSE
    OBVIOUS
  <2>1. floor[x].branch = Main /\ y \in Floors
    BY DEF ReplacesSound
  <2> QED BY <1>3, <2>1, QuietBranch
<1>8. \A x \in Floors, y \in Floors \cup {NoFloor} : Replaces(x, y)' <=> x = f /\ y = p
  <2> SUFFICES ASSUME NEW x \in Floors, NEW y \in Floors \cup {NoFloor}
               PROVE  Replaces(x, y)' <=> x = f /\ y = p
    OBVIOUS
  <2>1. CASE x = f
    BY <1>3, <2>1 DEF Replaces, TurnsSound, Exists
  <2>2. CASE x # f
    <3>1. ASSUME Replaces(x, y)'
          PROVE  FALSE
      <4>1. PICK c \in Branches : /\ turn'[c].stage # "idle" /\ turn'[c].kind = "regenerate"
                                  /\ turn'[c].floor = x /\ floor'[x].parent = y
        BY <3>1 DEF Replaces
      <4>2. c # Main /\ turn'[c] = turn[c]
        BY <1>3, <2>2, <4>1
      <4>3. Exists(x)
        BY <4>1, <4>2 DEF TurnsSound, Exists
      <4>4. Replaces(x, y)
        BY <1>5, <4>1, <4>2, <4>3 DEF Replaces
      <4> QED BY <1>7, <4>4
    <3> QED BY <2>2, <3>1
  <2> QED BY <2>1, <2>2
<1>9. \A g \in Floors \ {f} : Held(g)' <=> Held(g)
  BY <1>3 DEF Held
<1>10. /\ \A g \in Floors \ {f, p} : Standing(g)' <=> Standing(g)
       /\ Standing(p)
  BY <1>3, <1>4, <1>7, <1>8, <1>9 DEF Standing, Shown
<1>11. HiddenSound'
  <2> SUFFICES ASSUME NEW g \in Floors, ~floor'[g].live,
                      floor'[g].state = "committed" \/ Held(g)'
               PROVE  GrownOn(g)'
    BY DEF HiddenSound
  <2>1. CASE g = p
    BY <1>3, <2>1 DEF GrownOn, Exists
  <2>2. CASE g # p
    <3>1. g # f /\ floor'[g] = floor[g]
      BY <1>3, <2>2
    <3> QED BY <1>6, <1>9, <3>1 DEF HiddenSound
  <2> QED BY <2>1, <2>2
<1>12. ReplacesSound'
  <2>1. /\ floor'[p].branch = Main /\ floor'[p].state = "committed"
        /\ floor'[f].no = floor'[p].no
    BY <1>3, <1>4, <1>5 DEF Shown
  <2> QED BY <1>3, <1>8, <2>1 DEF ReplacesSound
<1>13. ASSUME NEW g \in Floors \ {f}, Standing(g), floor[g].branch = Main
       PROVE  g \in floor'[f].path /\ (floor[g].no = floor[p].no => g = p)
  BY <1>3, <1>13, OnLatestPath
<1>14. \A g \in Floors : Standing(g)' /\ g # f => Standing(g) /\ Exists(g)
  <2>1. \A g \in Floors : Standing(g)' /\ g # f => Standing(g)
    BY <1>10
  <2>2. \A g \in Floors : Standing(g) => Exists(g)
    <3>1. \A g \in Floors : Held(g) => Exists(g)
      BY <1>3 DEF Held, TurnsSound, Exists
    <3> QED BY <1>7, <3>1 DEF Standing, Exists
  <2> QED BY <2>1, <2>2
<1>15. Chain'
  <2> SUFFICES ASSUME NEW x \in Floors, NEW y \in Floors, Standing(x)', Standing(y)',
                      floor'[x].branch = floor'[y].branch
               PROVE  /\ x \in floor'[y].path \/ y \in floor'[x].path
                      /\ x # y /\ floor'[x].no = floor'[y].no => Replaces(x, y)' \/ Replaces(y, x)'
    BY DEF Chain
  <2>1. CASE x # f /\ y # f
    <3>1. /\ Standing(x) /\ Standing(y) /\ Exists(x) /\ Exists(y)
          /\ floor[x].branch = floor[y].branch
      BY <1>5, <1>14, <2>1
    <3> QED BY <1>5, <1>7, <3>1 DEF Chain
  <2>2. CASE x = f /\ y = f
    BY <1>3, <2>2
  <2>3. CASE x = f /\ y # f
    BY <1>3, <1>5, <1>8, <1>13, <1>14, <2>3
  <2>4. CASE x # f /\ y = f
    BY <1>3, <1>5, <1>8, <1>13, <1>14, <2>4
  <2> QED BY <2>1, <2>2, <2>3, <2>4
<1>16. Shrinks
  BY <1>3, <1>14 DEF Shrinks
<1> QED
  BY <1>6, <1>11, <1>12, <1>15, <1>16

LEMMA RetryFamily ==
  ASSUME StateConstants, StateInv, FamilyInv, NEW f \in Floors, Retry(f)
  PROVE  FamilyInv' /\ Shrinks
<1> USE DEF StateInv, FamilyInv
<1>1. PICK b : b = floor[f].branch
  OBVIOUS
<1>2. RowsStep /\ b \in Branches /\ Started(b, f)
  BY <1>1, RetryFacts
<1>3. /\ floor[f].state = "committed" /\ floor' = [floor EXCEPT ![f].state = "generating"]
      /\ turn' = [turn EXCEPT ![b] = [stage |-> "running", floor |-> f, kind |-> "retry"]]
      /\ floor[f] \in FloorRow
  BY <1>1 DEF Retry, StartTurn, TypeOK
<1>4. /\ \A g \in Floors \ {f} : floor'[g] = floor[g]
      /\ floor'[f].state = "generating"
      /\ \A g \in Floors : /\ floor'[g].live = floor[g].live /\ floor'[g].path = floor[g].path
                           /\ floor'[g].parent = floor[g].parent /\ floor'[g].no = floor[g].no
                           /\ floor'[g].branch = floor[g].branch
  BY <1>3 DEF TypeOK, FloorRow
<1>5. /\ turn[b].stage = "idle" /\ turn'[b].floor = f /\ turn'[b].kind = "retry"
      /\ (\A c \in Branches \ {b} : turn'[c] = turn[c])
      /\ NoFloor \notin Floors /\ turn[b].floor = NoFloor
  BY <1>2, <1>3 DEF Started, StateConstants, TurnsSound, TypeOK
<1>6. PathsSound' /\ \A g \in Floors : GrownOn(g) => GrownOn(g)'
  <2>1. \A g \in Floors : ~Exists(g) => floor'[g] = floor[g]
    BY <1>3, <1>4 DEF Exists
  <2> QED BY <1>2, <2>1, PathsStay
<1>7. \A x \in Floors, y \in Floors \cup {NoFloor} : Replaces(x, y)' <=> Replaces(x, y)
  <2> SUFFICES ASSUME NEW x \in Floors, NEW y \in Floors \cup {NoFloor}
               PROVE  Replaces(x, y)' <=> Replaces(x, y)
    OBVIOUS
  <2>1. \A c \in Branches : /\ turn'[c].stage # "idle" /\ turn'[c].kind = "regenerate"
                            <=> /\ c # b
                                /\ turn[c].stage # "idle" /\ turn[c].kind = "regenerate"
    BY <1>5
  <2>2. \A c \in Branches : turn[c].stage # "idle" => c # b
    BY <1>5
  <2> QED BY <1>4, <1>5, <2>1, <2>2 DEF Replaces
<1>8. Held(f)' /\ \A g \in Floors \ {f} : Held(g)' <=> Held(g)
  BY <1>2, <1>5 DEF Held
<1>9. \A x \in Floors : ~Replaces(x, f)
  BY <1>1, <1>2, <1>5, QuietBranch
<1>10. \A g \in Floors : Standing(g)' <=> Standing(g)
  <2>1. \A g \in Floors \ {f} : Standing(g)' <=> Standing(g)
    BY <1>4, <1>7, <1>8 DEF Standing
  <2>2. Standing(f)' <=> Standing(f)
    BY <1>3, <1>4, <1>7, <1>8, <1>9 DEF Standing
  <2> QED BY <2>1, <2>2
<1>11. HiddenSound'
  <2>1. ASSUME ~floor'[f].live
        PROVE  GrownOn(f)'
    BY <1>3, <1>4, <1>6, <2>1 DEF HiddenSound
  <2>2. ASSUME NEW g \in Floors \ {f}, ~floor'[g].live, floor'[g].state = "committed" \/ Held(g)'
        PROVE  GrownOn(g)'
    BY <1>4, <1>6, <1>8, <2>2 DEF HiddenSound
  <2> QED BY <2>1, <2>2 DEF HiddenSound
<1>12. ReplacesSound'
  BY <1>4, <1>7, <1>9 DEF ReplacesSound
<1>13. Chain'
  BY <1>4, <1>7, <1>10 DEF Chain
<1>14. Shrinks
  BY <1>10 DEF Shrinks
<1> QED
  BY <1>6, <1>11, <1>12, <1>13, <1>14

\* Turns that end, and floors that change with them.  The source of a regenerate
\* is shown again only when its replacement is not.
TurnsEnd ==
  /\ RowsStep
  /\ \A g \in Floors : ~Exists(g) => floor'[g] = floor[g]
  /\ \A c \in Branches :
       \/ turn'[c].stage = "idle" /\ turn'[c].floor = NoFloor
       \/ /\ turn'[c].stage # "idle" /\ turn[c].stage # "idle"
          /\ turn'[c].floor = turn[c].floor /\ turn'[c].kind = turn[c].kind
  /\ \A g \in Floors : /\ Exists(g)' => Exists(g)
                       /\ floor'[g].state = "committed" => floor[g].state = "committed" \/ Held(g)
                       /\ floor[g].live /\ ~floor'[g].live => floor'[g].state # "committed" /\ ~Held(g)'
                       /\ floor'[g].live /\ ~floor[g].live => \E x \in Floors : Replaces(x, g)
  /\ \A x, y \in Floors : Replaces(x, y) =>
       IF Replaces(x, y)'
         THEN floor'[x].live /\ ~floor'[y].live /\ floor'[y].state = "committed"
         ELSE ~floor'[x].live \/ ~floor'[y].live

LEMMA TurnsEndFamily ==
  ASSUME StateConstants, StateInv, FamilyInv, TurnsEnd
  PROVE  FamilyInv' /\ Shrinks
<1> USE DEF StateInv, FamilyInv
<1>1. /\ RowsStep
      /\ \A g \in Floors : Exists(g) => /\ floor'[g].branch = floor[g].branch
                                        /\ floor'[g].no = floor[g].no
                                        /\ floor'[g].parent = floor[g].parent
                                        /\ floor'[g].path = floor[g].path
                                        /\ Exists(g)'
  BY DEF TurnsEnd, RowsStep, RowKept, Exists
<1>2. PathsSound' /\ \A g \in Floors : GrownOn(g) => GrownOn(g)'
  BY <1>1, PathsStay DEF TurnsEnd
<1>3. NoFloor \notin Floors
  BY DEF StateConstants
<1>4. \A g \in Floors : Held(g)' => Held(g) /\ Exists(g)
  BY <1>3 DEF Held, TurnsEnd, TurnsSound, Exists
<1>5. \A x \in Floors, y \in Floors \cup {NoFloor} : Replaces(x, y)' => Replaces(x, y)
  <2> SUFFICES ASSUME NEW x \in Floors, NEW y \in Floors \cup {NoFloor}, NEW c \in Branches,
                      turn'[c].stage # "idle", turn'[c].kind = "regenerate",
                      turn'[c].floor = x, floor'[x].parent = y
               PROVE  Replaces(x, y)
    BY DEF Replaces
  <2>1. turn[c].stage # "idle" /\ turn[c].kind = "regenerate" /\ turn[c].floor = x
    BY <1>3 DEF TurnsEnd
  <2>2. Exists(x)
    BY <2>1 DEF TurnsSound, Exists
  <2> QED BY <1>1, <2>1, <2>2 DEF Replaces
<1>6. \A g \in Floors : Standing(g)' => Standing(g) /\ Exists(g)
  <2> SUFFICES ASSUME NEW g \in Floors, Standing(g)'
               PROVE  Standing(g) /\ Exists(g)
    OBVIOUS
  <2>1. CASE \E x \in Floors : Replaces(x, g)
    BY <2>1 DEF Standing, ReplacesSound, Exists
  <2>2. CASE ~\E x \in Floors : Replaces(x, g)
    <3>1. floor'[g].live /\ (floor'[g].state = "committed" \/ Held(g)')
      BY <1>5, <2>2 DEF Standing
    <3>2. floor[g].live /\ (floor[g].state = "committed" \/ Held(g))
      BY <1>4, <2>2, <3>1 DEF TurnsEnd
    <3>3. Exists(g)
      BY <3>1, <1>4 DEF TurnsEnd, Exists
    <3> QED BY <3>2, <3>3 DEF Standing
  <2> QED BY <2>1, <2>2
<1>7. HiddenSound'
  <2> SUFFICES ASSUME NEW g \in Floors, ~floor'[g].live,
                      floor'[g].state = "committed" \/ Held(g)'
               PROVE  GrownOn(g)'
    BY DEF HiddenSound
  <2>1. ~floor[g].live /\ (floor[g].state = "committed" \/ Held(g))
    BY <1>4 DEF TurnsEnd
  <2> QED BY <1>2, <2>1 DEF HiddenSound
<1>8. \A x, y \in Floors : Replaces(x, y) => Exists(x) /\ Exists(y)
  <2>1. \A x, y \in Floors : Replaces(x, y) => Exists(x)
    BY DEF Replaces, TurnsSound, Exists
  <2> QED BY <2>1 DEF ReplacesSound, Exists
<1>9. ASSUME NEW x \in Floors, NEW y \in Floors, Replaces(x, y), ~Replaces(x, y)'
      PROVE  ~(Standing(x)' /\ Standing(y)')
  <2>1. ~floor'[x].live \/ ~floor'[y].live
    BY <1>9 DEF TurnsEnd
  <2>2. PICK c \in Branches : turn[c].stage # "idle" /\ turn[c].floor = x
                              /\ turn[c].kind = "regenerate" /\ floor[x].parent = y
    BY <1>9 DEF Replaces
  <2>3. floor[x].branch = Main /\ floor[y].branch = Main
    BY <1>9 DEF ReplacesSound
  <2>4. c = Main
    BY <2>2, <2>3 DEF TurnsSound
  <2>5. ASSUME NEW u \in Floors, NEW v \in Floors, Replaces(u, v)'
        PROVE  FALSE
    <3>1. Replaces(u, v)
      BY <1>5, <2>5
    <3>2. PICK d \in Branches : turn[d].stage # "idle" /\ turn[d].floor = u
                                /\ turn[d].kind = "regenerate" /\ floor[u].parent = v
      BY <3>1 DEF Replaces
    <3>3. d = Main
      BY <3>1, <3>2 DEF ReplacesSound, TurnsSound
    <3>4. u = x /\ v = y
      BY <2>2, <2>4, <3>2, <3>3
    <3> QED BY <1>9, <2>5, <3>4
  <2>6. CASE ~floor'[x].live
    BY <2>5, <2>6 DEF Standing
  <2>7. CASE ~floor'[y].live
    BY <2>5, <2>7 DEF Standing
  <2> QED BY <2>1, <2>6, <2>7
<1>10. ReplacesSound'
  <2> SUFFICES ASSUME NEW x \in Floors, NEW y \in Floors \cup {NoFloor}, Replaces(x, y)'
               PROVE  /\ y \in Floors /\ y # x
                      /\ floor'[x].branch = Main /\ floor'[y].branch = Main
                      /\ floor'[x].live /\ ~floor'[y].live
                      /\ floor'[y].state = "committed"
                      /\ floor'[x].no = floor'[y].no
    BY DEF ReplacesSound
  <2>1. Replaces(x, y)
    BY <1>5
  <2>2. /\ y \in Floors /\ y # x
        /\ floor[x].branch = Main /\ floor[y].branch = Main
        /\ floor[x].no = floor[y].no
    BY <2>1 DEF ReplacesSound
  <2>3. Exists(x) /\ Exists(y)
    BY <1>8, <2>1, <2>2
  <2>4. floor'[x].live /\ ~floor'[y].live /\ floor'[y].state = "committed"
    BY <2>1, <2>2 DEF TurnsEnd
  <2> QED BY <1>1, <2>2, <2>3, <2>4
<1>11. Chain'
  <2> SUFFICES ASSUME NEW x \in Floors, NEW y \in Floors, Standing(x)', Standing(y)',
                      floor'[x].branch = floor'[y].branch
               PROVE  /\ x \in floor'[y].path \/ y \in floor'[x].path
                      /\ x # y /\ floor'[x].no = floor'[y].no => Replaces(x, y)' \/ Replaces(y, x)'
    BY DEF Chain
  <2>1. Standing(x) /\ Standing(y) /\ Exists(x) /\ Exists(y)
    BY <1>6
  <2>2. floor[x].branch = floor[y].branch
    BY <1>1, <2>1
  <2>3. /\ x \in floor[y].path \/ y \in floor[x].path
        /\ x # y /\ floor[x].no = floor[y].no => Replaces(x, y) \/ Replaces(y, x)
    BY <2>1, <2>2 DEF Chain
  <2>4. /\ Replaces(x, y) => Replaces(x, y)'
        /\ Replaces(y, x) => Replaces(y, x)'
    BY <1>9
  <2> QED BY <1>1, <2>1, <2>3, <2>4
<1>12. Shrinks
  BY <1>6 DEF Shrinks
<1> QED
  BY <1>2, <1>7, <1>10, <1>11, <1>12

\* No branch loses its last floor that is shown.
BranchesLast == \A c \in Branches : OnBranch(c) # {} => OnBranch(c)' # {}

\* One floor changes its state at most, and is not committed unless a turn held it.
OneEnds(f) ==
  /\ \A g \in Floors \ {f} : floor'[g] = floor[g]
  /\ floor' \in [Floors -> FloorRow]
  /\ floor'[f].live = floor[f].live /\ floor'[f].branch = floor[f].branch
  /\ floor'[f].no = floor[f].no /\ floor'[f].parent = floor[f].parent
  /\ floor'[f].path = floor[f].path
  /\ Exists(f) <=> Exists(f)'
  /\ floor'[f].state = "committed" => floor[f].state = "committed" \/ Held(f)
  /\ floor[f].state = "committed" => floor'[f].state = "committed"
  /\ turns' = turns

LEMMA OneEndsFamily ==
  ASSUME StateConstants, StateInv, FamilyInv, NEW f \in Floors, OneEnds(f),
         \A c \in Branches :
           \/ turn'[c].stage = "idle" /\ turn'[c].floor = NoFloor
           \/ /\ turn'[c].stage # "idle" /\ turn[c].stage # "idle"
              /\ turn'[c].floor = turn[c].floor /\ turn'[c].kind = turn[c].kind
  PROVE  RowsStep /\ FamilyInv' /\ Shrinks /\ BranchesLast
<1> USE DEF StateInv, FamilyInv
<1>1. \A g \in Floors : /\ floor'[g].live = floor[g].live /\ floor'[g].branch = floor[g].branch
                        /\ floor'[g].no = floor[g].no /\ floor'[g].parent = floor[g].parent
                        /\ floor'[g].path = floor[g].path
                        /\ Exists(g) <=> Exists(g)'
                        /\ floor'[g].state = "committed" => floor[g].state = "committed" \/ Held(g)
                        /\ floor[g].state = "committed" => floor'[g].state = "committed"
                        /\ ~Exists(g) => ~Exists(g)'
  BY DEF OneEnds, Exists
<1>2. \A g \in Floors : ~Exists(g) => floor'[g] = floor[g]
  <2>1. floor[f] \in FloorRow /\ floor'[f] \in FloorRow
    BY DEF TypeOK, OneEnds
  <2>2. ~Exists(f) => floor'[f] = floor[f]
    BY <1>1, <2>1 DEF FloorRow, Exists
  <2> QED BY <2>2 DEF OneEnds
<1>3. RowsStep
  <2>1. \A g \in Floors : Exists(g) => RowKept(g)
    BY <1>1 DEF RowKept, Exists
  <2> QED BY <1>2, <2>1 DEF RowsStep, OneEnds, TypeOK
<1>4. \A x, y \in Floors : Replaces(x, y) => floor'[x].live /\ ~floor'[y].live
                                            /\ floor'[y].state = "committed"
  BY <1>1 DEF ReplacesSound
<1>5. TurnsEnd
  BY <1>1, <1>2, <1>3, <1>4 DEF TurnsEnd
<1>6. BranchesLast
  BY <1>1 DEF BranchesLast, OnBranch, Exists
<1> QED
  BY <1>3, <1>5, <1>6, TurnsEndFamily

\* The floor alone changes its state.
LEMMA StateChange ==
  ASSUME TypeOK, NEW f \in Floors, Exists(f), turns' = turns,
         NEW end \in {"generating", "committed", "failed"},
         end = "committed" => Held(f), floor[f].state # "committed",
         floor' = [floor EXCEPT ![f].state = end]
  PROVE  OneEnds(f)
<1>1. floor[f] \in FloorRow
  BY DEF TypeOK
<1>2. PICK row : row = [floor[f] EXCEPT !.state = end]
  OBVIOUS
<1>3. /\ row \in FloorRow /\ row.state = end /\ row.live = floor[f].live
      /\ row.branch = floor[f].branch /\ row.no = floor[f].no
      /\ row.parent = floor[f].parent /\ row.path = floor[f].path
  BY <1>1, <1>2 DEF FloorRow
<1>4. floor' = [floor EXCEPT ![f] = row]
  BY <1>2
<1>5. floor'[f] = row /\ floor' \in [Floors -> FloorRow] /\ \A g \in Floors \ {f} : floor'[g] = floor[g]
  BY <1>3, <1>4 DEF TypeOK
<1> QED
  BY <1>3, <1>5 DEF OneEnds, Exists

LEMMA TurnFailsFamily ==
  ASSUME StateConstants, StateInv, FamilyInv, NEW b \in Branches, TurnFails(b)
  PROVE  /\ RowsStep /\ FamilyInv' /\ Shrinks /\ BranchesLast
         /\ \A g \in Floors : Exists(g)' => Exists(g)
<1> USE DEF StateInv, FamilyInv
<1>1. PICK f : f = turn[b].floor
  OBVIOUS
<1>2. /\ turn[b].stage # "idle" /\ turn' = [turn EXCEPT ![b] = NoTurn] /\ turns' = turns
      /\ NoTurn.stage = "idle" /\ NoTurn.floor = NoFloor
  BY DEF TurnFails, NoTurn
<1>3. /\ f \in Floors /\ floor[f].state = "generating" /\ floor[f].branch = b /\ Held(f) /\ Exists(f)
  BY <1>1, <1>2 DEF TurnsSound, Held, Exists
<1>4. /\ turn'[b].stage = "idle" /\ turn'[b].floor = NoFloor
      /\ \A c \in Branches \ {b} : turn'[c] = turn[c]
  BY <1>2 DEF TypeOK
<1>5. \A c \in Branches :
        \/ turn'[c].stage = "idle" /\ turn'[c].floor = NoFloor
        \/ /\ turn'[c].stage # "idle" /\ turn[c].stage # "idle"
           /\ turn'[c].floor = turn[c].floor /\ turn'[c].kind = turn[c].kind
  BY <1>4 DEF TurnsSound
<1>6. PICK end \in {"failed", "generating"} \cup (IF turn[b].kind = "retry" THEN {"committed"} ELSE {}) :
        \/ floor' = [floor EXCEPT ![f].state = end]
        \/ /\ turn[b].kind = "regenerate"
           /\ floor' = [floor EXCEPT ![f].state = end, ![f].live = FALSE,
                                     ![floor[f].parent].live = TRUE]
  BY <1>1 DEF TurnFails
<1>7. CASE floor' = [floor EXCEPT ![f].state = end]
  <2>1. end \in {"generating", "committed", "failed"}
    BY <1>6
  <2>2. OneEnds(f)
    BY <1>2, <1>3, <1>7, <2>1, StateChange
  <2>3. \A g \in Floors : Exists(g)' => Exists(g)
    BY <1>3, <2>2 DEF OneEnds, Exists
  <2> QED BY <1>3, <1>5, <2>2, <2>3, OneEndsFamily
<1>8. CASE /\ turn[b].kind = "regenerate"
           /\ floor' = [floor EXCEPT ![f].state = end, ![f].live = FALSE,
                                     ![floor[f].parent].live = TRUE]
  <2>1. PICK p : p = floor[f].parent
    OBVIOUS
  <2>2. p \in Floors \cup {NoFloor}
    BY <1>3, <2>1 DEF TypeOK, FloorRow
  <2>3. Replaces(f, p)
    BY <1>1, <1>2, <1>8, <2>1 DEF Replaces
  <2>4. /\ p \in Floors /\ p # f /\ floor[f].branch = Main /\ floor[p].branch = Main
        /\ floor[f].live /\ ~floor[p].live /\ floor[p].state = "committed"
    BY <1>3, <2>2, <2>3 DEF ReplacesSound
  <2>5. end \in {"failed", "generating"} /\ floor[f] \in FloorRow /\ floor[p] \in FloorRow
    BY <1>3, <1>6, <1>8, <2>4 DEF TypeOK
  <2>6. PICK row : row = [[floor[f] EXCEPT !.state = end] EXCEPT !.live = FALSE]
    OBVIOUS
  <2>7. /\ row \in FloorRow /\ row.state = end /\ ~row.live /\ row.branch = floor[f].branch
        /\ row.no = floor[f].no /\ row.parent = floor[f].parent /\ row.path = floor[f].path
    BY <2>5, <2>6 DEF FloorRow
  <2>8. PICK back : back = [floor[p] EXCEPT !.live = TRUE]
    OBVIOUS
  <2>9. /\ back \in FloorRow /\ back.state = floor[p].state /\ back.live
        /\ back.branch = floor[p].branch
        /\ back.no = floor[p].no /\ back.parent = floor[p].parent /\ back.path = floor[p].path
    BY <2>5, <2>8 DEF FloorRow
  <2>10. floor' = [floor EXCEPT ![f].state = end, ![f].live = FALSE, ![p].live = TRUE]
    BY <1>8, <2>1
  <2>11. /\ floor'[f] = row /\ floor'[p] = back /\ \A g \in Floors \ {f, p} : floor'[g] = floor[g]
    BY <1>3, <2>4, <2>6, <2>8, <2>10 DEF TypeOK
  <2>12. floor' \in [Floors -> FloorRow]
    <3>1. DOMAIN floor' = Floors /\ floor' = [g \in Floors |-> floor'[g]]
      BY <2>10 DEF TypeOK
    <3>2. \A g \in Floors : floor'[g] \in FloorRow
      BY <2>7, <2>9, <2>11 DEF TypeOK
    <3> QED BY <3>1, <3>2
  <2>13. \A g \in Floors : ~Exists(g) => floor'[g] = floor[g]
    BY <1>3, <2>4, <2>11 DEF Exists
  <2>14. RowsStep
    <3>1. \A g \in Floors : Exists(g) => RowKept(g)
      BY <2>5, <2>7, <2>9, <2>11 DEF RowKept, Exists
    <3> QED BY <1>2, <2>12, <2>13, <3>1 DEF RowsStep, TypeOK
  <2>15. ~Held(f)'
    BY <1>1, <1>3, <1>4 DEF Held, TurnsSound, StateConstants
  <2>16. \A g \in Floors : /\ Exists(g)' => Exists(g)
                           /\ floor'[g].state = "committed" => floor[g].state = "committed"
                           /\ floor[g].live /\ ~floor'[g].live => g = f
                           /\ floor'[g].live /\ ~floor[g].live => g = p
    BY <1>3, <2>4, <2>5, <2>7, <2>9, <2>11 DEF Exists
  <2>17. ASSUME NEW x \in Floors, NEW y \in Floors, Replaces(x, y)
         PROVE  x = f /\ y = p /\ ~Replaces(x, y)'
    <3>1. PICK c \in Branches : /\ turn[c].stage # "idle" /\ turn[c].floor = x /\ floor[x].parent = y
      BY <2>17 DEF Replaces
    <3>2. c = Main /\ Main = b
      BY <1>3, <2>4, <2>17, <3>1 DEF ReplacesSound, TurnsSound
    <3>3. x = f /\ y = p
      BY <1>1, <2>1, <3>1, <3>2
    <3>4. ~Replaces(f, p)'
      BY <2>15 DEF Replaces, Held
    <3> QED BY <3>3, <3>4
  <2>18. TurnsEnd
    <3>1. ~floor'[f].live /\ floor'[f].state # "committed"
      BY <2>5, <2>7, <2>11
    <3>2. \A g \in Floors :
            /\ Exists(g)' => Exists(g)
            /\ floor'[g].state = "committed" => floor[g].state = "committed" \/ Held(g)
            /\ floor[g].live /\ ~floor'[g].live => floor'[g].state # "committed" /\ ~Held(g)'
            /\ floor'[g].live /\ ~floor[g].live => \E x \in Floors : Replaces(x, g)
      BY <1>3, <2>3, <2>15, <2>16, <3>1
    <3>3. \A x, y \in Floors : Replaces(x, y) => ~Replaces(x, y)' /\ ~floor'[x].live
      BY <2>17, <3>1
    <3> QED BY <1>5, <2>13, <2>14, <3>2, <3>3 DEF TurnsEnd
  <2>19. BranchesLast
    <3> SUFFICES ASSUME NEW c \in Branches, NEW g \in OnBranch(c)
                 PROVE  OnBranch(c)' # {}
      BY DEF BranchesLast
    <3>1. g \in Floors /\ Exists(g) /\ floor[g].branch = c /\ floor[g].live
      BY DEF OnBranch, Exists
    <3>2. CASE g = f
      BY <2>4, <2>9, <2>11, <3>1, <3>2 DEF OnBranch, Exists
    <3>3. CASE g # f
      BY <2>4, <2>11, <3>1, <3>3 DEF OnBranch, Exists
    <3> QED BY <3>2, <3>3
  <2> QED BY <2>14, <2>16, <2>18, <2>19, TurnsEndFamily
<1> QED
  BY <1>6, <1>7, <1>8

LEMMA CommitFamily ==
  ASSUME StateConstants, StateInv, FamilyInv, NEW b \in Branches, Commit(b)
  PROVE  RowsStep /\ FamilyInv' /\ Shrinks /\ BranchesLast
<1> USE DEF StateInv
<1>1. PICK f : f = turn[b].floor
  OBVIOUS
<1>2. /\ f \in Floors /\ floor[f].state = "generating" /\ turn[b].stage = "staged"
      /\ floor' = [floor EXCEPT ![f].state = "committed"]
      /\ turn' = [turn EXCEPT ![b] = NoTurn] /\ turns' = turns
  BY <1>1, CommitFacts
<1>3. \A c \in Branches :
        \/ turn'[c].stage = "idle" /\ turn'[c].floor = NoFloor
        \/ /\ turn'[c].stage # "idle" /\ turn[c].stage # "idle"
           /\ turn'[c].floor = turn[c].floor /\ turn'[c].kind = turn[c].kind
  BY <1>2 DEF TypeOK, TurnsSound, NoTurn
<1>4. OneEnds(f)
  BY <1>1, <1>2, StateChange DEF Held, Exists
<1> QED
  BY <1>2, <1>3, <1>4, OneEndsFamily

LEMMA ReapFamily ==
  ASSUME StateConstants, StateInv, FamilyInv, NEW f \in Floors, Reap(f)
  PROVE  RowsStep /\ FamilyInv' /\ Shrinks /\ BranchesLast
<1> USE DEF StateInv
<1>1. /\ floor[f].state = "generating" /\ floor' = [floor EXCEPT ![f].state = "failed"]
      /\ turn' = turn /\ turns' = turns
  BY DEF Reap
<1>2. OneEnds(f)
  BY <1>1, StateChange DEF Exists
<1>3. \A c \in Branches : turn[c].stage = "idle" => turn[c].floor = NoFloor
  BY DEF TurnsSound
<1> QED
  BY <1>1, <1>2, <1>3, OneEndsFamily

\* Steps that leave the floors alone, and end turns at most.
LEMMA FloorsStayFamily ==
  ASSUME StateConstants, StateInv, FamilyInv, UNCHANGED <<floor, turns>>,
         \A c \in Branches :
           \/ turn'[c].stage = "idle" /\ turn'[c].floor = NoFloor
           \/ /\ turn'[c].stage # "idle" /\ turn[c].stage # "idle"
              /\ turn'[c].floor = turn[c].floor /\ turn'[c].kind = turn[c].kind
  PROVE  RowsStep /\ FamilyInv' /\ Shrinks /\ BranchesLast
<1> USE DEF StateInv
<1>1. CASE Floors = {}
  BY <1>1, RowsUnchanged
  DEF FamilyInv, PathsSound, HiddenSound, ReplacesSound, Chain, Shrinks, BranchesLast, OnBranch
<1>2. ASSUME NEW f \in Floors
      PROVE  RowsStep /\ FamilyInv' /\ Shrinks /\ BranchesLast
  <2>1. OneEnds(f)
    BY DEF OneEnds, TypeOK, Exists
  <2> QED BY <2>1, OneEndsFamily
<1> QED
  BY <1>1, <1>2

-----------------------------------------------------------------------------
(* What a commit records.                                                  *)

\* What the snapshot of f takes over for a slot that its turn did not write.
Inherited(f, b, s) ==
  Materialized(liveHead[b][s],
               IF floor[f].parent = NoFloor THEN NoValue ELSE snapshot[floor[f].parent][s], 0)

\* Slot s at the commit of f: unknown so far, written by the turn, or taken over.
Records(f, b, s) ==
  \/ snapshot'[f][s] = snapshot[f][s] /\ liveHead'[b][s] = liveHead[b][s]
  \/ \E w \in Batches :
       /\ batch'[w].floor = f /\ batch'[w].branch = b
       /\ snapshot'[f][s] = [taken |-> TRUE, at |-> now', batch |-> w]
       /\ liveHead'[b][s] = [taken |-> TRUE, batch |-> w, at |-> now']
  \/ /\ snapshot'[f][s] = [taken |-> TRUE, at |-> now', batch |-> Inherited(f, b, s)]
     /\ liveHead'[b][s] = liveHead[b][s]

LEMMA CommitRecords ==
  ASSUME StateConstants, StateInv, NEW b \in Branches, NEW f, f = turn[b].floor, Commit(b)
  PROVE  /\ f \in Floors /\ floor[f].branch = b /\ floor[f].state = "generating"
         /\ now \in Nat /\ now' \in Nat /\ now <= now'
         /\ \A g \in Floors \ {f} : snapshot'[g] = snapshot[g]
         /\ \A c \in Branches \ {b} : liveHead'[c] = liveHead[c]
         /\ \A s \in Slots : Records(f, b, s)
         /\ \A w \in Batches :
              \/ batch'[w].floor = batch[w].floor /\ batch'[w].branch = batch[w].branch
              \/ w > used /\ batch'[w].floor = f /\ batch'[w].branch = b
         /\ rewritten \subseteq rewritten' /\ (GrownOn(f) => f \in rewritten')
         /\ early' = early
<1> USE DEF StateInv
<1>1. f \in Floors /\ floor[f].branch = b /\ floor[f].state = "generating" /\ early' = early
  BY CommitFacts
<1>2. PICK ws \in SUBSET Batches, bs \in [Batches -> Batch], t \in Nat : Applies(b, f, ws, bs, t)
  BY CommitFacts
<1>3. now \in Nat /\ now' \in Nat /\ now <= now' /\ now' = t
  <2>1. now' \in Time
    BY DEF Commit
  <2>2. \A d \in Ticks : d \in Nat
    BY DEF StateConstants
  <2>3. now \in Nat
    BY DEF TypeOK
  <2> QED BY <1>2, <2>1, <2>2, <2>3 DEF Time, Applies
<1>4. PICK cs : cs = Applied(ws, bs)
  OBVIOUS
<1>5. /\ cs = batch'
      /\ \A w \in Batches \ ws : cs[w] = bs[w]
      /\ \A w \in Batches : cs[w].branch = bs[w].branch /\ cs[w].floor = bs[w].floor
                            /\ cs[w].slots = bs[w].slots
      /\ \A w \in ws : cs[w].status = "applied"
  <2>1. batch' = Applied(ws, bs)
    BY <1>2 DEF Applies
  <2>2. /\ \A w \in Batches \ ws : batch'[w] = bs[w]
        /\ \A w \in Batches : batch'[w].branch = bs[w].branch /\ batch'[w].floor = bs[w].floor
                              /\ batch'[w].slots = bs[w].slots
        /\ \A w \in ws : batch'[w].status = "applied"
    BY <2>1, AppliedFacts
  <2> QED BY <1>4, <2>1, <2>2
<1>6. liveHead' = Heads(b, ws, bs, t) /\ snapshot' = Snapshots(f, b, ws, cs, t)
  BY <1>2, <1>4 DEF Applies
<1>7. \A c \in Branches \ {b} : liveHead'[c] = liveHead[c]
  BY <1>6 DEF Heads, TypeOK
<1>8. \A g \in Floors \ {f} : snapshot'[g] = snapshot[g]
  BY <1>1, <1>6 DEF Snapshots, TypeOK
<1>9. \A w \in Batches :
        \/ batch'[w].floor = batch[w].floor /\ batch'[w].branch = batch[w].branch
        \/ w > used /\ batch'[w].floor = f /\ batch'[w].branch = b
  <2>1. TAKE w \in Batches
  <2>2. w \in Nat /\ used \in Nat
    BY DEF Batches, TypeOK
  <2>3. CASE w \notin ws
    BY <1>2, <1>5, <2>3 DEF Applies
  <2>4. CASE w \in ws
    <3>1. cs[w].branch = b /\ cs[w].floor = f
      BY <1>2, <1>5, <2>4 DEF Applies
    <3>2. w <= used => bs[w] = batch[w]
      BY <1>2 DEF Applies
    <3> QED BY <1>5, <2>2, <3>1, <3>2
  <2> QED BY <2>3, <2>4
<1>10. ASSUME NEW s \in Slots
       PROVE  Records(f, b, s)
  <2>1. PICK last : last = LastOn(ws, bs, s)
    OBVIOUS
  <2>2. \/ last = 0
        \/ last \in ws /\ last \in Batches /\ s \in bs[last].slots
    BY <2>1, LastOnIsLast
  <2>3. LastOn(ws, cs, s) = last
    <3>1. \A w \in ws : bs[w].slots = cs[w].slots
      BY <1>5
    <3> QED BY <2>1, <3>1, LastOnSlots
  <2>4. PICK parent : parent = IF floor[f].parent = NoFloor THEN NoValue
                               ELSE snapshot[floor[f].parent][s]
    OBVIOUS
  <2>5. PICK head : head = Heads(b, ws, cs, t)[b][s]
    OBVIOUS
  <2>6. /\ last = 0 => head = liveHead[b][s]
        /\ liveHead'[b][s] = IF last = 0 THEN liveHead[b][s]
                             ELSE [taken |-> TRUE, batch |-> last, at |-> t]
    BY <1>6, <2>1, <2>3, <2>5 DEF Heads, TypeOK
  <2>7. snapshot'[f][s] = IF s \in Known(cs)
                            THEN [taken |-> TRUE, at |-> t, batch |-> Materialized(head, parent, last)]
                            ELSE snapshot[f][s]
    BY <1>1, <1>6, <2>3, <2>4, <2>5 DEF Snapshots, TypeOK
  <2>8. CASE last # 0
    <3>1. last \in Batches /\ cs[last].status = "applied" /\ s \in cs[last].slots
      BY <1>5, <2>2, <2>8
    <3>2. s \in Known(cs)
      BY <3>1 DEF Known
    <3>3. Materialized(head, parent, last) = last
      BY <2>8 DEF Materialized
    <3>4. batch'[last].floor = f /\ batch'[last].branch = b
      BY <1>2, <1>5, <2>2, <2>8 DEF Applies
    <3> QED BY <1>3, <2>6, <2>7, <2>8, <3>1, <3>2, <3>3, <3>4 DEF Records
  <2>9. CASE last = 0
    <3>1. Materialized(head, parent, last) = Inherited(f, b, s)
      BY <2>4, <2>6, <2>9 DEF Inherited
    <3> QED BY <1>3, <2>6, <2>7, <2>9, <3>1 DEF Records
  <2> QED BY <2>8, <2>9
<1>11. rewritten \subseteq rewritten' /\ (GrownOn(f) => f \in rewritten')
  <2>1. rewritten' = IF \E g \in Floors : floor[g].state # "none" /\ floor[g].parent = f
                       THEN rewritten \cup {f} ELSE rewritten
    BY DEF Commit
  <2> QED BY <2>1 DEF GrownOn, Exists
<1> QED
  BY <1>1, <1>3, <1>7, <1>8, <1>9, <1>10, <1>11

-----------------------------------------------------------------------------
(* Snapshots keep what was.                                                *)

\* A batch of a turn belongs to the branch of its floor.
WritersSound ==
  \A w \in Batches : batch[w].floor # NoFloor =>
    Exists(batch[w].floor) /\ batch[w].branch = floor[batch[w].floor].branch

\* A floor that is not there yet has no snapshot.
Unwritten == \A f \in Floors, s \in Slots : ~Exists(f) => snapshot[f][s] = NoValue

\* FromPast(f, w), and for good: a floor that stands no more never will.
IsPast(f, w) ==
  LET g == batch[w].floor
  IN  g = NoFloor \/ g \in floor[f].path \/ (Exists(g) /\ ~Standing(g))

PastAt(f, s) ==
  LET w == snapshot[f][s].batch
      p == floor[f].parent
  IN  w # 0 => \/ batch[w].branch = floor[f].branch /\ IsPast(f, w)
               \/ p # NoFloor /\ w = snapshot[p][s].batch

PastKept == \A f \in Floors, s \in Slots : Unrewritten(f) => PastAt(f, s)

HistoryInv == FamilyInv /\ WritersSound /\ Unwritten /\ PastKept

\* Batches that are new belong to no floor, or to one of their branch.
LEMMA WritersStay ==
  ASSUME StateConstants, StateInv, WritersSound, RowsStep,
         \A w \in Batches :
           \/ batch'[w].floor = batch[w].floor /\ batch'[w].branch = batch[w].branch
           \/ batch'[w].floor = NoFloor
           \/ /\ batch'[w].floor \in Floors /\ Exists(batch'[w].floor)
              /\ batch'[w].branch = floor[batch'[w].floor].branch
  PROVE  WritersSound'
<1> SUFFICES ASSUME NEW w \in Batches, batch'[w].floor # NoFloor
             PROVE  Exists(batch[w].floor)' /\ batch'[w].branch = floor'[batch'[w].floor].branch
  BY DEF WritersSound
<1>1. batch[w].floor \in Floors \cup {NoFloor}
  BY DEF StateInv, TypeOK, Batch
<1>2. PICK g : g = batch'[w].floor
  OBVIOUS
<1>3. g \in Floors /\ Exists(g) /\ batch'[w].branch = floor[g].branch
  BY <1>1, <1>2 DEF WritersSound
<1>4. Exists(g)' /\ floor'[g].branch = floor[g].branch
  BY <1>3 DEF RowsStep, RowKept, Exists
<1> QED
  BY <1>2, <1>3, <1>4 DEF Exists

\* The snapshot of a floor, seen after a step that leaves it and the one of its
\* parent alone.
LEMMA PastStaysAt ==
  ASSUME StateConstants, StateInv, HistoryInv, RowsStep, Shrinks,
         NEW f \in Floors, NEW s \in Slots, snapshot'[f] = snapshot[f],
         Exists(f) /\ floor[f].parent # NoFloor =>
           snapshot'[floor[f].parent] = snapshot[floor[f].parent],
         rewritten \subseteq rewritten', early \subseteq early', Unrewritten(f)',
         \A w \in Batches : w <= used =>
           batch'[w].floor = batch[w].floor /\ batch'[w].branch = batch[w].branch
  PROVE  PastAt(f, s)'
<1> USE DEF StateInv, HistoryInv
<1>1. PICK w : w = snapshot[f][s].batch
  OBVIOUS
<1>2. w \in 0 .. MaxBatches /\ w <= used /\ MaxBatches \in Nat
  BY <1>1 DEF TypeOK, Value, ValuesSound, StateConstants
<1>3. CASE w = 0
  BY <1>1, <1>3 DEF PastAt
<1>4. CASE w # 0
  <2>1. w \in Batches /\ Exists(f)
    BY <1>1, <1>2, <1>4 DEF Batches, Unwritten, NoValue
  <2>2. /\ floor'[f].branch = floor[f].branch /\ floor'[f].path = floor[f].path
        /\ floor'[f].parent = floor[f].parent
    BY <2>1 DEF RowsStep, RowKept
  <2>3. Unrewritten(f)
    BY <2>2 DEF Unrewritten
  <2>4. \/ batch[w].branch = floor[f].branch /\ IsPast(f, w)
        \/ floor[f].parent # NoFloor /\ w = snapshot[floor[f].parent][s].batch
    BY <1>1, <1>4, <2>3 DEF PastKept, PastAt
  <2>5. PICK g : g = batch[w].floor
    OBVIOUS
  <2>6. batch'[w].floor = g /\ batch'[w].branch = batch[w].branch
    BY <1>2, <2>1, <2>5
  <2>7. CASE batch[w].branch = floor[f].branch /\ IsPast(f, w)
    <3>1. g = NoFloor \/ g \in floor[f].path \/ (Exists(g) /\ ~Standing(g))
      BY <2>5, <2>7 DEF IsPast
    <3>2. g \in Floors \cup {NoFloor}
      BY <2>1, <2>5 DEF TypeOK, Batch
    <3>3. g \in Floors /\ Exists(g) /\ ~Standing(g) => Exists(g)' /\ ~Standing(g)'
      BY DEF Shrinks, RowsStep, RowKept, Exists
    <3>4. IsPast(f, w)'
      BY <2>2, <2>6, <3>1, <3>2, <3>3 DEF IsPast
    <3> QED BY <1>1, <2>2, <2>6, <2>7, <3>4 DEF PastAt
  <2>8. CASE floor[f].parent # NoFloor /\ w = snapshot[floor[f].parent][s].batch
    BY <1>1, <2>1, <2>2, <2>8 DEF PastAt
  <2> QED BY <2>4, <2>7, <2>8
<1> QED
  BY <1>3, <1>4

\* A step that leaves snapshots alone.
LEMMA HistoryStays ==
  ASSUME StateConstants, StateInv, HistoryInv, FamilyInv', RowsStep, Shrinks,
         snapshot' = snapshot, rewritten \subseteq rewritten', early \subseteq early',
         \A w \in Batches :
           \/ batch'[w].floor = batch[w].floor /\ batch'[w].branch = batch[w].branch
           \/ w > used /\ batch'[w].floor = NoFloor
           \/ /\ w > used /\ batch'[w].floor \in Floors /\ Exists(batch'[w].floor)
              /\ batch'[w].branch = floor[batch'[w].floor].branch
  PROVE  HistoryInv'
<1>1. WritersSound'
  BY WritersStay DEF HistoryInv
<1>2. Unwritten'
  BY DEF HistoryInv, Unwritten, RowsStep, RowKept, Exists
<1>3. \A w \in Batches : w \in Nat
  BY DEF Batches
<1>4. used \in Nat
  BY DEF StateInv, TypeOK
<1>5. \A w \in Batches : w <= used =>
        batch'[w].floor = batch[w].floor /\ batch'[w].branch = batch[w].branch
  BY <1>3, <1>4
<1>6. PastKept'
  BY <1>5, PastStaysAt DEF PastKept
<1> QED
  BY <1>1, <1>2, <1>6 DEF HistoryInv

\* QuietBranch in the state after a step.
LEMMA QuietAfter ==
  ASSUME StateConstants, StateInv', ReplacesSound', NEW b \in Branches, turn'[b].stage = "idle",
         NEW g \in Floors, floor'[g].branch = b
  PROVE  Standing(g)' <=> Shown(g)'
<1>1. NoFloor \notin Floors
  BY DEF StateConstants
<1>2. \A h \in Floors : floor'[h].branch = b => ~Held(h)'
  BY <1>1 DEF Held, StateInv, TurnsSound
<1>3. ASSUME NEW x \in Floors, Replaces(x, g)'
      PROVE  FALSE
  <2>1. floor'[x].branch = b
    BY <1>3 DEF ReplacesSound
  <2>2. Held(x)'
    BY <1>3 DEF Held, Replaces
  <2> QED BY <1>2, <2>1, <2>2
<1> QED
  BY <1>2, <1>3 DEF Standing, Shown

LEMMA CommitHistory ==
  ASSUME StateConstants, StateInv, HistoryInv, NEW b \in Branches, Commit(b)
  PROVE  HistoryInv'
<1> USE DEF StateInv, HistoryInv
<1>1. PICK f : f = turn[b].floor
  OBVIOUS
<1>2. RowsStep /\ FamilyInv' /\ Shrinks /\ StateInv'
  BY CommitFamily, CommitKeeps
<1>3. /\ f \in Floors /\ floor[f].branch = b /\ floor[f].state = "generating"
      /\ \A g \in Floors \ {f} : snapshot'[g] = snapshot[g]
      /\ \A s \in Slots : Records(f, b, s)
      /\ \A w \in Batches :
           \/ batch'[w].floor = batch[w].floor /\ batch'[w].branch = batch[w].branch
           \/ w > used /\ batch'[w].floor = f /\ batch'[w].branch = b
      /\ rewritten \subseteq rewritten' /\ (GrownOn(f) => f \in rewritten')
      /\ early' = early
  BY <1>1, CommitRecords
<1>4. /\ turn[b].stage # "idle" /\ turn'[b].stage = "idle" /\ Exists(f)
      /\ floor' = [floor EXCEPT ![f].state = "committed"] /\ NoFloor \notin Floors
  BY <1>1, <1>3 DEF Commit, TypeOK, NoTurn, Exists, StateConstants
<1>5. WritersSound'
  BY <1>2, <1>3, <1>4, WritersStay
<1>6. \A g \in Floors : Exists(g) => /\ floor'[g].branch = floor[g].branch
                                     /\ floor'[g].path = floor[g].path
                                     /\ floor'[g].parent = floor[g].parent /\ Exists(g)'
  BY <1>2 DEF RowsStep, RowKept, Exists
<1>7. Unwritten'
  BY <1>3, <1>4, <1>6 DEF Unwritten
<1>8. \A w \in Batches : w \in Nat
  BY DEF Batches
<1>9. used \in Nat
  BY DEF TypeOK
<1>10. \A w \in Batches : w <= used =>
        batch'[w].floor = batch[w].floor /\ batch'[w].branch = batch[w].branch
  BY <1>3, <1>8, <1>9
<1>11. \A g \in floor[f].path : g \in Floors
  BY <1>3 DEF TypeOK, FloorRow
<1>12. ASSUME NEW g \in Floors \ {f}, NEW s \in Slots, Unrewritten(g)'
       PROVE  PastAt(g, s)'
  <2>1. ASSUME Exists(g), floor[g].parent # NoFloor
        PROVE  snapshot'[floor[g].parent] = snapshot[floor[g].parent]
    <3>1. PICK p : p = floor[g].parent
      OBVIOUS
    <3>2. p \in Floors /\ p \in floor[g].path
      <4>1. p \in Floors
        BY <2>1, <3>1 DEF TypeOK, FloorRow
      <4> QED BY <2>1, <3>1, <4>1 DEF RowsSound
    <3>3. p \notin rewritten'
      BY <1>6, <2>1, <3>2, <1>12 DEF Unrewritten
    <3>4. p # f
      BY <1>3, <2>1, <3>1, <3>3 DEF GrownOn
    <3> QED BY <1>3, <3>1, <3>2, <3>4
  <2> QED BY <1>2, <1>3, <1>10, <1>12, <2>1, PastStaysAt
<1>13. ASSUME NEW s \in Slots, Unrewritten(f)'
       PROVE  PastAt(f, s)'
  <2>1. f \in floor[f].path /\ f \notin rewritten' /\ ~GrownOn(f)
    BY <1>3, <1>4, <1>6, <1>13 DEF RowsSound, Unrewritten
  <2>2. PICK w : w = snapshot'[f][s].batch
    OBVIOUS
  <2>3. CASE snapshot'[f][s] = snapshot[f][s]
    <3>1. PICK before : before = snapshot[f][s].batch
      OBVIOUS
    <3>2. before \in 0 .. MaxBatches /\ before <= used
      BY <1>3, <3>1 DEF TypeOK, Value, ValuesSound
    <3>3. CASE before = 0
      BY <2>3, <3>1, <3>3 DEF PastAt
    <3>4. CASE before # 0
      <4>1. before \in Batches
        BY <3>2, <3>4 DEF Batches, StateConstants
      <4>2. Unrewritten(f)
        BY <1>3, <1>4, <1>6, <1>13 DEF Unrewritten
      <4>3. \/ batch[before].branch = floor[f].branch /\ IsPast(f, before)
            \/ floor[f].parent # NoFloor /\ before = snapshot[floor[f].parent][s].batch
        BY <1>3, <3>1, <3>4, <4>2 DEF PastKept, PastAt
      <4>4. PICK p : p = floor[f].parent
        OBVIOUS
      <4>5. p # NoFloor => p \in Floors /\ p # f
        <5>1. p = f => GrownOn(f)
          BY <1>3, <1>4, <4>4 DEF GrownOn
        <5> QED BY <1>3, <2>1, <4>4, <5>1 DEF TypeOK, FloorRow
      <4>6. CASE p # NoFloor /\ before = snapshot[p][s].batch
        BY <1>3, <1>4, <1>6, <2>3, <3>1, <4>4, <4>5, <4>6 DEF PastAt
      <4>7. CASE batch[before].branch = floor[f].branch /\ IsPast(f, before)
        <5>1. PICK g : g = batch[before].floor
          OBVIOUS
        <5>2. g = NoFloor \/ g \in floor[f].path \/ (g \in Floors /\ Exists(g) /\ ~Standing(g))
          BY <4>1, <4>7, <5>1 DEF IsPast, TypeOK, Batch
        <5>3. g = NoFloor \/ g \in floor'[f].path \/ (Exists(g)' /\ ~Standing(g)')
          BY <1>2, <1>3, <1>4, <1>6, <5>2 DEF Shrinks
        <5>4. batch'[before].floor = g /\ batch'[before].branch = floor'[f].branch
          BY <1>3, <1>4, <1>6, <1>10, <3>2, <4>1, <4>7, <5>1
        <5> QED BY <2>3, <3>1, <5>3, <5>4 DEF PastAt, IsPast
      <4> QED BY <4>3, <4>4, <4>6, <4>7
    <3> QED BY <3>3, <3>4
  <2>4. CASE /\ w \in Batches /\ batch'[w].floor = f /\ batch'[w].branch = b
    BY <1>3, <1>4, <1>6, <2>1, <2>2, <2>4 DEF PastAt, IsPast
  <2>5. CASE w = Inherited(f, b, s)
    <3>1. PICK p : p = floor[f].parent
      OBVIOUS
    <3>2. \/ w = 0
          \/ w = liveHead[b][s].batch
          \/ p # NoFloor /\ w = snapshot[p][s].batch
      BY <2>5, <3>1 DEF Inherited, Materialized, NoValue
    <3>3. p # NoFloor => p \in Floors /\ p # f
      <4>1. p = f => GrownOn(f)
        BY <1>3, <1>4, <3>1 DEF GrownOn
      <4> QED BY <1>3, <2>1, <3>1, <4>1 DEF TypeOK, FloorRow
    <3>4. CASE w = 0
      BY <2>2, <3>4 DEF PastAt
    <3>5. CASE p # NoFloor /\ w = snapshot[p][s].batch
      BY <1>3, <1>4, <1>6, <2>2, <3>1, <3>3, <3>5 DEF PastAt
    <3>6. CASE w # 0 /\ w = liveHead[b][s].batch
      <4>1. w \in Batches /\ w <= used /\ batch[w].branch = b
        <5>1. w \in 0 .. MaxBatches /\ w <= used /\ batch[w].branch = b
          BY <3>6 DEF TypeOK, Value, ValuesSound, BranchesStayApart
        <5> QED BY <3>6, <5>1 DEF Batches, StateConstants
      <4>2. PICK g : g = batch[w].floor
        OBVIOUS
      <4>3. batch'[w].floor = g /\ batch'[w].branch = b
        BY <1>10, <4>1, <4>2
      <4>4. g # NoFloor => g \in Floors /\ Exists(g) /\ floor[g].branch = b
        BY <4>1, <4>2 DEF WritersSound, TypeOK, Batch
      <4>5. ASSUME g # NoFloor, Standing(g)'
            PROVE  g \in floor[f].path
        <5>1. g \in Floors /\ Exists(g) /\ floor'[g].branch = b /\ floor'[f].branch = b
          BY <1>3, <1>4, <1>6, <4>4, <4>5
        <5>2. /\ Shown(g)'
              /\ Standing(f)' <=> Shown(f)'
          BY <1>2, <1>3, <1>4, <4>5, <5>1, QuietAfter DEF FamilyInv
        <5>3. CASE Shown(f)'
          <6>1. f \in floor'[g].path \/ g \in floor'[f].path
            BY <1>2, <1>3, <4>5, <5>1, <5>2, <5>3 DEF FamilyInv, Chain
          <6>2. CASE f \in floor[g].path
            <7>1. f = g \/ GrownOn(f)
              BY <5>1, <6>2 DEF FamilyInv, PathsSound
            <7> QED BY <2>1, <7>1
          <6> QED BY <1>3, <1>4, <1>6, <5>1, <6>1, <6>2
        <5>4. CASE ~Shown(f)'
          <6>1. floor[f].live = floor'[f].live /\ floor'[f].state = "committed"
            BY <1>3, <1>4 DEF TypeOK, FloorRow
          <6>2. ~floor[f].live /\ Held(f)
            BY <1>1, <5>4, <6>1 DEF Shown, Held
          <6> QED BY <1>3, <2>1, <6>2 DEF FamilyInv, HiddenSound
        <5> QED BY <5>3, <5>4
      <4>6. IsPast(f, w)'
        <5>1. g # NoFloor => Exists(g)'
          BY <1>6, <4>4
        <5> QED BY <1>3, <1>4, <1>6, <4>3, <4>5, <5>1 DEF IsPast
      <4> QED BY <1>3, <1>4, <1>6, <2>2, <4>3, <4>6 DEF PastAt
    <3> QED BY <3>2, <3>4, <3>5, <3>6
  <2>6. \/ snapshot'[f][s] = snapshot[f][s]
        \/ w \in Batches /\ batch'[w].floor = f /\ batch'[w].branch = b
        \/ w = Inherited(f, b, s)
    <3>1. Records(f, b, s)
      BY <1>3
    <3>2. ASSUME NEW x \in Batches, batch'[x].floor = f, batch'[x].branch = b,
                 snapshot'[f][s] = [taken |-> TRUE, at |-> now', batch |-> x]
          PROVE  w \in Batches /\ batch'[w].floor = f /\ batch'[w].branch = b
      BY <2>2, <3>2
    <3>3. snapshot'[f][s] = [taken |-> TRUE, at |-> now', batch |-> Inherited(f, b, s)]
            => w = Inherited(f, b, s)
      BY <2>2
    <3> QED BY <3>1, <3>2, <3>3 DEF Records
  <2> QED BY <2>3, <2>4, <2>5, <2>6
<1>14. PastKept'
  BY <1>12, <1>13 DEF PastKept
<1> QED
  BY <1>2, <1>5, <1>7, <1>14

\* Steps that stage, discard or write directly.
LEMMA StageRows ==
  ASSUME StateConstants, StateInv, NEW b \in Branches, Stage(b)
  PROVE  /\ \A c \in Branches :
              \/ turn'[c].stage = "idle" /\ turn'[c].floor = NoFloor
              \/ /\ turn'[c].stage # "idle" /\ turn[c].stage # "idle"
                 /\ turn'[c].floor = turn[c].floor /\ turn'[c].kind = turn[c].kind
         /\ \A w \in Batches :
              \/ batch'[w].floor = batch[w].floor /\ batch'[w].branch = batch[w].branch
              \/ /\ w > used /\ batch'[w].floor \in Floors /\ Exists(batch'[w].floor)
                 /\ batch'[w].branch = floor[batch'[w].floor].branch
         /\ UNCHANGED <<floor, turns, liveHead, snapshot, now, rewritten, early>>
<1> USE DEF StateInv
<1>1. /\ turn[b].stage = "running" /\ turn' = [turn EXCEPT ![b].stage = "staged"]
      /\ UNCHANGED <<floor, turns, liveHead, snapshot, now, rewritten, early>>
  BY DEF Stage
<1>2. \A c \in Branches : turn[c] \in Turn /\ (turn[c].stage = "idle" => turn[c].floor = NoFloor)
  BY DEF TypeOK, TurnsSound
<1>3. /\ turn'[b].stage = "staged" /\ turn'[b].floor = turn[b].floor
      /\ turn'[b].kind = turn[b].kind /\ \A c \in Branches \ {b} : turn'[c] = turn[c]
  BY <1>1, <1>2 DEF TypeOK, Turn
<1>4. PICK f : f = turn[b].floor
  OBVIOUS
<1>5. f \in Floors /\ Exists(f) /\ floor[f].branch = b /\ used \in Nat
  BY <1>1, <1>4 DEF TurnsSound, Exists, TypeOK
<1>6. ASSUME NEW w \in Batches
      PROVE  \/ batch'[w].floor = batch[w].floor /\ batch'[w].branch = batch[w].branch
             \/ w > used /\ batch'[w].floor = f /\ batch'[w].branch = b
  <2>1. CASE UNCHANGED <<batch, used>>
    BY <2>1
  <2>2. ASSUME NEW slots, batch' = [batch EXCEPT ![used + 1] =
               [status |-> "staged", slots |-> slots, branch |-> b, floor |-> f]]
        PROVE  \/ batch'[w] = batch[w]
               \/ w > used /\ batch'[w].floor = f /\ batch'[w].branch = b
    <3>1. CASE w = used + 1
      BY <1>5, <2>2, <3>1 DEF TypeOK
    <3>2. CASE w # used + 1
      BY <2>2, <3>2 DEF TypeOK
    <3> QED BY <3>1, <3>2
  <2> QED BY <1>4, <2>1, <2>2 DEF Stage
<1> QED
  BY <1>1, <1>2, <1>3, <1>5, <1>6

LEMMA TurnFailsRows ==
  ASSUME StateConstants, StateInv, NEW b \in Branches, TurnFails(b)
  PROVE  /\ \A w \in Batches : /\ batch'[w].floor = batch[w].floor
                               /\ batch'[w].branch = batch[w].branch
         /\ UNCHANGED <<liveHead, snapshot, now, rewritten, early>>
<1>1. UNCHANGED <<liveHead, snapshot, now, rewritten, early>>
  BY DEF TurnFails
<1>2. batch' = batch \/ batch' = Discarded(StagedFor(turn[b].floor))
  BY DEF TurnFails
<1>3. \A w \in Batches : batch[w] \in Batch
  BY DEF StateInv, TypeOK
<1>4. ASSUME NEW w \in Batches
      PROVE  batch'[w].floor = batch[w].floor /\ batch'[w].branch = batch[w].branch
  <2>1. PICK gone : gone = [batch[w] EXCEPT !.status = "discarded"]
    OBVIOUS
  <2>2. gone.floor = batch[w].floor /\ gone.branch = batch[w].branch
    BY <1>3, <2>1 DEF Batch
  <2>3. batch'[w] = batch[w] \/ batch'[w] = gone
    BY <1>2, <2>1 DEF Discarded
  <2> QED BY <2>2, <2>3
<1> QED
  BY <1>1, <1>4

LEMMA DirectWriteRows ==
  ASSUME StateConstants, StateInv, NEW b \in Branches, NEW s \in Slots, DirectWrite(b, s)
  PROVE  /\ \A w \in Batches :
              \/ batch'[w].floor = batch[w].floor /\ batch'[w].branch = batch[w].branch
              \/ w > used /\ batch'[w].floor = NoFloor
         /\ now \in Nat /\ now' \in Nat /\ now <= now'
         /\ \A c \in Branches, r \in Slots :
              \/ liveHead'[c][r] = liveHead[c][r]
              \/ c = b /\ liveHead'[c][r].at = now'
         /\ early \subseteq early' /\ (LatestCommitted(b) = NoFloor => b \in early')
         /\ UNCHANGED <<floor, turn, turns, snapshot, rewritten>>
<1> USE DEF StateInv
<1>1. PICK w : w = used + 1
  OBVIOUS
<1>2. PICK bs : bs = [batch EXCEPT ![w] = [status |-> "staged", slots |-> {s}, branch |-> b,
                                           floor |-> NoFloor]]
  OBVIOUS
<1>3. /\ batch' = Applied({w}, bs) /\ used < MaxBatches
      /\ \E t \in Time : liveHead' = Heads(b, {w}, bs, t) /\ now' = t
      /\ early' = IF LatestCommitted(b) = NoFloor THEN early \cup {b} ELSE early
      /\ UNCHANGED <<floor, turn, turns, snapshot, rewritten>>
  BY <1>1, <1>2 DEF DirectWrite
<1>4. PICK t \in Time : liveHead' = Heads(b, {w}, bs, t) /\ now' = t
  BY <1>3
<1>5. now \in Nat /\ t \in Nat /\ now <= t /\ used \in Nat /\ w \in Batches /\ w > used
  <2>1. now \in Nat /\ used \in Nat /\ MaxBatches \in Nat /\ \A d \in Ticks : d \in Nat
    BY DEF TypeOK, StateConstants
  <2>2. t \in Nat /\ now <= t
    BY <2>1 DEF Time
  <2> QED BY <1>1, <1>3, <2>1, <2>2 DEF Batches
<1>6. ASSUME NEW x \in Batches
      PROVE  \/ batch'[x].floor = batch[x].floor /\ batch'[x].branch = batch[x].branch
             \/ x > used /\ batch'[x].floor = NoFloor
  <2>1. CASE x # w
    BY <1>2, <1>3, <2>1 DEF Applied, TypeOK
  <2>2. CASE x = w
    <3>1. bs[w] = [status |-> "staged", slots |-> {s}, branch |-> b, floor |-> NoFloor]
      BY <1>2, <1>5 DEF TypeOK
    <3>2. batch'[w] = [bs[w] EXCEPT !.status = "applied"]
      BY <1>3, <1>5 DEF Applied
    <3>3. batch'[w].floor = NoFloor
      BY <3>1, <3>2
    <3> QED BY <1>5, <2>2, <3>3
  <2> QED BY <2>1, <2>2
<1>7. ASSUME NEW c \in Branches, NEW r \in Slots
      PROVE  \/ liveHead'[c][r] = liveHead[c][r]
             \/ c = b /\ liveHead'[c][r].at = now'
  BY <1>4 DEF Heads, TypeOK
<1> QED
  BY <1>3, <1>4, <1>5, <1>6, <1>7

LEMMA CrashRows ==
  ASSUME StateInv, Crash
  PROVE  /\ \A c \in Branches : turn'[c].stage = "idle" /\ turn'[c].floor = NoFloor
         /\ UNCHANGED <<floor, turns, batch, liveHead, snapshot, now, rewritten, early>>
BY DEF Crash, NoTurn

LEMMA HistoryInit ==
  ASSUME StateConstants, Init
  PROVE  HistoryInv
<1>1. /\ floor = [f \in Floors |-> NoRow] /\ turn = [b \in Branches |-> NoTurn]
      /\ batch = [w \in Batches |-> NoBatch]
      /\ snapshot = [f \in Floors |-> [s \in Slots |-> NoValue]]
      /\ NoFloor \notin Floors
  BY DEF Init, StateConstants
<1>2. \A f \in Floors : ~Exists(f) /\ floor[f].path = {} /\ floor[f].state = "none"
                        /\ ~Held(f) /\ \A y : ~Replaces(f, y)
  BY <1>1 DEF NoRow, NoTurn, Exists, Held, Replaces
<1>3. FamilyInv
  BY <1>1, <1>2 DEF FamilyInv, PathsSound, HiddenSound, ReplacesSound, Chain, Standing
<1>4. WritersSound /\ Unwritten
  BY <1>1 DEF WritersSound, Unwritten, NoBatch
<1>5. PastKept
  BY <1>1 DEF PastKept, PastAt, NoValue
<1> QED
  BY <1>3, <1>4, <1>5 DEF HistoryInv

LEMMA HistoryNext ==
  ASSUME StateConstants, StateInv, HistoryInv, [Next]_vars
  PROVE  HistoryInv'
<1>0. FamilyInv
  BY DEF HistoryInv
<1>1. ASSUME NEW f \in Floors, Regenerate(f)
      PROVE  HistoryInv'
  BY <1>0, <1>1, RegenerateFacts, RegenerateFamily, HistoryStays DEF Started
<1>2. ASSUME NEW f \in Floors, Retry(f)
      PROVE  HistoryInv'
  <2>1. PICK b : b = floor[f].branch
    OBVIOUS
  <2>2. RowsStep /\ Started(b, f)
    BY <1>2, <2>1, RetryFacts
  <2> QED BY <1>0, <1>2, <2>2, RetryFamily, HistoryStays DEF Started
<1>3. ASSUME NEW f \in Floors, Reap(f)
      PROVE  HistoryInv'
  BY <1>0, <1>3, ReapFamily, HistoryStays DEF Reap
<1>4. ASSUME NEW b \in Branches, Stage(b)
      PROVE  HistoryInv'
  BY <1>0, <1>4, StageRows, FloorsStayFamily, HistoryStays
<1>5. ASSUME NEW b \in Branches, Commit(b)
      PROVE  HistoryInv'
  BY <1>5, CommitHistory
<1>6. ASSUME NEW b \in Branches, TurnFails(b)
      PROVE  HistoryInv'
  BY <1>0, <1>6, TurnFailsFamily, TurnFailsRows, HistoryStays
<1>7. ASSUME NEW b \in Branches, NEW f \in Floors, Respond(b, f)
      PROVE  HistoryInv'
  BY <1>0, <1>7, RespondFacts, RespondFamily, HistoryStays DEF Started
<1>11. \A c \in Branches : turn[c].stage = "idle" => turn[c].floor = NoFloor
  BY DEF StateInv, TurnsSound
<1>8. ASSUME NEW b \in Branches, NEW s \in Slots, DirectWrite(b, s)
      PROVE  HistoryInv'
  <2>1. RowsStep /\ FamilyInv' /\ Shrinks
    BY <1>0, <1>8, <1>11, DirectWriteRows, FloorsStayFamily
  <2> QED BY <1>8, <2>1, DirectWriteRows, HistoryStays
<1>9. CASE Crash
  BY <1>0, <1>9, CrashRows, FloorsStayFamily, HistoryStays
<1>10. CASE UNCHANGED vars
  <2>1. RowsStep /\ FamilyInv' /\ Shrinks
    BY <1>0, <1>10, <1>11, FloorsStayFamily DEF vars
  <2> QED BY <1>10, <2>1, HistoryStays DEF vars
<1> QED
  BY <1>1, <1>2, <1>3, <1>4, <1>5, <1>6, <1>7, <1>8, <1>9, <1>10 DEF Next

\* The inductive invariant behind the two theorems on snapshots.
LEMMA HistoryInvariant == Spec => []HistoryInv
<1>1. Init => HistoryInv
  BY StateConstants, HistoryInit
<1>2. StateInv /\ HistoryInv /\ [Next]_vars => HistoryInv'
  BY StateConstants, HistoryNext
<1> QED
  BY <1>1, <1>2, StateInvariant, PTL DEF Spec

\* What the snapshot of a floor adds to the one of its parent was written on its
\* own branch before it (materializeFloorSnapshotForSlot), whatever was
\* regenerated, retried or lost, until a floor others grew on is written again.
THEOREM HistoryIsKept == Spec => []SnapshotsKeepHistory
<1>1. ASSUME StateInv, HistoryInv
      PROVE  SnapshotsKeepHistory
  <2> SUFFICES ASSUME NEW f \in Floors, Unrewritten(f), NEW s \in Slots,
                      NEW w, w = snapshot[f][s].batch, w # 0
               PROVE  \/ batch[w].branch = floor[f].branch /\ FromPast(f, w)
                      \/ floor[f].parent # NoFloor /\ w = snapshot[floor[f].parent][s].batch
    BY DEF SnapshotsKeepHistory, KeepsHistory
  <2>1. \/ batch[w].branch = floor[f].branch /\ IsPast(f, w)
        \/ floor[f].parent # NoFloor /\ w = snapshot[floor[f].parent][s].batch
    BY <1>1 DEF HistoryInv, PastKept, PastAt
  <2>2. IsPast(f, w) => FromPast(f, w)
    BY DEF IsPast, FromPast, Standing
  <2> QED BY <2>1, <2>2
<1> QED
  BY <1>1, StateInvariant, HistoryInvariant, PTL

-----------------------------------------------------------------------------
(* Snapshots and what readers resolve.                                     *)

\* The clock is not behind anything that was written.
Times ==
  /\ \A b \in Branches, s \in Slots : liveHead[b][s].at <= now
  /\ \A f \in Floors, s \in Slots : snapshot[f][s].at <= now

\* A branch with floors always shows one.
LiveLeft == \A f \in Floors : Exists(f) => OnBranch(floor[f].branch) # {}

\* A branch that was not written to too early has a head only with a floor.
HeadsFollow ==
  \A b \in Branches, s \in Slots : liveHead[b][s].taken => b \in early \/ OnBranch(b) # {}

\* The head of a branch that is older than the snapshot of a floor of it holds
\* what the snapshot holds.
SyncAt(f, s) ==
  LET head == liveHead[floor[f].branch][s]
  IN  head.taken /\ snapshot[f][s].taken /\ head.at < snapshot[f][s].at =>
        head.batch = snapshot[f][s].batch

Sync == \A f \in Floors, s \in Slots : Undisturbed(f) => SyncAt(f, s)

\* No head of a branch is older than the floor of another branch it grew out of.
OutsideAt(f, s) ==
  LET b == floor[f].branch
      p == floor[f].parent
  IN  /\ p # NoFloor /\ p \notin rewritten /\ b \notin early
      /\ floor[p].branch # b
      /\ liveHead[b][s].taken /\ snapshot[p][s].taken
      => snapshot[p][s].at <= liveHead[b][s].at

Outside == \A f \in Floors, s \in Slots : OutsideAt(f, s)

CurrentInv == Times /\ LiveLeft /\ HeadsFollow /\ Sync /\ Outside

\* A step that leaves the values alone.
LEMMA CurrentStays ==
  ASSUME StateConstants, StateInv, Unwritten, CurrentInv, RowsStep, BranchesLast,
         UNCHANGED <<liveHead, snapshot, now>>,
         rewritten \subseteq rewritten', early \subseteq early',
         \A f \in Floors : ~Exists(f) /\ Exists(f)' =>
           floor'[f].live /\ \A s \in Slots : OutsideAt(f, s)'
  PROVE  CurrentInv'
<1> USE DEF StateInv, CurrentInv
<1>1. \A f \in Floors : Exists(f) => /\ floor'[f].branch = floor[f].branch
                                     /\ floor'[f].path = floor[f].path
                                     /\ floor'[f].parent = floor[f].parent
  BY DEF RowsStep, RowKept
<1>2. \A f \in Floors : floor[f].branch \in Branches /\ floor'[f].branch \in Branches
                        /\ floor[f].parent \in Floors \cup {NoFloor}
  BY DEF TypeOK, RowsStep, FloorRow
<1>3. Times'
  BY DEF Times
<1>4. LiveLeft'
  <2> SUFFICES ASSUME NEW f \in Floors, Exists(f)'
               PROVE  OnBranch(floor[f].branch)' # {}
    BY DEF LiveLeft
  <2>1. CASE Exists(f)
    <3>1. PICK b \in Branches : b = floor[f].branch
      BY <1>2
    <3>2. OnBranch(b) # {}
      BY <2>1, <3>1 DEF LiveLeft
    <3>3. OnBranch(b)' # {} /\ floor'[f].branch = b
      BY <1>1, <2>1, <3>1, <3>2 DEF BranchesLast
    <3> QED BY <3>3 DEF OnBranch
  <2>2. CASE ~Exists(f)
    <3>1. floor'[f].live /\ floor'[f].state # "none"
      BY <2>2 DEF Exists
    <3>2. f \in OnBranch(floor[f].branch)'
      BY <3>1 DEF OnBranch
    <3> QED BY <3>2
  <2> QED BY <2>1, <2>2
<1>5. HeadsFollow'
  BY DEF HeadsFollow, BranchesLast
<1>6. Sync'
  <2> SUFFICES ASSUME NEW f \in Floors, NEW s \in Slots, Undisturbed(f)'
               PROVE  SyncAt(f, s)'
    BY DEF Sync
  <2>1. CASE Exists(f)
    <3>1. Undisturbed(f)
      BY <1>1, <2>1 DEF Undisturbed, Unrewritten
    <3> QED BY <1>1, <2>1, <3>1 DEF Sync, SyncAt
  <2>2. CASE ~Exists(f)
    BY <2>2 DEF Unwritten, NoValue, SyncAt
  <2> QED BY <2>1, <2>2
<1>7. Outside'
  <2> SUFFICES ASSUME NEW f \in Floors, NEW s \in Slots
               PROVE  OutsideAt(f, s)'
    BY DEF Outside
  <2>1. CASE Exists(f)
    <3>1. PICK p : p = floor[f].parent
      OBVIOUS
    <3>2. p # NoFloor => floor'[p].branch = floor[p].branch
      BY <1>1, <1>2, <2>1, <3>1 DEF RowsSound
    <3>3. OutsideAt(f, s)
      BY DEF Outside
    <3> QED BY <1>1, <2>1, <3>1, <3>2, <3>3 DEF OutsideAt
  <2>2. CASE ~Exists(f) /\ Exists(f)'
    BY <2>2
  <2>3. CASE ~Exists(f)'
    <3>1. ~Exists(f)
      BY <2>3 DEF RowsStep, RowKept, Exists
    <3>2. floor'[f] = floor[f]
      BY <2>3, <3>1 DEF RowsStep, RowGrown, Exists
    <3>3. floor'[f].parent = NoFloor
      BY <3>1, <3>2 DEF RowsSound
    <3> QED BY <3>3 DEF OutsideAt
  <2> QED BY <2>1, <2>2, <2>3
<1> QED
  BY <1>3, <1>4, <1>5, <1>6, <1>7

LEMMA RespondCurrent ==
  ASSUME StateConstants, StateInv, HistoryInv, CurrentInv,
         NEW b \in Branches, NEW f \in Floors, Respond(b, f)
  PROVE  CurrentInv'
<1> USE DEF StateInv, HistoryInv, CurrentInv, FamilyInv
<1>1. RowsStep /\ Started(b, f)
  BY RespondFacts
<1>2. PICK p \in Floors \cup {NoFloor} : GrowsOnLatest(b, f, p)
  BY RespondGrows
<1>3. /\ ~Exists(f) /\ (\A g \in Floors \ {f} : floor'[g] = floor[g])
      /\ floor'[f].branch = b /\ floor'[f].live /\ floor'[f].state = "generating"
      /\ floor'[f].parent = p /\ (p # NoFloor => p \in Floors /\ Exists(p) /\ p # f)
  BY <1>2 DEF GrowsOnLatest, Grows
<1>4. BranchesLast
  BY <1>3 DEF BranchesLast, OnBranch, Exists
<1>5. /\ UNCHANGED <<liveHead, snapshot, now, rewritten, early>>
  BY <1>1 DEF Started
<1>6. ASSUME NEW s \in Slots, p # NoFloor, p \notin rewritten, b \notin early,
             floor[p].branch # b, liveHead[b][s].taken, snapshot[p][s].taken
      PROVE  snapshot[p][s].at <= liveHead[b][s].at
  <2>1. OnBranch(b) # {}
    BY <1>6 DEF HeadsFollow
  <2>2. PICK last \in Floors : /\ Exists(last) /\ floor[last].branch = b
                               /\ floor[last].parent = p
    BY <1>2, <1>6, <2>1 DEF GrowsOnLatest
  <2> QED BY <1>6, <2>2 DEF Outside, OutsideAt
<1>7. \A s \in Slots : OutsideAt(f, s)'
  <2>1. p # NoFloor => floor'[p] = floor[p]
    BY <1>3
  <2> QED BY <1>3, <1>5, <1>6, <2>1 DEF OutsideAt
<1>8. \A g \in Floors : ~Exists(g) /\ Exists(g)' => g = f
  BY <1>3 DEF Exists
<1> QED
  BY <1>1, <1>3, <1>4, <1>5, <1>7, <1>8, CurrentStays

LEMMA RegenerateCurrent ==
  ASSUME StateConstants, StateInv, HistoryInv, CurrentInv, NEW f \in Floors, Regenerate(f)
  PROVE  CurrentInv'
<1> USE DEF StateInv, HistoryInv, CurrentInv
<1>1. RowsStep /\ Started(Main, f)
  BY RegenerateFacts
<1>2. PICK p \in Floors : GrowsOver(f, p)
  BY RegenerateGrows
<1>3. /\ ~Exists(f) /\ p # f /\ floor[p].branch = Main /\ Exists(p)
      /\ (\A g \in Floors \ {f, p} : floor'[g] = floor[g])
      /\ floor'[f].branch = Main /\ floor'[f].live /\ floor'[f].state = "generating"
      /\ floor'[f].parent = p
      /\ floor'[p].branch = Main /\ Exists(p)'
  BY <1>1, <1>2 DEF GrowsOver, Grows, IsLatest, Shown, Exists, RowsStep, RowKept
<1>4. BranchesLast
  <2> SUFFICES ASSUME NEW c \in Branches, NEW g \in OnBranch(c)
               PROVE  OnBranch(c)' # {}
    BY DEF BranchesLast
  <2>1. g \in Floors /\ Exists(g) /\ floor[g].branch = c /\ floor[g].live
    BY DEF OnBranch, Exists
  <2>2. CASE c = Main
    BY <1>3, <2>2 DEF OnBranch
  <2>3. CASE c # Main
    <3>1. floor'[g] = floor[g]
      BY <1>3, <2>1, <2>3
    <3> QED BY <2>1, <3>1 DEF OnBranch, Exists
  <2> QED BY <2>2, <2>3
<1>5. UNCHANGED <<liveHead, snapshot, now, rewritten, early>>
  BY <1>1 DEF Started
<1>6. \A s \in Slots : OutsideAt(f, s)'
  BY <1>3 DEF OutsideAt
<1>7. \A g \in Floors : ~Exists(g) /\ Exists(g)' => g = f
  BY <1>3 DEF Exists
<1> QED
  BY <1>1, <1>3, <1>4, <1>5, <1>6, <1>7, CurrentStays

LEMMA RetryCurrent ==
  ASSUME StateConstants, StateInv, HistoryInv, CurrentInv, NEW f \in Floors, Retry(f)
  PROVE  CurrentInv'
<1> USE DEF StateInv, HistoryInv
<1>1. PICK b : b = floor[f].branch
  OBVIOUS
<1>2. RowsStep /\ Started(b, f)
  BY <1>1, RetryFacts
<1>3. floor' = [floor EXCEPT ![f].state = "generating"] /\ floor[f].state = "committed"
      /\ floor[f] \in FloorRow
  BY DEF Retry, TypeOK
<1>4. \A g \in Floors : /\ floor'[g].live = floor[g].live /\ floor'[g].branch = floor[g].branch
                        /\ Exists(g)' <=> Exists(g)
  BY <1>3 DEF TypeOK, FloorRow, Exists
<1>5. BranchesLast
  BY <1>4 DEF BranchesLast, OnBranch, Exists
<1> QED
  BY <1>2, <1>4, <1>5, CurrentStays DEF Started

\* What the snapshot of f holds is what its branch resolves.
LEMMA CommitCurrent ==
  ASSUME StateConstants, StateInv, HistoryInv, CurrentInv, NEW b \in Branches, Commit(b),
         NEW f, f = turn[b].floor, NEW s \in Slots, Undisturbed(f)', liveHead'[b][s].taken,
         \/ snapshot'[f][s] # snapshot[f][s]
         \/ snapshot'[f][s].taken /\ liveHead'[b][s].at < snapshot'[f][s].at
  PROVE  snapshot'[f][s].batch = liveHead'[b][s].batch
<1> USE DEF StateInv, HistoryInv, CurrentInv
<1>1. /\ f \in Floors /\ floor[f].branch = b /\ floor[f].state = "generating"
      /\ Records(f, b, s)
      /\ rewritten \subseteq rewritten' /\ early' = early
  BY CommitRecords
<1>2. RowsStep /\ Exists(f)
  BY <1>1, CommitFamily DEF Exists
<1>3. floor'[f].branch = b /\ floor'[f].path = floor[f].path /\ floor'[f].parent = floor[f].parent
  BY <1>1, <1>2 DEF RowsStep, RowKept
<1>4. floor[f].path \cap rewritten = {} /\ b \notin early /\ Undisturbed(f)
  BY <1>1, <1>3 DEF Undisturbed, Unrewritten
<1>5. CASE snapshot'[f][s] = snapshot[f][s] /\ liveHead'[b][s] = liveHead[b][s]
  BY <1>1, <1>4, <1>5 DEF Sync, SyncAt
<1>6. ASSUME NEW w \in Batches,
             snapshot'[f][s] = [taken |-> TRUE, at |-> now', batch |-> w],
             liveHead'[b][s] = [taken |-> TRUE, batch |-> w, at |-> now']
      PROVE  snapshot'[f][s].batch = liveHead'[b][s].batch
  BY <1>6
<1>7. CASE /\ snapshot'[f][s] = [taken |-> TRUE, at |-> now', batch |-> Inherited(f, b, s)]
           /\ liveHead'[b][s] = liveHead[b][s]
  <2>1. PICK p : p = floor[f].parent
    OBVIOUS
  <2>2. PICK parent : parent = IF p = NoFloor THEN NoValue ELSE snapshot[p][s]
    OBVIOUS
  <2>3. snapshot'[f][s].batch = Materialized(liveHead[b][s], parent, 0) /\ liveHead[b][s].taken
    BY <1>7, <2>1, <2>2 DEF Inherited
  <2>4. CASE ~parent.taken \/ liveHead[b][s].at >= parent.at
    BY <1>7, <2>3, <2>4 DEF Materialized
  <2>5. CASE parent.taken /\ ~(liveHead[b][s].at >= parent.at)
    <3>1. p # NoFloor /\ p \in Floors /\ Exists(p) /\ parent = snapshot[p][s]
      BY <1>1, <1>2, <2>1, <2>2, <2>5 DEF NoValue, RowsSound, TypeOK, FloorRow
    <3>2. p \in floor[p].path /\ floor[p].path \subseteq floor[f].path
      BY <1>1, <1>2, <2>1, <3>1 DEF RowsSound
    <3>3. p \notin rewritten /\ floor[p].path \cap rewritten = {}
      BY <1>4, <3>2
    <3>4. parent.at \in Nat /\ liveHead[b][s].at \in Nat
      BY <3>1 DEF TypeOK, Value
    <3>5. CASE floor[p].branch = b
      <4>1. Undisturbed(p)
        BY <1>4, <3>3, <3>5 DEF Undisturbed, Unrewritten
      <4>2. liveHead[b][s].batch = parent.batch
        BY <2>3, <2>5, <3>1, <3>4, <3>5, <4>1 DEF Sync, SyncAt
      <4> QED BY <1>7, <2>3, <2>5, <4>2 DEF Materialized
    <3>6. CASE floor[p].branch # b
      BY <1>1, <1>4, <2>1, <2>3, <2>5, <3>1, <3>3, <3>4, <3>6 DEF Outside, OutsideAt
    <3> QED BY <3>5, <3>6
  <2> QED BY <2>4, <2>5
<1> QED
  BY <1>1, <1>5, <1>6, <1>7 DEF Records

\* A step that leaves floors in place, and writes heads of one branch at the
\* time that is now.
LEMMA HeadsStay ==
  ASSUME StateConstants, StateInv, CurrentInv, RowsStep, BranchesLast,
         \A g \in Floors : Exists(g)' => Exists(g),
         NEW b \in Branches, now \in Nat, now' \in Nat, now <= now',
         \A c \in Branches, r \in Slots :
           \/ liveHead'[c][r] = liveHead[c][r]
           \/ c = b /\ liveHead'[c][r].at = now',
         b \in early' \/ OnBranch(b) # {}, early \subseteq early'
  PROVE  /\ \A c \in Branches, r \in Slots : liveHead'[c][r].at <= now'
         /\ LiveLeft' /\ HeadsFollow'
<1> USE DEF StateInv, CurrentInv
<1>1. \A c \in Branches, r \in Slots : liveHead[c][r].at \in Nat
  BY DEF TypeOK, Value
<1>2. \A c \in Branches, r \in Slots : liveHead'[c][r].at <= now'
  BY <1>1 DEF Times
<1>3. LiveLeft'
  <2> SUFFICES ASSUME NEW f \in Floors, Exists(f)'
               PROVE  OnBranch(floor[f].branch)' # {}
    BY DEF LiveLeft
  <2>1. Exists(f) /\ floor'[f].branch = floor[f].branch
    BY DEF RowsStep, RowKept
  <2>2. PICK c \in Branches : c = floor[f].branch
    BY DEF TypeOK, FloorRow
  <2>3. OnBranch(c) # {}
    BY <2>1, <2>2 DEF LiveLeft
  <2>4. OnBranch(c)' # {} /\ floor'[f].branch = c
    BY <2>1, <2>2, <2>3 DEF BranchesLast
  <2> QED BY <2>4 DEF OnBranch
<1>4. HeadsFollow'
  <2> SUFFICES ASSUME NEW c \in Branches, NEW r \in Slots, liveHead'[c][r].taken
               PROVE  c \in early' \/ OnBranch(c)' # {}
    BY DEF HeadsFollow
  <2>1. c \in early' \/ OnBranch(c) # {}
    BY DEF HeadsFollow
  <2> QED BY <2>1 DEF BranchesLast
<1> QED
  BY <1>2, <1>3, <1>4

LEMMA CommitKeepsCurrent ==
  ASSUME StateConstants, StateInv, HistoryInv, CurrentInv, NEW b \in Branches, Commit(b)
  PROVE  CurrentInv'
<1> USE DEF StateInv, HistoryInv, CurrentInv
<1>1. PICK f : f = turn[b].floor
  OBVIOUS
<1>2. /\ f \in Floors /\ floor[f].branch = b /\ floor[f].state = "generating"
      /\ now \in Nat /\ now' \in Nat /\ now <= now'
      /\ \A g \in Floors \ {f} : snapshot'[g] = snapshot[g]
      /\ \A c \in Branches \ {b} : liveHead'[c] = liveHead[c]
      /\ \A s \in Slots : Records(f, b, s)
      /\ rewritten \subseteq rewritten' /\ (GrownOn(f) => f \in rewritten')
      /\ early' = early
  BY <1>1, CommitRecords
<1>3. RowsStep /\ BranchesLast /\ Exists(f)
  BY <1>2, CommitFamily DEF Exists
<1>4. \A g \in Floors : Exists(g) => /\ floor'[g].branch = floor[g].branch
                                     /\ floor'[g].path = floor[g].path
                                     /\ floor'[g].parent = floor[g].parent
  BY <1>3 DEF RowsStep, RowKept
<1>5. \A g \in Floors : ~Exists(g) => floor'[g] = floor[g] /\ ~Exists(g)'
  BY <1>2, <1>3, CommitFacts, <1>1 DEF TypeOK, Exists
<1>6. /\ \A c \in Branches, r \in Slots :
           \/ liveHead'[c][r] = liveHead[c][r]
           \/ c = b /\ liveHead'[c][r].at = now'
      /\ \A r \in Slots : snapshot'[f][r] = snapshot[f][r] \/ snapshot'[f][r].at = now'
  <2>1. ASSUME NEW r \in Slots
        PROVE  /\ liveHead'[b][r] = liveHead[b][r] \/ liveHead'[b][r].at = now'
               /\ snapshot'[f][r] = snapshot[f][r] \/ snapshot'[f][r].at = now'
    <3>1. Records(f, b, r)
      BY <1>2
    <3>2. \A w : liveHead'[b][r] = [taken |-> TRUE, batch |-> w, at |-> now']
                 => liveHead'[b][r].at = now'
      OBVIOUS
    <3>3. \A w : snapshot'[f][r] = [taken |-> TRUE, at |-> now', batch |-> w]
                 => snapshot'[f][r].at = now'
      OBVIOUS
    <3> QED BY <3>1, <3>2, <3>3 DEF Records
  <2> QED BY <1>2, <2>1
<1>7. OnBranch(b) # {}
  BY <1>2, <1>3 DEF LiveLeft
<1>8. /\ \A c \in Branches, r \in Slots : liveHead'[c][r].at <= now'
      /\ LiveLeft' /\ HeadsFollow'
  BY <1>2, <1>3, <1>5, <1>6, <1>7, HeadsStay
<1>9. \A g \in Floors, r \in Slots : snapshot[g][r].at \in Nat /\ snapshot[g][r].at <= now
  BY DEF TypeOK, Value, Times
<1>10. Times'
  <2>1. \A g \in Floors, r \in Slots : snapshot'[g][r].at <= now'
    BY <1>2, <1>6, <1>9
  <2> QED BY <1>8, <2>1 DEF Times
<1>11. Sync'
  <2> SUFFICES ASSUME NEW g \in Floors, NEW s \in Slots, Undisturbed(g)',
                      liveHead'[floor'[g].branch][s].taken, snapshot'[g][s].taken,
                      liveHead'[floor'[g].branch][s].at < snapshot'[g][s].at
               PROVE  liveHead'[floor'[g].branch][s].batch = snapshot'[g][s].batch
    BY DEF Sync, SyncAt
  <2>1. CASE g = f
    <3>1. floor'[f].branch = b
      BY <1>2, <1>3, <1>4
    <3> QED BY <1>1, <2>1, <3>1, CommitCurrent
  <2>2. CASE g # f
    <3>1. snapshot'[g] = snapshot[g] /\ Exists(g)
      BY <1>2, <2>2 DEF Unwritten, NoValue
    <3>2. PICK c \in Branches : c = floor[g].branch
      BY DEF TypeOK, FloorRow
    <3>3. floor'[g].branch = c
      BY <1>4, <3>1, <3>2
    <3>4. Undisturbed(g)
      BY <1>2, <1>4, <3>1 DEF Undisturbed, Unrewritten
    <3>5. liveHead'[c][s].at # now'
      BY <1>2, <1>9, <3>1, <3>3
    <3>6. liveHead'[c][s] = liveHead[c][s]
      BY <1>6, <3>5
    <3> QED BY <3>1, <3>2, <3>3, <3>4, <3>6 DEF Sync, SyncAt
  <2> QED BY <2>1, <2>2
<1>12. Outside'
  <2> SUFFICES ASSUME NEW g \in Floors, NEW s \in Slots,
                      NEW c, c = floor'[g].branch, NEW p, p = floor'[g].parent,
                      p # NoFloor, p \notin rewritten', c \notin early',
                      floor'[p].branch # c, liveHead'[c][s].taken, snapshot'[p][s].taken
               PROVE  snapshot'[p][s].at <= liveHead'[c][s].at
    BY DEF Outside, OutsideAt
  <2>1. Exists(g)
    BY <1>5 DEF RowsSound
  <2>2. c = floor[g].branch /\ p = floor[g].parent /\ c \in Branches /\ p \in Floors /\ Exists(p)
    BY <1>4, <2>1 DEF RowsSound, TypeOK, FloorRow
  <2>3. p # f
    BY <1>2, <2>1, <2>2 DEF GrownOn
  <2>4. snapshot'[p] = snapshot[p] /\ floor[p].branch # c
    BY <1>2, <1>4, <2>2, <2>3
  <2>5. CASE liveHead'[c][s].at = now'
    BY <1>2, <1>9, <2>2, <2>4, <2>5
  <2>6. CASE liveHead'[c][s] = liveHead[c][s]
    BY <1>2, <2>2, <2>4, <2>6 DEF Outside, OutsideAt
  <2> QED BY <1>6, <2>2, <2>5, <2>6
<1> QED
  BY <1>8, <1>10, <1>11, <1>12

LEMMA DirectWriteCurrent ==
  ASSUME StateConstants, StateInv, HistoryInv, CurrentInv,
         NEW b \in Branches, NEW s \in Slots, DirectWrite(b, s)
  PROVE  CurrentInv'
<1> USE DEF StateInv, HistoryInv, CurrentInv
<1>1. /\ now \in Nat /\ now' \in Nat /\ now <= now'
      /\ \A c \in Branches, r \in Slots :
           \/ liveHead'[c][r] = liveHead[c][r]
           \/ c = b /\ liveHead'[c][r].at = now'
      /\ early \subseteq early' /\ (LatestCommitted(b) = NoFloor => b \in early')
      /\ UNCHANGED <<floor, turn, turns, snapshot, rewritten>>
  BY DirectWriteRows
<1>2. RowsStep /\ BranchesLast
  <2>1. \A c \in Branches : turn[c].stage = "idle" => turn[c].floor = NoFloor
    BY DEF TurnsSound
  <2> QED BY <1>1, <2>1, FloorsStayFamily
<1>3. b \in early' \/ OnBranch(b) # {}
  <2>1. PICK m : m = LatestCommitted(b)
    OBVIOUS
  <2>2. m # NoFloor => IsLatest(b, m)
    BY <2>1, LatestFacts
  <2> QED BY <1>1, <2>1, <2>2 DEF IsLatest, OnBranch, Shown
<1>4. /\ \A c \in Branches, r \in Slots : liveHead'[c][r].at <= now'
      /\ LiveLeft' /\ HeadsFollow'
  <2>1. \A g \in Floors : Exists(g)' => Exists(g)
    BY <1>1 DEF Exists
  <2> QED BY <1>1, <1>2, <1>3, <2>1, HeadsStay
<1>5. \A g \in Floors, r \in Slots : snapshot[g][r].at \in Nat /\ snapshot[g][r].at <= now
  BY DEF TypeOK, Value, Times
<1>6. Times'
  BY <1>1, <1>4, <1>5 DEF Times
<1>7. \A g \in Floors : floor[g].branch \in Branches /\ floor[g].parent \in Floors \cup {NoFloor}
  BY DEF TypeOK, FloorRow
<1>8. Sync'
  <2> SUFFICES ASSUME NEW g \in Floors, NEW r \in Slots, Undisturbed(g)',
                      liveHead'[floor'[g].branch][r].taken, snapshot'[g][r].taken,
                      liveHead'[floor'[g].branch][r].at < snapshot'[g][r].at
               PROVE  liveHead'[floor'[g].branch][r].batch = snapshot'[g][r].batch
    BY DEF Sync, SyncAt
  <2>1. Undisturbed(g)
    BY <1>1 DEF Undisturbed, Unrewritten
  <2>2. liveHead'[floor[g].branch][r].at # now'
    BY <1>1, <1>5
  <2>3. liveHead'[floor[g].branch][r] = liveHead[floor[g].branch][r]
    BY <1>1, <1>7, <2>2
  <2> QED BY <1>1, <2>1, <2>3 DEF Sync, SyncAt
<1>9. Outside'
  <2> SUFFICES ASSUME NEW g \in Floors, NEW r \in Slots,
                      NEW c, c = floor[g].branch, NEW p, p = floor[g].parent,
                      p # NoFloor, p \notin rewritten, c \notin early',
                      floor[p].branch # c, liveHead'[c][r].taken, snapshot[p][r].taken
               PROVE  snapshot[p][r].at <= liveHead'[c][r].at
    BY <1>1 DEF Outside, OutsideAt
  <2>1. c \in Branches /\ p \in Floors
    BY <1>7
  <2>2. CASE liveHead'[c][r].at = now'
    BY <1>1, <1>5, <2>1, <2>2
  <2>3. CASE liveHead'[c][r] = liveHead[c][r]
    BY <1>1, <2>1, <2>3 DEF Outside, OutsideAt
  <2> QED BY <1>1, <2>1, <2>2, <2>3
<1> QED
  BY <1>4, <1>6, <1>8, <1>9

LEMMA CurrentInit ==
  ASSUME StateConstants, Init
  PROVE  CurrentInv
<1>1. /\ \A f \in Floors : floor[f] = NoRow
      /\ \A b \in Branches, s \in Slots : liveHead[b][s] = NoValue
      /\ \A f \in Floors, s \in Slots : snapshot[f][s] = NoValue
      /\ now = 0
  BY DEF Init
<1>2. NoValue.at = 0 /\ ~NoValue.taken
  BY DEF NoValue
<1>3. \A f \in Floors : ~Exists(f)
  BY <1>1 DEF Exists, NoRow
<1>4. Times /\ LiveLeft
  BY <1>1, <1>2, <1>3 DEF Times, LiveLeft
<1>5. HeadsFollow
  BY <1>1, <1>2 DEF HeadsFollow
<1>6. Sync
  BY <1>1, <1>2 DEF Sync, SyncAt
<1>7. Outside
  BY <1>1 DEF Outside, OutsideAt, NoRow
<1> QED
  BY <1>4, <1>5, <1>6, <1>7 DEF CurrentInv

\* Steps that create no floor and leave the values alone.
LEMMA QuietCurrent ==
  ASSUME StateConstants, StateInv, HistoryInv, CurrentInv, RowsStep, BranchesLast,
         UNCHANGED <<liveHead, snapshot, now, rewritten, early>>,
         \A f \in Floors : Exists(f)' => Exists(f)
  PROVE  CurrentInv'
BY CurrentStays DEF HistoryInv

LEMMA CurrentNext ==
  ASSUME StateConstants, StateInv, HistoryInv, CurrentInv, [Next]_vars
  PROVE  CurrentInv'
<1>0. FamilyInv /\ \A c \in Branches : turn[c].stage = "idle" => turn[c].floor = NoFloor
  BY DEF HistoryInv, StateInv, TurnsSound
<1>1. ASSUME NEW f \in Floors, Regenerate(f)
      PROVE  CurrentInv'
  BY <1>1, RegenerateCurrent
<1>2. ASSUME NEW f \in Floors, Retry(f)
      PROVE  CurrentInv'
  BY <1>2, RetryCurrent
<1>3. ASSUME NEW f \in Floors, Reap(f)
      PROVE  CurrentInv'
  <2>1. RowsStep /\ BranchesLast
    BY <1>0, <1>3, ReapFamily
  <2>2. UNCHANGED <<liveHead, snapshot, now, rewritten, early>>
        /\ \A g \in Floors : Exists(g)' => Exists(g)
    BY <1>3 DEF Reap, Exists, StateInv, TypeOK
  <2> QED BY <2>1, <2>2, QuietCurrent
<1>4. ASSUME NEW b \in Branches, Stage(b)
      PROVE  CurrentInv'
  <2>1. RowsStep /\ BranchesLast
    BY <1>0, <1>4, StageRows, FloorsStayFamily
  <2>2. UNCHANGED <<floor, liveHead, snapshot, now, rewritten, early>>
    BY <1>4, StageRows
  <2> QED BY <2>1, <2>2, QuietCurrent DEF Exists
<1>5. ASSUME NEW b \in Branches, Commit(b)
      PROVE  CurrentInv'
  BY <1>5, CommitKeepsCurrent
<1>6. ASSUME NEW b \in Branches, TurnFails(b)
      PROVE  CurrentInv'
  <2>1. RowsStep /\ BranchesLast /\ (\A g \in Floors : Exists(g)' => Exists(g))
    BY <1>0, <1>6, TurnFailsFamily
  <2> QED BY <1>6, <2>1, TurnFailsRows, QuietCurrent
<1>7. ASSUME NEW b \in Branches, NEW f \in Floors, Respond(b, f)
      PROVE  CurrentInv'
  BY <1>7, RespondCurrent
<1>8. ASSUME NEW b \in Branches, NEW s \in Slots, DirectWrite(b, s)
      PROVE  CurrentInv'
  BY <1>8, DirectWriteCurrent
<1>9. CASE Crash
  <2>1. RowsStep /\ BranchesLast
    BY <1>0, <1>9, CrashRows, FloorsStayFamily
  <2>2. UNCHANGED <<floor, liveHead, snapshot, now, rewritten, early>>
    BY <1>9, CrashRows
  <2> QED BY <2>1, <2>2, QuietCurrent DEF Exists
<1>10. CASE UNCHANGED vars
  <2>1. RowsStep /\ BranchesLast
    BY <1>0, <1>10, FloorsStayFamily DEF vars
  <2>2. UNCHANGED <<floor, liveHead, snapshot, now, rewritten, early>>
    BY <1>10 DEF vars
  <2> QED BY <2>1, <2>2, QuietCurrent DEF Exists
<1> QED
  BY <1>1, <1>2, <1>3, <1>4, <1>5, <1>6, <1>7, <1>8, <1>9, <1>10 DEF Next

LEMMA CurrentInvariant == Spec => []CurrentInv
<1>1. Init => CurrentInv
  BY StateConstants, CurrentInit
<1>2. StateInv /\ HistoryInv /\ CurrentInv /\ [Next]_vars => CurrentInv'
  BY StateConstants, CurrentNext
<1> QED
  BY <1>1, <1>2, StateInvariant, HistoryInvariant, PTL DEF Spec

\* Only a commit writes snapshots.
LEMMA OnlyCommitsRecord ==
  ASSUME StateConstants, StateInv, [Next]_vars, NEW f \in Floors, NEW s \in Slots,
         snapshot'[f][s] # snapshot[f][s]
  PROVE  \E b \in Branches : Commit(b) /\ f = turn[b].floor
<1>1. snapshot' # snapshot
  OBVIOUS
<1>2. PICK b \in Branches : Commit(b)
  BY <1>1
  DEF Next, vars, Regenerate, Retry, Reap, Respond, StartTurn, Stage, TurnFails, DirectWrite, Crash
<1>3. PICK h : h = turn[b].floor
  OBVIOUS
<1>4. \A g \in Floors \ {h} : snapshot'[g] = snapshot[g]
  BY <1>2, <1>3, CommitRecords
<1> QED
  BY <1>2, <1>3, <1>4

\* What the commit of a turn records as the state of its floor is what
\* resolveLiveValue answers for the branch from then on, for every slot, as long
\* as the floor is undisturbed.
THEOREM SnapshotsAreCurrent == Spec => SnapshotIsCurrent
<1> DEFINE Current ==
      \A f \in Floors, s \in Slots :
        /\ snapshot'[f][s] # snapshot[f][s]
        /\ LatestCommitted(floor[f].branch)' = f
        /\ Undisturbed(f)'
        => snapshot'[f][s].batch = Resolved(floor[f].branch, s)'
<1>1. ASSUME StateInv, HistoryInv, CurrentInv, [Next]_vars
      PROVE  Current
  <2> SUFFICES ASSUME NEW f \in Floors, NEW s \in Slots,
                      snapshot'[f][s] # snapshot[f][s],
                      LatestCommitted(floor[f].branch)' = f, Undisturbed(f)'
               PROVE  snapshot'[f][s].batch = Resolved(floor[f].branch, s)'
    OBVIOUS
  <2>1. PICK b \in Branches : Commit(b) /\ f = turn[b].floor
    BY <1>1, StateConstants, OnlyCommitsRecord
  <2>2. floor'[f].branch = b /\ f # NoFloor
    <3>1. floor[f].branch = b /\ floor' = [floor EXCEPT ![f].state = "committed"]
      BY <1>1, <2>1, StateConstants, CommitFacts
    <3>2. floor[f] \in FloorRow
      BY <1>1 DEF StateInv, TypeOK
    <3> QED BY <1>1, <3>1, <3>2, StateConstants DEF StateInv, TypeOK, FloorRow, StateConstants
  <2>3. CASE liveHead'[b][s].taken
    <3>1. snapshot'[f][s].batch = liveHead'[b][s].batch
      BY <1>1, <2>1, <2>3, StateConstants, CommitCurrent
    <3> QED BY <2>2, <2>3, <3>1 DEF Resolved
  <2>4. CASE ~liveHead'[b][s].taken
    <3>1. Resolved(floor[f].branch, s)' = snapshot'[f][s].batch
      BY <2>2, <2>4 DEF Resolved
    <3> QED BY <3>1
  <2> QED BY <2>3, <2>4
<1>2. StateInv /\ HistoryInv /\ CurrentInv /\ [Next]_vars => [Current]_vars
  BY <1>1
<1> QED
  BY <1>2, StateInvariant, HistoryInvariant, CurrentInvariant, PTL DEF Spec, SnapshotIsCurrent

=============================================================================
