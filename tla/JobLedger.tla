------------------------------ MODULE JobLedger ------------------------------
(***************************************************************************)
(* What the Background Job Runtime promises the services that enqueue      *)
(* jobs, with no worker, lease, clock or crash in sight: a job that is     *)
(* submitted is applied to its scope at most once; applying it either      *)
(* leaves the scope's revision alone or advances it by one; an applied job *)
(* is final; a job that was given up can be revived.                       *)
(***************************************************************************)
EXTENDS Naturals

CONSTANTS Jobs, Scopes, ScopeOf

VARIABLES
  state,     \* per job: "absent", "open", "applied" or "parked"
  revision   \* per scope

Init ==
  /\ state = [j \in Jobs |-> "absent"]
  /\ revision = [s \in Scopes |-> 0]

Move(j, from, to) ==
  /\ state[j] = from
  /\ state' = [state EXCEPT ![j] = to]

Submit(j) == Move(j, "absent", "open") /\ UNCHANGED revision

Apply(j) ==
  /\ Move(j, "open", "applied")
  /\ \/ UNCHANGED revision
     \/ revision' = [revision EXCEPT ![ScopeOf[j]] = @ + 1]

(* Dead-lettered or cancelled.                                             *)
Park(j) == Move(j, "open", "parked") /\ UNCHANGED revision

Revive(j) == Move(j, "parked", "open") /\ UNCHANGED revision

Next == \E j \in Jobs : Submit(j) \/ Apply(j) \/ Park(j) \/ Revive(j)

Spec == Init /\ [][Next]_<<state, revision>>

=============================================================================
