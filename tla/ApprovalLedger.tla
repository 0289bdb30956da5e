--------------------------- MODULE ApprovalLedger ---------------------------
(***************************************************************************)
(* What the approvals workflow keeps to when any number of requests race   *)
(* on the same held calls.  Every approval is a grant, and a grant is used *)
(* up: by one execution, by one Denied row, or it is lost.  An execution   *)
(* gives at most one result, and a result is recorded at most once, the    *)
(* row and the trail together.                                             *)
(*                                                                         *)
(* The status column promises less than ApprovalLifecycle says: a decision *)
(* may replace another one, and a grant outlives the status that it gave.  *)
(***************************************************************************)
EXTENDS Naturals

CONSTANT Ids \* held calls, by approval id

VARIABLES
    status,    \* status[i]: the status column, "none" before the call is held
    trail,     \* trail[label][i]: audit rows of the call, after Pending
    runs,      \* runs[i]: times the upstream server executed the call
    approvals, \* approvals[i]: approve decisions
    grants,    \* grants[i]: those of them that are not used up
    results    \* results[i]: executions whose result waits to be recorded

ledger == <<status, trail, runs, approvals, grants, results>>

NoCalls == [i \in Ids |-> 0]

Init ==
    /\ status = [i \in Ids |-> "none"]
    /\ trail = [l \in {"Allowed", "Denied"} |-> NoCalls]
    /\ runs = NoCalls /\ approvals = NoCalls
    /\ grants = NoCalls /\ results = NoCalls

Add(label, i) == trail' = [trail EXCEPT ![label][i] = @ + 1]
Use(i) == grants[i] > 0 /\ grants' = [grants EXCEPT ![i] = @ - 1]

Hold(i) ==
    /\ status[i] = "none"
    /\ status' = [status EXCEPT ![i] = "pending"]
    /\ UNCHANGED <<trail, runs, approvals, grants, results>>

Approve(i) ==
    /\ status[i] # "none"
    /\ status' = [status EXCEPT ![i] = "approved"]
    /\ approvals' = [approvals EXCEPT ![i] = @ + 1]
    /\ grants' = [grants EXCEPT ![i] = @ + 1]
    /\ UNCHANGED <<trail, runs, results>>

Deny(i) ==
    /\ status[i] # "none"
    /\ status' = [status EXCEPT ![i] = "denied"]
    /\ Add("Denied", i)
    /\ UNCHANGED <<runs, approvals, grants, results>>

(* The policy of the day refuses an approved call.                         *)
Block(i) ==
    /\ Use(i)
    /\ Add("Denied", i)
    /\ UNCHANGED <<status, runs, approvals, results>>

(* With a result, or without one that arrives.                             *)
Run(i) ==
    /\ Use(i)
    /\ runs' = [runs EXCEPT ![i] = @ + 1]
    /\ results' = [results EXCEPT ![i] = @ + 1] \/ UNCHANGED results
    /\ UNCHANGED <<status, trail, approvals>>

Record(i) ==
    /\ results[i] > 0
    /\ results' = [results EXCEPT ![i] = @ - 1]
    /\ status' = [status EXCEPT ![i] = "executed"]
    /\ Add("Allowed", i)
    /\ UNCHANGED <<runs, approvals, grants>>

(* Requests that fail, or die with the process, lose what they hold.       *)
Lose ==
    /\ grants' \in [Ids -> Nat] /\ results' \in [Ids -> Nat]
    /\ \A i \in Ids : grants'[i] <= grants[i] /\ results'[i] <= results[i]
    /\ UNCHANGED <<status, trail, runs, approvals>>

Next ==
    \/ \E i \in Ids :
          Hold(i) \/ Approve(i) \/ Deny(i) \/ Block(i) \/ Run(i) \/ Record(i)
    \/ Lose

Spec == Init /\ [][Next]_ledger

=============================================================================
