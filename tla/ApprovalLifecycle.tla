-------------------------- MODULE ApprovalLifecycle -------------------------
(***************************************************************************)
(* What the approvals workflow promises of one held call: it is decided    *)
(* once, it reaches the upstream server at most once and only when         *)
(* approved, and it is recorded as executed only when it was.  The life of *)
(* a row of the approvals table, with the decision and the execution each  *)
(* a single step.                                                          *)
(***************************************************************************)
EXTENDS Naturals, TLAPS

CONSTANT Ids \* held calls, by approval id

VARIABLES
    status, \* status[i]: the status column, "none" before the call is held
    runs    \* runs[i]: times the upstream server executed the call

lifecycle == <<status, runs>>

StatusValues == {"none", "pending", "approved", "executed", "denied"}

Init ==
    /\ status = [i \in Ids |-> "none"]
    /\ runs = [i \in Ids |-> 0]

Move(i, from, to) ==
    /\ status[i] = from
    /\ status' = [status EXCEPT ![i] = to]
    /\ UNCHANGED runs

Hold(i)    == Move(i, "none", "pending")
Approve(i) == Move(i, "pending", "approved")
Deny(i)    == Move(i, "pending", "denied")

Run(i) ==
    /\ status[i] = "approved" /\ runs[i] = 0
    /\ runs' = [runs EXCEPT ![i] = 1]
    /\ UNCHANGED status

Record(i) == runs[i] = 1 /\ Move(i, "approved", "executed")

Next == \E i \in Ids : Hold(i) \/ Approve(i) \/ Deny(i) \/ Run(i) \/ Record(i)

Spec == Init /\ [][Next]_lifecycle

-----------------------------------------------------------------------------
(* What such a life amounts to.                                            *)

(* A held call reaches the upstream server at most once, and never unless  *)
(* it is approved; it reads executed only if it did, and one that reads    *)
(* denied never has.  (approve, deny, _execute_approved)                   *)
RunsOnceIfApproved ==
    \A i \in Ids :
       /\ runs[i] \in {0, 1}
       /\ runs[i] = 1 => status[i] \in {"approved", "executed"}
       /\ status[i] = "executed" => runs[i] = 1

THEOREM LifeRunsOnce == Spec => []RunsOnceIfApproved
<1> DEFINE IInv == /\ status \in [Ids -> StatusValues]
                   /\ runs \in [Ids -> {0, 1}]
                   /\ RunsOnceIfApproved
<1>1. Init => IInv
  BY DEF Init, StatusValues, RunsOnceIfApproved
<1>2. IInv /\ [Next]_lifecycle => IInv'
  <2> SUFFICES ASSUME IInv, [Next]_lifecycle PROVE IInv'
    OBVIOUS
  <2>1. ASSUME NEW i \in Ids, Hold(i) \/ Approve(i) \/ Deny(i) PROVE IInv'
    BY <2>1 DEF Hold, Approve, Deny, Move, StatusValues, RunsOnceIfApproved
  <2>2. ASSUME NEW i \in Ids, Run(i) PROVE IInv'
    BY <2>2 DEF Run, RunsOnceIfApproved
  <2>3. ASSUME NEW i \in Ids, Record(i) PROVE IInv'
    BY <2>3 DEF Record, Move, StatusValues, RunsOnceIfApproved
  <2>4. CASE UNCHANGED lifecycle
    BY <2>4 DEF lifecycle, RunsOnceIfApproved
  <2> QED BY <2>1, <2>2, <2>3, <2>4 DEF Next
<1> QED BY <1>1, <1>2, PTL DEF Spec

=============================================================================
