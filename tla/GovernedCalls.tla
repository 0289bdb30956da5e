---------------------------- MODULE GovernedCalls ---------------------------
(***************************************************************************)
(* What the gateway promises to do with the tool calls of agents: a call   *)
(* is taken only from an agent that initialized on that server, it         *)
(* executes only if a policy has opened it, and it ends in one of four     *)
(* ways: delivered after its Allowed row is in the trail, denied with a    *)
(* Denied row, held with a Pending row and an approval, or dropped without *)
(* an answer, before or after it executed.                                 *)
(***************************************************************************)
EXTENDS Naturals, TLAPS

CONSTANTS Agents, Servers, Tools, NoCall

Calls == Agents \X Servers \X Tools

VARIABLES
    introduced, \* the <<agent, server>> pairs that completed an initialize
    opened,     \* calls that a policy in force so far lets through by itself
    call,       \* the call in hand, NoCall when there is none
    stage,      \* how far it is
    audit,      \* audit[label][c]: rows of the trail
    approvals,  \* approvals[c]: calls held for an admin
    executed,   \* executed[c]: executions by the upstream server
    delivered   \* delivered[c]: results the agent received

outcomes == <<audit, approvals, executed, delivered>>
governed == <<introduced, opened, call, stage, outcomes>>

NoRows == [c \in Calls |-> 0]

Init ==
    /\ introduced = {} /\ opened \subseteq Calls
    /\ call = NoCall /\ stage = "none"
    /\ audit = [l \in {"Allowed", "Denied", "Pending"} |-> NoRows]
    /\ approvals = NoRows /\ executed = NoRows /\ delivered = NoRows

Add(label) == audit' = [audit EXCEPT ![label][call] = @ + 1]
End == call' = NoCall /\ stage' = "none"

(* What admins and handshakes make possible.                               *)
Introduce(a, s) ==
    /\ introduced' = introduced \cup {<<a, s>>}
    /\ UNCHANGED <<opened, call, stage, outcomes>>

Open ==
    /\ opened' \in SUBSET Calls /\ opened \subseteq opened'
    /\ UNCHANGED <<introduced, call, stage, outcomes>>

Take(c) ==
    /\ stage = "none" /\ <<c[1], c[2]>> \in introduced
    /\ call' = c /\ stage' = "taken"
    /\ UNCHANGED <<introduced, opened, outcomes>>

(* With a result, or without one that arrives.                             *)
Execute ==
    /\ stage = "taken" /\ call \in opened
    /\ executed' = [executed EXCEPT ![call] = @ + 1]
    /\ End \/ (stage' = "executed" /\ UNCHANGED call)
    /\ UNCHANGED <<introduced, opened, audit, approvals, delivered>>

Record ==
    /\ stage = "executed" /\ stage' = "recorded"
    /\ Add("Allowed")
    /\ UNCHANGED <<introduced, opened, call, approvals, executed, delivered>>

Deliver ==
    /\ stage = "recorded" /\ End
    /\ delivered' = [delivered EXCEPT ![call] = @ + 1]
    /\ UNCHANGED <<introduced, opened, audit, approvals, executed>>

Deny ==
    /\ stage = "taken" /\ End
    /\ Add("Denied")
    /\ UNCHANGED <<introduced, opened, approvals, executed, delivered>>

Hold ==
    /\ stage = "taken" /\ End
    /\ Add("Pending")
    /\ approvals' = [approvals EXCEPT ![call] = @ + 1]
    /\ UNCHANGED <<introduced, opened, executed, delivered>>

Drop ==
    /\ stage # "none" /\ End
    /\ UNCHANGED <<introduced, opened, outcomes>>

Next ==
    \/ \E a \in Agents, s \in Servers : Introduce(a, s)
    \/ \E c \in Calls : Take(c)
    \/ Open \/ Execute \/ Record \/ Deliver \/ Deny \/ Hold \/ Drop

Spec == Init /\ [][Next]_governed

-----------------------------------------------------------------------------
(* What this amounts to.                                                   *)

(* Whatever executed, some policy had opened, for an agent that had        *)
(* initialized there.  (_handle_tools_call)                                *)
ExecutedWereOpened ==
    \A c \in Calls :
       executed[c] > 0 => c \in opened /\ <<c[1], c[2]>> \in introduced

THEOREM OnlyOpenedExecute == Spec => []ExecutedWereOpened
<1> DEFINE IInv == /\ executed \in [Calls -> Nat]
                   /\ stage # "none" =>
                        call \in Calls /\ <<call[1], call[2]>> \in introduced
                   /\ ExecutedWereOpened
<1>1. Init => IInv
  BY DEF Init, NoRows, ExecutedWereOpened
<1>2. IInv /\ [Next]_governed => IInv'
  <2> SUFFICES ASSUME IInv, [Next]_governed PROVE IInv'
    OBVIOUS
  <2>1. ASSUME NEW a \in Agents, NEW s \in Servers, Introduce(a, s) PROVE IInv'
    BY <2>1 DEF Introduce, outcomes, ExecutedWereOpened
  <2>2. ASSUME NEW c \in Calls, Take(c) PROVE IInv'
    BY <2>2 DEF Take, outcomes, ExecutedWereOpened
  <2>3. CASE Open
    BY <2>3 DEF Open, outcomes, ExecutedWereOpened
  <2>4. CASE Execute
    BY <2>4 DEF Execute, End, ExecutedWereOpened
  <2>5. CASE Record \/ Deliver \/ Deny \/ Hold \/ Drop
    BY <2>5 DEF Record, Deliver, Deny, Hold, Drop, End, outcomes,
                ExecutedWereOpened
  <2>6. CASE UNCHANGED governed
    BY <2>6 DEF governed, outcomes, ExecutedWereOpened
  <2> QED BY <2>1, <2>2, <2>3, <2>4, <2>5, <2>6 DEF Next
<1> QED BY <1>1, <1>2, PTL DEF Spec

=============================================================================
