--------------------------- MODULE Gateway_proofs ---------------------------
(***************************************************************************)
(* Proofs about Gateway, for every value of its constants: no bound on the *)
(* agents, servers, tools, sessions, requests and restarts.                *)
(***************************************************************************)
EXTENDS Gateway, TLAPS

-----------------------------------------------------------------------------
(* What a sync makes of a policy.                                          *)

(* Merging default actions into a policy gives a policy.                   *)
LEMMA MergeIsPolicy ==
    ASSUME NEW doc, IsPolicy(doc), NEW s \in Servers, NEW risks,
           DOMAIN risks \subseteq Tools
    PROVE  IsPolicy(MergeDefaultActions(doc, s, risks))
<1> DEFINE found == {<<AllAgents, s, t>> : t \in DOMAIN risks}
           new == MergeDefaultActions(doc, s, risks)
<1>1. found \subseteq CfgKeys
  BY DEF CfgKeys, Scopes, ToolKeys
<1>2. DOMAIN new = DOMAIN doc \cup found
  BY DEF MergeDefaultActions
<1>3. ASSUME NEW k \in DOMAIN new PROVE new[k] \in Cfgs
  <2>1. CASE k \in DOMAIN doc
    BY <2>1, <1>3 DEF MergeDefaultActions, IsPolicy
  <2>2. CASE k \notin DOMAIN doc
    <3>1. new[k] = [action |-> DefaultAction(risks[k[3]]), rules |-> << >>]
      BY <2>2, <1>3 DEF MergeDefaultActions
    <3>2. DefaultAction(risks[k[3]]) \in YamlActions
      BY DEF DefaultAction, YamlActions, ActionNames
    <3> QED BY <3>1, <3>2 DEF Cfgs
  <2> QED BY <2>1, <2>2
<1>4. new = [k \in DOMAIN new |-> new[k]]
  BY DEF MergeDefaultActions
<1> HIDE DEF new
<1>5. new \in [DOMAIN new -> Cfgs]
  BY <1>3, <1>4
<1> QED
  BY <1>1, <1>2, <1>5 DEF IsPolicy, new

-----------------------------------------------------------------------------
(* Counting rows.                                                          *)

(* One row more under a label and a call, and no other count changes.      *)
LEMMA OneRowMore ==
    ASSUME NEW rows \in [Labels -> [Calls -> Nat]],
           NEW l \in Labels, NEW c \in Calls
    PROVE  LET more == [rows EXCEPT ![l][c] = rows[l][c] + 1]
           IN  /\ more \in [Labels -> [Calls -> Nat]]
               /\ \A k \in Labels, d \in Calls :
                     more[k][d] = IF k = l /\ d = c THEN rows[k][d] + 1
                                  ELSE rows[k][d]
<1> DEFINE of == [rows[l] EXCEPT ![c] = rows[l][c] + 1]
           more == [rows EXCEPT ![l] = of]
<1>1. of \in [Calls -> Nat]
  OBVIOUS
<1>2. \A d \in Calls : of[d] = IF d = c THEN rows[l][d] + 1 ELSE rows[l][d]
  OBVIOUS
<1> HIDE DEF of
<1>3. more \in [Labels -> [Calls -> Nat]]
  BY <1>1
<1>4. \A k \in Labels : more[k] = IF k = l THEN of ELSE rows[k]
  OBVIOUS
<1> HIDE DEF more
<1>5. \A k \in Labels, d \in Calls :
         more[k][d] = IF k = l /\ d = c THEN rows[k][d] + 1 ELSE rows[k][d]
  BY <1>2, <1>4
<1> QED BY <1>3, <1>5 DEF more, of

-----------------------------------------------------------------------------
(* Types.                                                                  *)

CallPCs == {"read_policy", "decide", "log", "forward", "commit", "reply"}

(* What the handler's local variables hold at each point.                  *)
HandlerShape ==
    /\ pc # "idle" => req \in Requests
    /\ pc \in CallPCs => CallOf(req) \in Calls
    /\ pc \in {"log", "forward", "commit", "reply"} => decision \in ActionNames
    /\ pc = "forward" => decision = "allow"

Shape == TypeOK /\ HandlerShape

LEMMA OpensAreCalls == ASSUME NEW doc PROVE Opens(doc) \subseteq Calls
BY DEF Opens

LEMMA ShapeInit == Init => Shape
<1> SUFFICES ASSUME Init PROVE Shape
  OBVIOUS
<1>1. IsPolicy(policy)
  BY GatewayAssumption DEF Init
<1>2. audit \in [Labels -> [Calls -> Nat]]
  BY DEF Init, NoCalls
<1>3. listing \in [todo : SUBSET Tools, visible : SUBSET Tools,
                   reported : SUBSET Tools]
  BY DEF Init, NoListing
<1>4. TypeOK
  BY <1>1, <1>2, <1>3, OpensAreCalls DEF Init, TypeOK, NoCalls, PCs, ActionNames
<1>5. HandlerShape
  BY DEF Init, HandlerShape, CallPCs
<1> QED BY <1>4, <1>5 DEF Shape

LEMMA ShapeReceive ==
    ASSUME Shape, NEW next \in {"authenticate", "read_policy", "list"},
           NEW s \in Servers, NEW a \in Agents, NEW t \in Tools \cup {None},
           NEW args \in Args \cup {None}, Receive(next, s, a, t, args),
           next = "read_policy" => t \in Tools
    PROVE  Shape'
<1>1. req' \in Requests
  BY DEF Receive, Requests
<1>2. next = "read_policy" => CallOf(req') \in Calls
  BY DEF Receive, CallOf, Calls
<1>3. TypeOK'
  BY <1>1 DEF Receive, Shape, TypeOK, tables, outcomes, store, PCs
<1>4. HandlerShape'
  BY <1>1, <1>2 DEF Receive, Shape, HandlerShape, CallPCs, CallOf
<1> QED BY <1>3, <1>4 DEF Shape

(* What Commit does to the counts of rows.                                 *)
LEMMA CommitCounts ==
    ASSUME Shape, Commit
    PROVE  /\ audit' \in [Labels -> [Calls -> Nat]]
           /\ approvals' \in [Calls -> Nat]
           /\ \A k \in Labels, d \in Calls :
                 audit'[k][d] = IF k = LabelOf(decision) /\ d = CallOf(req)
                                THEN audit[k][d] + 1 ELSE audit[k][d]
           /\ \A d \in Calls :
                 approvals'[d] = IF decision = "require_approval" /\ d = CallOf(req)
                                 THEN approvals[d] + 1 ELSE approvals[d]
<1>1. decision \in ActionNames /\ CallOf(req) \in Calls
  BY DEF Commit, Step, Shape, HandlerShape, CallPCs
<1>2. LabelOf(decision) \in Labels
  BY <1>1 DEF LabelOf, Labels, ActionNames
<1>3. audit \in [Labels -> [Calls -> Nat]] /\ approvals \in [Calls -> Nat]
  BY DEF Shape, TypeOK
<1> DEFINE l == LabelOf(decision)
           c == CallOf(req)
<1>4. audit' = [audit EXCEPT ![l][c] = audit[l][c] + 1]
  BY DEF Commit
<1>5. approvals' = IF decision = "require_approval"
                   THEN [approvals EXCEPT ![c] = approvals[c] + 1]
                   ELSE approvals
  BY DEF Commit
<1>6. l \in Labels /\ c \in Calls
  BY <1>1, <1>2
<1> HIDE DEF l, c
<1>7. /\ audit' \in [Labels -> [Calls -> Nat]]
      /\ \A k \in Labels, d \in Calls :
            audit'[k][d] = IF k = l /\ d = c THEN audit[k][d] + 1
                           ELSE audit[k][d]
  BY <1>3, <1>4, <1>6, OneRowMore
<1>8. /\ approvals' \in [Calls -> Nat]
      /\ \A d \in Calls :
            approvals'[d] = IF decision = "require_approval" /\ d = c
                            THEN approvals[d] + 1 ELSE approvals[d]
  BY <1>3, <1>5, <1>6
<1> QED BY <1>7, <1>8 DEF l, c

LEMMA ShapeCommit == Shape /\ Commit => Shape'
<1> SUFFICES ASSUME Shape, Commit PROVE Shape'
  OBVIOUS
<1>1. audit' \in [Labels -> [Calls -> Nat]] /\ approvals' \in [Calls -> Nat]
  BY CommitCounts
<1>2. decision \in ActionNames /\ CallOf(req) \in Calls /\ req \in Requests
  BY DEF Commit, Step, Shape, HandlerShape, CallPCs
<1>3. /\ pc' = "reply"
      /\ UNCHANGED <<tables, req, admitted, quiet, bounds, policyRead, decision,
                     listing, executed, delivered, store>>
  BY DEF Commit, Step
<1>4. TypeOK'
  BY <1>1, <1>3 DEF Shape, TypeOK, tables, bounds, store, PCs
<1>5. HandlerShape'
  BY <1>2, <1>3 DEF HandlerShape, CallOf
<1> QED BY <1>4, <1>5 DEF Shape

(* A step of the handler.                                                  *)
LEMMA ShapeHandler == Shape /\ HandlerStep => Shape'
<1> SUFFICES ASSUME Shape, HandlerStep PROVE Shape'
  OBVIOUS
<1> USE DEF Shape, TypeOK, HandlerShape, CallPCs, PCs, tables, outcomes, store,
            bounds
<1>1. CASE Authenticate
  BY <1>1 DEF Authenticate, Step
<1>2. CASE RejectAgent
  BY <1>2 DEF RejectAgent, Finish, NoListing, ActionNames
<1>3. ASSUME NEW g \in SessionIds, Handshake(g) PROVE Shape'
  <2>1. [slug |-> req.slug, agent |-> req.agent] \in Sessions
    BY <1>3 DEF Handshake, Finish, Requests, Sessions
  <2>2. <<req.agent, req.slug>> \in Agents \X Servers
    BY <1>3 DEF Handshake, Finish, Requests
  <2> QED BY <1>3, <2>1, <2>2 DEF Handshake, Finish, NoListing, ActionNames
<1>4. CASE ReadPolicy("read_policy", "decide")
  BY <1>4 DEF ReadPolicy, Step, CallOf
<1>5. CASE ReadPolicy("list_policy", "list_trust")
  BY <1>5 DEF ReadPolicy, Step
<1>6. CASE Decide
  BY <1>6 DEF Decide, Step, CallOf
<1>7. CASE NoLabel
  BY <1>7 DEF NoLabel, Finish, NoListing, ActionNames
<1>8. CASE Log
  BY <1>8 DEF Log, Step, CallOf
<1>9. CASE Forward
  BY <1>9 DEF Forward, Execute, Step, CallOf
<1>10. CASE ForwardTimesOut
  BY <1>10 DEF ForwardTimesOut, Execute, Finish, NoListing, ActionNames
<1>11. CASE Commit
  BY <1>11, ShapeCommit
<1>12. CASE Reply
  BY <1>12 DEF Reply, Finish, NoListing, ActionNames
<1>13. CASE Raise
  BY <1>13 DEF Raise, Finish, NoListing, ActionNames
<1>14. CASE ReplyList
  BY <1>14 DEF ReplyList, Finish, NoListing, ActionNames
<1>15. ASSUME NEW reported \in SUBSET Tools, ListAnswered(reported) PROVE Shape'
  BY <1>15 DEF ListAnswered, Step
<1>16. ASSUME NEW t \in Tools, JudgeTool(t) PROVE Shape'
  BY <1>16 DEF JudgeTool, Step
<1> QED
  BY <1>1, <1>2, <1>3, <1>4, <1>5, <1>6, <1>7, <1>8, <1>9, <1>10, <1>11, <1>12,
     <1>13, <1>14, <1>15, <1>16 DEF HandlerStep

(* A step of an agent, an admin or the machine.                            *)
LEMMA ShapeEnvironment == Shape /\ Environment => Shape'
<1> SUFFICES ASSUME Shape, Environment PROVE Shape'
  OBVIOUS
<1> USE DEF Shape, TypeOK, HandlerShape, CallPCs, PCs, tables, handler, outcomes,
            store, bounds
<1>1. ASSUME NEW s \in Servers, NEW a \in Agents, ReceiveInitialize(s, a)
      PROVE  Shape'
  BY <1>1, ShapeReceive DEF ReceiveInitialize
<1>2. ASSUME NEW g \in SessionIds, NEW s \in Servers, ReceiveList(g, s)
      PROVE  Shape'
  <2>1. sessions[g].agent \in Agents
    BY <1>2 DEF ReceiveList, SessionOn, Sessions
  <2> QED BY <1>2, <2>1, ShapeReceive DEF ReceiveList
<1>3. ASSUME NEW g \in SessionIds, NEW s \in Servers, NEW t \in Tools,
             NEW args \in CallArgs, ReceiveCall(g, s, t, args)
      PROVE  Shape'
  <2>1. sessions[g].agent \in Agents
    BY <1>3 DEF ReceiveCall, SessionOn, Sessions
  <2>2. args \in Args
    BY GatewayAssumption
  <2> QED BY <1>3, <2>1, <2>2, ShapeReceive DEF ReceiveCall
<1>4. ASSUME NEW g \in SessionIds, CloseSession(g) PROVE Shape'
  BY <1>4 DEF CloseSession, CallOf
<1>5. ASSUME NEW a \in Agents, NEW status \in Statuses \cup {None},
             SetAgent(a, status)
      PROVE  Shape'
  BY <1>5 DEF SetAgent, AdminWrite, CallOf
<1>6. ASSUME NEW doc \in Documents, DeployPolicy(doc) PROVE Shape'
  <2>1. IsPolicy(doc)
    BY GatewayAssumption
  <2> QED BY <1>6, <2>1, OpensAreCalls DEF DeployPolicy, AdminWrite, CallOf
<1>7. ASSUME NEW s \in Servers, NEW endpoint \in Endpoints,
             SaveServer(s, endpoint)
      PROVE  Shape'
  BY <1>7 DEF SaveServer, AdminWrite, CallOf
<1>8. ASSUME NEW s \in Servers, NEW listed \in SUBSET Tools,
             DeleteServer(s, listed)
      PROVE  Shape'
  BY <1>8 DEF DeleteServer, AdminWrite, CallOf, TrustStates
<1>9. ASSUME NEW s \in Servers, NEW risks \in Discoveries,
             NEW status \in {"Verified", "Needs approval"},
             SyncServer(s, risks, status)
      PROVE  Shape'
  <2>1. IsPolicy(policy')
    BY <1>9, MergeIsPolicy, GatewayAssumption DEF SyncServer
  <2> QED BY <1>9, <2>1, OpensAreCalls DEF SyncServer, AdminWrite, CallOf, TrustStates
<1>10. CASE Restart
  BY <1>10 DEF Restart, NoListing, ActionNames
<1>11. ASSUME NEW a \in Agents,
              \/ \E status \in Statuses : RegisterAgent(a, status)
              \/ RemoveAgent(a)
              \/ ToggleStatus(a)
       PROVE  Shape'
  BY <1>11, <1>5 DEF RegisterAgent, RemoveAgent, ToggleStatus, Statuses
<1> QED
  BY <1>1, <1>2, <1>3, <1>4, <1>6, <1>7, <1>8, <1>9, <1>10, <1>11
  DEF Environment

LEMMA ShapeStep == Shape /\ [Next]_vars => Shape'
<1>1. Shape /\ UNCHANGED vars => Shape'
  BY DEF Shape, TypeOK, HandlerShape, CallOf, vars, tables, handler, outcomes,
         store, bounds
<1> QED BY <1>1, ShapeHandler, ShapeEnvironment DEF Next

LEMMA ShapeAlways == Spec => []Shape
BY ShapeInit, ShapeStep, PTL DEF Spec

(* Every variable has its type, whatever agents, admins, failures and      *)
(* restarts do; in particular no decision without a label is acted on and  *)
(* the policy in force is always a policy.  (mcp_gateway_service.py)       *)
THEOREM TypeCorrect == Spec => []TypeOK
<1>1. Shape => TypeOK
  BY DEF Shape
<1> QED BY <1>1, ShapeAlways, PTL

-----------------------------------------------------------------------------
(* The audit trail.                                                        *)

(* The handler is done with an allowed call c up to this point.            *)
At(point, c) ==
    IF pc = point /\ decision = "allow" /\ CallOf(req) = c THEN 1 ELSE 0

(* AuditBracketsExecution counts finished requests only.  The strengthening *)
(* accounts for the one in hand: executed and not committed yet, committed *)
(* and not delivered yet.                                                  *)
Brackets ==
    \A c \in Calls :
       /\ delivered[c] + At("reply", c) <= audit["Allowed"][c]
       /\ audit["Allowed"][c] + At("commit", c) <= executed[c]

(* Only four steps touch the counts; the others leave the handler where it *)
(* is or move it to a point that owes nothing.                             *)
LEMMA CountingSteps ==
    ASSUME Shape, [Next]_vars
    PROVE  \/ Forward \/ ForwardTimesOut \/ Commit \/ Reply
           \/ /\ UNCHANGED outcomes
              /\ \/ UNCHANGED <<pc, decision, req>>
                 \/ pc' \notin {"commit", "reply"}
                 \/ decision' # "allow"
<1> DEFINE Quiet == /\ UNCHANGED outcomes
                    /\ \/ UNCHANGED <<pc, decision, req>>
                       \/ pc' \notin {"commit", "reply"}
                       \/ decision' # "allow"
<1>1. CASE HandlerStep
  <2>1. CASE Authenticate \/ RejectAgent \/ \E g \in SessionIds : Handshake(g)
    BY <2>1 DEF Authenticate, RejectAgent, Handshake, Step, Finish
  <2>2. CASE \/ ReadPolicy("read_policy", "decide")
             \/ ReadPolicy("list_policy", "list_trust")
    BY <2>2 DEF ReadPolicy, Step
  <2>3. CASE Decide \/ NoLabel \/ Log
    BY <2>3 DEF Decide, NoLabel, Log, Step, Finish
  <2>4. CASE \/ Raise \/ ReplyList
             \/ \E reported \in SUBSET Tools : ListAnswered(reported)
             \/ \E t \in Tools : JudgeTool(t)
    BY <2>4 DEF Raise, ReplyList, ListAnswered, JudgeTool, Step, Finish
  <2> QED BY <1>1, <2>1, <2>2, <2>3, <2>4 DEF HandlerStep
<1>2. CASE Environment
  <2>1. CASE \/ \E s \in Servers, a \in Agents : ReceiveInitialize(s, a)
             \/ \E g \in SessionIds, s \in Servers : ReceiveList(g, s)
             \/ \E g \in SessionIds, s \in Servers, t \in Tools,
                   args \in CallArgs : ReceiveCall(g, s, t, args)
    BY <2>1 DEF ReceiveInitialize, ReceiveList, ReceiveCall, Receive
  <2>2. CASE Restart
    BY <2>2 DEF Restart
  <2>3. CASE \/ \E g \in SessionIds : CloseSession(g)
             \/ \E a \in Agents :
                   \/ \E status \in Statuses : RegisterAgent(a, status)
                   \/ RemoveAgent(a)
                   \/ ToggleStatus(a)
    BY <2>3 DEF CloseSession, RegisterAgent, RemoveAgent, ToggleStatus, SetAgent,
       AdminWrite, handler
  <2>4. CASE \/ \E doc \in Documents : DeployPolicy(doc)
             \/ \E s \in Servers, endpoint \in Endpoints : SaveServer(s, endpoint)
             \/ \E s \in Servers, listed \in SUBSET Tools :
                   DeleteServer(s, listed)
             \/ \E s \in Servers, risks \in Discoveries,
                   status \in {"Verified", "Needs approval"} :
                   SyncServer(s, risks, status)
    BY <2>4 DEF DeployPolicy, SaveServer, DeleteServer, SyncServer, AdminWrite,
       handler
  <2> QED BY <1>2, <2>1, <2>2, <2>3, <2>4 DEF Environment
<1>3. CASE UNCHANGED vars
  BY <1>3 DEF vars, handler
<1> QED BY <1>1, <1>2, <1>3 DEF Next

(* What executing the call in hand does to the count of executions.        *)
LEMMA ExecuteCounts ==
    ASSUME Shape, pc = "forward", Execute
    PROVE  /\ decision = "allow"
           /\ \A d \in Calls :
                 executed'[d] = IF d = CallOf(req) THEN executed[d] + 1
                                ELSE executed[d]
BY DEF Shape, TypeOK, HandlerShape, CallPCs, Execute

LEMMA BracketsInit == Init => Brackets
<1> SUFFICES ASSUME Init PROVE Brackets
  OBVIOUS
<1>1. audit["Allowed"] = NoCalls
  BY DEF Init, Labels
<1> QED BY <1>1 DEF Init, Brackets, At, NoCalls

LEMMA BracketsStep == Shape /\ Brackets /\ [Next]_vars => Brackets'
<1> SUFFICES ASSUME Shape, Brackets, [Next]_vars, NEW c \in Calls
             PROVE  /\ delivered'[c] + At("reply", c)' <= audit'["Allowed"][c]
                    /\ audit'["Allowed"][c] + At("commit", c)' <= executed'[c]
  BY DEF Brackets
<1>1. /\ delivered[c] \in Nat /\ audit["Allowed"][c] \in Nat
      /\ executed[c] \in Nat
  BY DEF Shape, TypeOK, Labels
<1>2. /\ delivered[c] + At("reply", c) <= audit["Allowed"][c]
      /\ audit["Allowed"][c] + At("commit", c) <= executed[c]
  BY DEF Brackets
<1>3. CASE Forward
  <2>1. /\ pc = "forward" /\ pc' = "commit" /\ Execute
        /\ UNCHANGED <<req, decision, audit, delivered>>
    BY <1>3 DEF Forward, Step
  <2>2. /\ decision = "allow"
        /\ executed'[c] = IF c = CallOf(req) THEN executed[c] + 1 ELSE executed[c]
    BY <2>1, ExecuteCounts
  <2> QED BY <1>1, <1>2, <2>1, <2>2 DEF At, CallOf
<1>4. CASE ForwardTimesOut
  <2>1. /\ pc = "forward" /\ pc' = "idle" /\ Execute
        /\ UNCHANGED <<audit, delivered>>
    BY <1>4 DEF ForwardTimesOut, Finish
  <2>2. executed'[c] = IF c = CallOf(req) THEN executed[c] + 1 ELSE executed[c]
    BY <2>1, ExecuteCounts
  <2> QED BY <1>1, <1>2, <2>1, <2>2 DEF At
<1>5. CASE Commit
  <2>1. /\ pc = "commit" /\ pc' = "reply"
        /\ UNCHANGED <<req, decision, executed, delivered>>
    BY <1>5 DEF Commit, Step
  <2>2. decision \in ActionNames
    BY <2>1 DEF Shape, HandlerShape, CallPCs, TypeOK, Commit
  <2>3. LabelOf(decision) = "Allowed" <=> decision = "allow"
    BY <2>2 DEF LabelOf, ActionNames
  <2>4. audit'["Allowed"][c] = IF decision = "allow" /\ c = CallOf(req)
                               THEN audit["Allowed"][c] + 1
                               ELSE audit["Allowed"][c]
    BY <1>5, <2>3, CommitCounts DEF Labels
  <2> QED BY <1>1, <1>2, <2>1, <2>4 DEF At, CallOf
<1>6. CASE Reply
  <2>1. /\ pc = "reply" /\ pc' = "idle"
        /\ UNCHANGED <<audit, executed>>
        /\ delivered' = IF decision = "allow"
                        THEN [delivered EXCEPT ![CallOf(req)] = @ + 1]
                        ELSE delivered
    BY <1>6 DEF Reply, Finish
  <2>2. delivered'[c] = IF decision = "allow" /\ c = CallOf(req)
                        THEN delivered[c] + 1 ELSE delivered[c]
    BY <2>1 DEF Shape, TypeOK
  <2> QED BY <1>1, <1>2, <2>1, <2>2 DEF At
<1>7. CASE /\ UNCHANGED outcomes
           /\ \/ UNCHANGED <<pc, decision, req>>
              \/ pc' \notin {"commit", "reply"}
              \/ decision' # "allow"
  BY <1>1, <1>2, <1>7 DEF At, CallOf, outcomes
<1> QED BY <1>3, <1>4, <1>5, <1>6, <1>7, CountingSteps

(* Whatever fails, times out or is cut off by a restart: no agent has a    *)
(* result the trail does not show and the trail shows no call that did not *)
(* take place.  (_handle_tools_call, Database.connect)                     *)
THEOREM TrailIsHonest == Spec => []AuditBracketsExecution
<1>1. Shape /\ Brackets => AuditBracketsExecution
  BY DEF Shape, TypeOK, Labels, Brackets, AuditBracketsExecution, At
<1> QED BY <1>1, BracketsInit, BracketsStep, ShapeAlways, PTL DEF Spec

(* The approvals an admin finds and the Pending rows of the trail agree.   *)
(* (ApprovalRepository.create in the transaction of AuditRepository.log)   *)
THEOREM HeldCallsAreAudited == Spec => []ApprovalsAreAudited
<1>1. Init => ApprovalsAreAudited
  BY DEF Init, NoCalls, Labels, ApprovalsAreAudited
<1>2. Shape /\ ApprovalsAreAudited /\ [Next]_vars => ApprovalsAreAudited'
  <2> SUFFICES ASSUME Shape, ApprovalsAreAudited, [Next]_vars, NEW c \in Calls
               PROVE  approvals'[c] = audit'["Pending"][c]
    BY DEF ApprovalsAreAudited
  <2>1. approvals[c] = audit["Pending"][c]
    BY DEF ApprovalsAreAudited
  <2>2. CASE Commit
    <3>1. decision \in ActionNames
      BY <2>2 DEF Shape, HandlerShape, Commit, Step
    <3>2. LabelOf(decision) = "Pending" <=> decision = "require_approval"
      BY <3>1 DEF LabelOf, ActionNames
    <3> QED BY <2>1, <2>2, <3>2, CommitCounts DEF Labels
  <2>3. CASE Forward \/ ForwardTimesOut \/ Reply
    BY <2>1, <2>3 DEF Forward, ForwardTimesOut, Reply
  <2>4. CASE UNCHANGED outcomes
    BY <2>1, <2>4 DEF outcomes
  <2> QED BY <2>2, <2>3, <2>4, CountingSteps
<1> QED BY <1>1, <1>2, ShapeAlways, PTL DEF Spec

-----------------------------------------------------------------------------
(* Who gets in.                                                            *)

(* OnlyAdmittedAgents is inductive once the agents that are Active now     *)
(* count among the admitted: authentication reads the table of that moment.*)
Admission ==
    /\ \A a \in Agents : agents[a] = "Active" => a \in admitted
    /\ OnlyAdmittedAgents

LEMMA AdmissionStep == Shape /\ Admission /\ [Next]_vars => Admission'
<1> SUFFICES ASSUME Shape, Admission, [Next]_vars PROVE Admission'
  OBVIOUS
<1> USE DEF Admission, OnlyAdmittedAgents, tables, handler, outcomes, store, bounds
<1>1. CASE HandlerStep
  <2>1. CASE Authenticate
    <3>1. req.agent \in Agents
      BY <2>1 DEF Authenticate, Step, Shape, HandlerShape, Requests
    <3> QED BY <2>1, <3>1 DEF Authenticate, Step
  <2>2. CASE RejectAgent \/ NoLabel \/ ForwardTimesOut \/ Reply \/ Raise \/ ReplyList
    BY <2>2 DEF RejectAgent, NoLabel, ForwardTimesOut, Reply, Raise, ReplyList,
       Finish
  <2>3. ASSUME NEW g \in SessionIds, Handshake(g) PROVE Admission'
    <3>1. req.agent \in admitted
      BY <2>3 DEF Handshake, Finish
    <3>2. \A h \in SessionIds :
             sessions'[h] = IF h = g THEN [slug |-> req.slug, agent |-> req.agent]
                            ELSE sessions[h]
      BY <2>3 DEF Handshake, Shape, TypeOK
    <3>3. pc' = "idle" /\ UNCHANGED <<agents, admitted>>
      BY <2>3 DEF Handshake, Finish
    <3> QED BY <3>1, <3>2, <3>3
  <2>4. CASE \/ ReadPolicy("read_policy", "decide")
             \/ ReadPolicy("list_policy", "list_trust")
             \/ Decide \/ Log \/ Forward \/ Commit
             \/ \E reported \in SUBSET Tools : ListAnswered(reported)
             \/ \E t \in Tools : JudgeTool(t)
    BY <2>4 DEF ReadPolicy, Decide, Log, Forward, Commit, ListAnswered, JudgeTool,
       Step
  <2> QED BY <1>1, <2>1, <2>2, <2>3, <2>4 DEF HandlerStep
<1>2. CASE Environment
  <2>1. ASSUME NEW s \in Servers, NEW a \in Agents, ReceiveInitialize(s, a)
        PROVE  Admission'
    BY <2>1 DEF ReceiveInitialize, Receive
  <2>2. ASSUME NEW g \in SessionIds, NEW s \in Servers, ReceiveList(g, s)
        PROVE  Admission'
    BY <2>2 DEF ReceiveList, SessionOn, Receive
  <2>3. ASSUME NEW g \in SessionIds, NEW s \in Servers, NEW t \in Tools,
               NEW args \in CallArgs, ReceiveCall(g, s, t, args)
        PROVE  Admission'
    BY <2>3 DEF ReceiveCall, SessionOn, Receive
  <2>4. ASSUME NEW g \in SessionIds, CloseSession(g) PROVE Admission'
    BY <2>4 DEF CloseSession, Shape, TypeOK
  <2>5. ASSUME NEW a \in Agents, NEW status \in Statuses \cup {None},
               SetAgent(a, status)
        PROVE  Admission'
    BY <2>5 DEF SetAgent, AdminWrite, Shape, TypeOK
  <2>6. ASSUME NEW a \in Agents,
               \/ \E status \in Statuses : RegisterAgent(a, status)
               \/ RemoveAgent(a)
               \/ ToggleStatus(a)
        PROVE Admission'
    BY <2>6, <2>5 DEF RegisterAgent, RemoveAgent, ToggleStatus, Statuses
  <2>7. CASE \/ \E doc \in Documents : DeployPolicy(doc)
             \/ \E s \in Servers, endpoint \in Endpoints : SaveServer(s, endpoint)
             \/ \E s \in Servers, listed \in SUBSET Tools :
                   DeleteServer(s, listed)
             \/ \E s \in Servers, risks \in Discoveries,
                   status \in {"Verified", "Needs approval"} :
                   SyncServer(s, risks, status)
    BY <2>7 DEF DeployPolicy, SaveServer, DeleteServer, SyncServer, AdminWrite
  <2>8. CASE Restart
    BY <2>8 DEF Restart
  <2> QED BY <1>2, <2>1, <2>2, <2>3, <2>4, <2>6, <2>7, <2>8 DEF Environment
<1>3. CASE UNCHANGED vars
  BY <1>3 DEF vars
<1> QED BY <1>1, <1>2, <1>3 DEF Next

(* Every session, and every request past authentication, is an agent's     *)
(* that has been Active since the backend started.  (_handle_initialize)   *)
THEOREM SessionsAreAdmitted == Spec => []OnlyAdmittedAgents
<1>1. Init => Admission
  BY DEF Init, Admission, OnlyAdmittedAgents
<1>2. Admission => OnlyAdmittedAgents
  BY DEF Admission
<1> QED BY <1>1, <1>2, AdmissionStep, ShapeAlways, PTL DEF Spec

-----------------------------------------------------------------------------
(* Which servers a session is good for.                                    *)

(* InitializedFirst speaks of executions; what makes it so is that every   *)
(* session, and every call in hand, stems from such an initialize.         *)
Introduced ==
    /\ \A g \in SessionIds : sessions[g] # None =>
          <<sessions[g].agent, sessions[g].slug>> \in handshakes
    /\ pc \in CallPCs => <<req.agent, req.slug>> \in handshakes
    /\ InitializedFirst

LEMMA IntroducedStep == Shape /\ Introduced /\ [Next]_vars => Introduced'
<1> SUFFICES ASSUME Shape, Introduced, [Next]_vars PROVE Introduced'
  OBVIOUS
<1> USE DEF Introduced, CallPCs, tables, handler, outcomes, store, bounds
<1>1. CASE HandlerStep
  <2>1. CASE RejectAgent \/ NoLabel \/ Reply \/ Raise \/ ReplyList
    BY <2>1 DEF RejectAgent, NoLabel, Reply, Raise, ReplyList, Finish,
       InitializedFirst
  <2>2. ASSUME NEW g \in SessionIds, Handshake(g) PROVE Introduced'
    <3>1. \A h \in SessionIds :
             sessions'[h] = IF h = g THEN [slug |-> req.slug, agent |-> req.agent]
                            ELSE sessions[h]
      BY <2>2 DEF Handshake, Shape, TypeOK
    <3>2. /\ pc' = "idle" /\ UNCHANGED executed
          /\ handshakes' = handshakes \cup {<<req.agent, req.slug>>}
      BY <2>2 DEF Handshake, Finish
    <3>3. InitializedFirst'
      BY <3>2 DEF InitializedFirst
    <3> QED BY <3>1, <3>2, <3>3
  <2>3. CASE Forward \/ ForwardTimesOut
    <3>1. pc = "forward" /\ Execute /\ UNCHANGED <<sessions, handshakes>>
      BY <2>3 DEF Forward, ForwardTimesOut, Step, Finish
    <3>2. pc' \in CallPCs => UNCHANGED req
      BY <2>3 DEF Forward, ForwardTimesOut, Step, Finish
    <3>3. ASSUME NEW c \in Calls, executed'[c] > 0
          PROVE  <<c[1], c[2]>> \in handshakes
      <4>1. CASE c = CallOf(req)
        BY <4>1, <3>1 DEF CallOf
      <4>2. CASE c # CallOf(req)
        BY <4>2, <3>1, <3>3, ExecuteCounts DEF InitializedFirst
      <4> QED BY <4>1, <4>2
    <3> QED BY <3>1, <3>2, <3>3 DEF InitializedFirst
  <2>4. CASE \/ Authenticate
             \/ ReadPolicy("read_policy", "decide")
             \/ ReadPolicy("list_policy", "list_trust")
             \/ Decide \/ Log \/ Commit
             \/ \E reported \in SUBSET Tools : ListAnswered(reported)
             \/ \E t \in Tools : JudgeTool(t)
    BY <2>4 DEF Authenticate, ReadPolicy, Decide, Log, Commit, ListAnswered,
       JudgeTool, Step, InitializedFirst
  <2> QED BY <1>1, <2>1, <2>2, <2>3, <2>4 DEF HandlerStep
<1>2. CASE Environment
  <2> USE DEF InitializedFirst
  <2>1. ASSUME NEW s \in Servers, NEW a \in Agents, ReceiveInitialize(s, a)
        PROVE  Introduced'
    BY <2>1 DEF ReceiveInitialize, Receive
  <2>2. ASSUME NEW g \in SessionIds, NEW s \in Servers, ReceiveList(g, s)
        PROVE  Introduced'
    BY <2>2 DEF ReceiveList, SessionOn, Receive
  <2>3. ASSUME NEW g \in SessionIds, NEW s \in Servers, NEW t \in Tools,
               NEW args \in CallArgs, ReceiveCall(g, s, t, args)
        PROVE  Introduced'
    BY <2>3 DEF ReceiveCall, SessionOn, Receive
  <2>4. ASSUME NEW g \in SessionIds, CloseSession(g) PROVE Introduced'
    BY <2>4 DEF CloseSession, Shape, TypeOK
  <2>5. CASE \E a \in Agents :
                \/ \E status \in Statuses : RegisterAgent(a, status)
                \/ RemoveAgent(a)
                \/ ToggleStatus(a)
    BY <2>5 DEF RegisterAgent, RemoveAgent, ToggleStatus, SetAgent, AdminWrite
  <2>6. CASE \/ \E doc \in Documents : DeployPolicy(doc)
             \/ \E s \in Servers, endpoint \in Endpoints : SaveServer(s, endpoint)
             \/ \E s \in Servers, listed \in SUBSET Tools :
                   DeleteServer(s, listed)
             \/ \E s \in Servers, risks \in Discoveries,
                   status \in {"Verified", "Needs approval"} :
                   SyncServer(s, risks, status)
    BY <2>6 DEF DeployPolicy, SaveServer, DeleteServer, SyncServer, AdminWrite
  <2>7. CASE Restart
    BY <2>7 DEF Restart
  <2> QED BY <1>2, <2>1, <2>2, <2>3, <2>4, <2>5, <2>6, <2>7 DEF Environment
<1>3. CASE UNCHANGED vars
  BY <1>3 DEF vars, InitializedFirst
<1> QED BY <1>1, <1>2, <1>3 DEF Next

(* A call reaches a server only for an agent that completed an initialize  *)
(* on that very slug.  (GatewaySessionStore.get)                           *)
THEOREM CallsAreIntroduced == Spec => []InitializedFirst
<1>1. Init => Introduced
  BY DEF Init, Introduced, InitializedFirst, CallPCs, NoCalls
<1>2. Introduced => InitializedFirst
  BY DEF Introduced
<1> QED BY <1>1, <1>2, IntroducedStep, ShapeAlways, PTL DEF Spec

-----------------------------------------------------------------------------
(* Decisions and what they were read from.                                 *)

(* What the handler knows of a policy and a trust table that have not      *)
(* changed since the request came in.                                      *)
Current ==
    /\ pc = "decide" /\ quiet => policyRead = policy
    /\ DecisionIsCurrent

ListedSoFar ==
    listing.visible =
        {t \in listing.reported \ listing.todo :
            Evaluate(policy, req.agent, req.slug, t, NoArgs,
                     trust[req.slug][t]) # "deny"}

ListingCurrent ==
    /\ pc = "list_policy" => listing.todo = listing.reported /\ listing.visible = {}
    /\ pc = "list_trust" => listing.todo \subseteq listing.reported
    /\ pc = "list_trust" /\ quiet => policyRead = policy /\ ListedSoFar

(* An agent, an admin or the machine leaves the handler alone, hands it a  *)
(* request or ends it; a change of policy or trust under a request shows.  *)
LEMMA EnvironmentSteps ==
    ASSUME Environment
    PROVE  \/ pc = "idle" /\ pc' \in {"authenticate", "read_policy", "list"}
           \/ pc' = "idle"
           \/ UNCHANGED handler /\ (quiet' => UNCHANGED <<policy, trust, quiet>>)
<1> DEFINE Goal == \/ pc = "idle" /\ pc' \in {"authenticate", "read_policy", "list"}
                   \/ pc' = "idle"
                   \/ /\ UNCHANGED handler
                      /\ quiet' => UNCHANGED <<policy, trust, quiet>>
<1> USE DEF tables, handler
<1>1. CASE \/ \E s \in Servers, a \in Agents : ReceiveInitialize(s, a)
           \/ \E g \in SessionIds, s \in Servers : ReceiveList(g, s)
           \/ \E g \in SessionIds, s \in Servers, t \in Tools,
                 args \in CallArgs : ReceiveCall(g, s, t, args)
  BY <1>1 DEF ReceiveInitialize, ReceiveList, ReceiveCall, Receive
<1>2. CASE Restart \/ \E g \in SessionIds : CloseSession(g)
  BY <1>2 DEF Restart, CloseSession
<1>3. CASE \/ \E a \in Agents :
                 \/ \E status \in Statuses : RegisterAgent(a, status)
                 \/ RemoveAgent(a)
                 \/ ToggleStatus(a)
           \/ \E s \in Servers, endpoint \in Endpoints : SaveServer(s, endpoint)
  BY <1>3 DEF RegisterAgent, RemoveAgent, ToggleStatus, SetAgent, SaveServer,
     AdminWrite
<1>4. CASE \/ \E doc \in Documents : DeployPolicy(doc)
           \/ \E s \in Servers, listed \in SUBSET Tools : DeleteServer(s, listed)
           \/ \E s \in Servers, risks \in Discoveries,
                 status \in {"Verified", "Needs approval"} :
                 SyncServer(s, risks, status)
  BY <1>4 DEF DeployPolicy, DeleteServer, SyncServer, AdminWrite
<1> QED BY <1>1, <1>2, <1>3, <1>4 DEF Environment

LEMMA CurrentStep == Shape /\ Current /\ [Next]_vars => Current'
<1> SUFFICES ASSUME Current, [Next]_vars PROVE Current'
  OBVIOUS
<1> USE DEF Current, DecisionIsCurrent, tables
<1>1. CASE HandlerStep
  <2>1. CASE Authenticate \/ \E reported \in SUBSET Tools : ListAnswered(reported)
             \/ \E t \in Tools : JudgeTool(t)
    BY <2>1 DEF Authenticate, ListAnswered, JudgeTool, Step
  <2>2. CASE \/ RejectAgent \/ \E g \in SessionIds : Handshake(g)
             \/ NoLabel \/ ForwardTimesOut \/ Reply \/ Raise \/ ReplyList
    BY <2>2 DEF RejectAgent, Handshake, NoLabel, ForwardTimesOut, Reply, Raise,
       ReplyList, Finish
  <2>3. CASE \/ ReadPolicy("read_policy", "decide")
             \/ ReadPolicy("list_policy", "list_trust")
    BY <2>3 DEF ReadPolicy, Step
  <2>4. CASE Decide
    BY <2>4 DEF Decide, DecisionNow, Step
  <2>5. CASE Log \/ Forward \/ Commit
    BY <2>5 DEF Log, Forward, Commit, Step
  <2> QED BY <1>1, <2>1, <2>2, <2>3, <2>4, <2>5 DEF HandlerStep
<1>2. CASE Environment
  BY <1>2, EnvironmentSteps DEF handler
<1>3. CASE UNCHANGED vars
  BY <1>3 DEF vars, handler
<1> QED BY <1>1, <1>2, <1>3 DEF Next

(* A deploy or a sync counts for every call received after it: while       *)
(* policy and trust stay as they were when a call came in, the decision    *)
(* enforced on it is the one they call for.  (_handle_tools_call)          *)
THEOREM DecisionsAreCurrent == Spec => []DecisionIsCurrent
<1>1. Init => Current
  BY DEF Init, Current, DecisionIsCurrent
<1>2. Current => DecisionIsCurrent
  BY DEF Current
<1> QED BY <1>1, <1>2, CurrentStep, ShapeAlways, PTL DEF Spec

LEMMA ListingStep == Shape /\ ListingCurrent /\ [Next]_vars => ListingCurrent'
<1> SUFFICES ASSUME Shape, ListingCurrent, [Next]_vars PROVE ListingCurrent'
  OBVIOUS
<1> USE DEF ListingCurrent, tables
<1>1. CASE HandlerStep
  <2>1. CASE \/ Authenticate \/ ReadPolicy("read_policy", "decide")
             \/ Decide \/ Log \/ Forward \/ Commit
    BY <2>1 DEF Authenticate, ReadPolicy, Decide, Log, Forward, Commit, Step
  <2>2. CASE \/ RejectAgent \/ \E g \in SessionIds : Handshake(g)
             \/ NoLabel \/ ForwardTimesOut \/ Reply \/ Raise \/ ReplyList
    BY <2>2 DEF RejectAgent, Handshake, NoLabel, ForwardTimesOut, Reply, Raise,
       ReplyList, Finish
  <2>3. ASSUME NEW reported \in SUBSET Tools, ListAnswered(reported)
        PROVE  ListingCurrent'
    BY <2>3 DEF ListAnswered, Step
  <2>4. CASE ReadPolicy("list_policy", "list_trust")
    BY <2>4 DEF ReadPolicy, Step, ListedSoFar
  <2>5. ASSUME NEW t \in Tools, JudgeTool(t) PROVE ListingCurrent'
    <3> DEFINE shown(u) == Evaluate(policy, req.agent, req.slug, u, NoArgs,
                                    trust[req.slug][u]) # "deny"
    <3>1. /\ pc = "list_trust" /\ pc' = "list_trust" /\ t \in listing.todo
          /\ UNCHANGED <<policy, trust, req, quiet, policyRead>>
      BY <2>5 DEF JudgeTool, Step
    <3>2. /\ listing'.reported = listing.reported
          /\ listing'.todo = listing.todo \ {t}
          /\ listing'.visible =
               IF Evaluate(policyRead, req.agent, req.slug, t, NoArgs,
                           trust[req.slug][t]) # "deny"
               THEN listing.visible \cup {t} ELSE listing.visible
      BY <2>5 DEF JudgeTool, Shape, TypeOK
    <3>3. ASSUME quiet PROVE policyRead' = policy' /\ ListedSoFar'
      <4>1. /\ policyRead = policy
            /\ listing.visible = {u \in listing.reported \ listing.todo : shown(u)}
        BY <3>1, <3>3 DEF ListedSoFar
      <4>2. listing'.visible = IF shown(t) THEN listing.visible \cup {t}
                               ELSE listing.visible
        BY <3>2, <4>1
      <4>3. ListedSoFar' <=> listing'.visible =
                  {u \in listing'.reported \ listing'.todo : shown(u)}
        BY <3>1 DEF ListedSoFar
      <4>4. t \in listing.reported
        BY <3>1
      <4> HIDE DEF shown
      <4>5. listing'.visible =
                  {u \in listing'.reported \ listing'.todo : shown(u)}
        BY <3>1, <3>2, <4>1, <4>2, <4>4
      <4> QED BY <3>1, <4>1, <4>3, <4>5
    <3> QED BY <3>1, <3>2, <3>3
  <2> QED BY <1>1, <2>1, <2>2, <2>3, <2>4, <2>5 DEF HandlerStep
<1>2. CASE Environment
  BY <1>2, EnvironmentSteps DEF handler, ListedSoFar
<1>3. CASE UNCHANGED vars
  BY <1>3 DEF vars, handler, ListedSoFar
<1> QED BY <1>1, <1>2, <1>3 DEF Next

(* The listing an agent gets, judged tool by tool with a SELECT each, is   *)
(* the tools not denied to it, when policy and trust hold still meanwhile. *)
(* (_handle_tools_list)                                                    *)
THEOREM ListingsAreCurrent == Spec => []ListingIsCurrent
<1>1. Init => ListingCurrent
  BY DEF Init, ListingCurrent
<1>2. ListingCurrent => ListingIsCurrent
  BY DEF ListingCurrent, ListedSoFar, ListingIsCurrent
<1> QED BY <1>1, <1>2, ListingStep, ShapeAlways, PTL DEF Spec

-----------------------------------------------------------------------------
(* What the gateway does with a call, seen from outside.                   *)

(* Every allowed call that is not executed yet was opened by a policy: by  *)
(* the one in force or by an earlier one, which the handler has read.      *)
OpenedCalls ==
    /\ Opens(policy) \subseteq opened
    /\ pc \in {"read_policy", "decide"} => req.args \in CallArgs
    /\ pc = "decide" => Opens(policyRead) \subseteq opened
    /\ pc \in {"log", "forward"} /\ decision = "allow" => CallOf(req) \in opened

(* A decision to allow a call is the policy's own.                         *)
LEMMA AllowedIsOpen ==
    ASSUME NEW doc, NEW c \in Calls, NEW args \in CallArgs,
           NEW status \in TrustStates,
           Evaluate(doc, c[1], c[2], c[3], args, status) = "allow"
    PROVE  c \in Opens(doc)
BY DEF Opens

LEMMA HandlerKeepsTables == HandlerStep => UNCHANGED tables
BY DEF HandlerStep, Authenticate, RejectAgent, Handshake, ReadPolicy, Decide,
       NoLabel, Log, Forward, ForwardTimesOut, Commit, Reply, Raise, ReplyList,
       ListAnswered, JudgeTool, Step, Finish

LEMMA OpenedGrows ==
    ASSUME OpenedCalls, [Next]_vars
    PROVE  opened \subseteq opened' /\ Opens(policy') \subseteq opened'
<1> USE DEF OpenedCalls, tables
<1>1. CASE HandlerStep
  BY <1>1, HandlerKeepsTables
<1>2. CASE \/ \E s \in Servers, a \in Agents : ReceiveInitialize(s, a)
           \/ \E g \in SessionIds, s \in Servers : ReceiveList(g, s)
           \/ \E g \in SessionIds, s \in Servers, t \in Tools,
                 args \in CallArgs : ReceiveCall(g, s, t, args)
           \/ \E g \in SessionIds : CloseSession(g)
           \/ Restart
  BY <1>2 DEF ReceiveInitialize, ReceiveList, ReceiveCall, Receive, CloseSession,
     Restart
<1>3. CASE \/ \E a \in Agents :
                 \/ \E status \in Statuses : RegisterAgent(a, status)
                 \/ RemoveAgent(a)
                 \/ ToggleStatus(a)
           \/ \E s \in Servers, endpoint \in Endpoints : SaveServer(s, endpoint)
           \/ \E s \in Servers, listed \in SUBSET Tools : DeleteServer(s, listed)
  BY <1>3 DEF RegisterAgent, RemoveAgent, ToggleStatus, SetAgent, SaveServer,
     DeleteServer
<1>4. CASE \/ \E doc \in Documents : DeployPolicy(doc)
           \/ \E s \in Servers, risks \in Discoveries,
                 status \in {"Verified", "Needs approval"} :
                 SyncServer(s, risks, status)
  BY <1>4 DEF DeployPolicy, SyncServer
<1>5. CASE UNCHANGED vars
  BY <1>5 DEF vars
<1> QED BY <1>1, <1>2, <1>3, <1>4, <1>5 DEF Next, Environment

LEMMA OpenedStep == Shape /\ OpenedCalls /\ [Next]_vars => OpenedCalls'
<1> SUFFICES ASSUME Shape, OpenedCalls, [Next]_vars PROVE OpenedCalls'
  OBVIOUS
<1>0. opened \subseteq opened' /\ Opens(policy') \subseteq opened'
  BY OpenedGrows
<1> USE <1>0 DEF OpenedCalls
<1>1. CASE HandlerStep
  <2>1. CASE Decide
    <3>1. /\ pc = "decide" /\ pc' = "log" /\ decision' = DecisionNow
          /\ UNCHANGED <<req, opened>>
      BY <2>1 DEF Decide, Step, tables
    <3>2. /\ CallOf(req) \in Calls /\ req \in Requests /\ req.args \in CallArgs
          /\ CallOf(req)[1] = req.agent /\ CallOf(req)[2] = req.slug
          /\ CallOf(req)[3] = req.tool
      BY <3>1 DEF Shape, HandlerShape, CallPCs, CallOf
    <3>3. trust[req.slug][req.tool] \in TrustStates
      BY <3>2 DEF Shape, TypeOK, CallOf, Calls
    <3>4. DecisionNow = "allow" => CallOf(req) \in Opens(policyRead)
      BY <3>2, <3>3, AllowedIsOpen DEF DecisionNow
    <3> QED BY <3>1, <3>4 DEF CallOf
  <2>2. CASE ReadPolicy("read_policy", "decide")
    BY <2>2 DEF ReadPolicy, Step, tables
  <2>3. CASE Log
    BY <2>3 DEF Log, Step, CallOf
  <2>4. CASE pc' \notin {"read_policy", "decide", "log", "forward"}
    BY <2>4
  <2>5. \/ Decide \/ ReadPolicy("read_policy", "decide") \/ Log
        \/ pc' \notin {"read_policy", "decide", "log", "forward"}
    BY <1>1 DEF HandlerStep, Authenticate, RejectAgent, Handshake, ReadPolicy,
       NoLabel, Forward, ForwardTimesOut, Commit, Reply, Raise, ReplyList,
       ListAnswered, JudgeTool, Step, Finish
  <2> QED BY <2>1, <2>2, <2>3, <2>4, <2>5
<1>2. CASE Environment
  <2>1. CASE \E g \in SessionIds, s \in Servers, t \in Tools,
                args \in CallArgs : ReceiveCall(g, s, t, args)
    BY <2>1 DEF ReceiveCall, Receive
  <2>2. CASE \/ \E s \in Servers, a \in Agents : ReceiveInitialize(s, a)
             \/ \E g \in SessionIds, s \in Servers : ReceiveList(g, s)
    BY <2>2 DEF ReceiveInitialize, ReceiveList, Receive
  <2>3. CASE pc' = "idle" \/ UNCHANGED handler
    BY <2>3 DEF handler, CallOf
  <2>4. \/ \E g \in SessionIds, s \in Servers, t \in Tools, args \in CallArgs :
              ReceiveCall(g, s, t, args)
        \/ \E s \in Servers, a \in Agents : ReceiveInitialize(s, a)
        \/ \E g \in SessionIds, s \in Servers : ReceiveList(g, s)
        \/ pc' = "idle" \/ UNCHANGED handler
    BY <1>2 DEF Environment, CloseSession, RegisterAgent, RemoveAgent, ToggleStatus,
       SetAgent, DeployPolicy, SaveServer, DeleteServer, SyncServer, AdminWrite,
       Restart
  <2> QED BY <2>1, <2>2, <2>3, <2>4
<1>3. CASE UNCHANGED vars
  BY <1>3 DEF vars, handler, CallOf
<1> QED BY <1>1, <1>2, <1>3 DEF Next

(* The call in hand, as GovernedCalls sees it.                             *)
CallInHand == IF Stage = "none" THEN None ELSE CallOf(req)

LEMMA GovernedHandler ==
    ASSUME Shape, OpenedCalls, HandlerStep
    PROVE  Governed!Next \/ UNCHANGED Governed!governed
<1> USE DEF Governed!outcomes, Governed!governed, Governed!End, outcomes, store
<1>0. UNCHANGED opened
  BY HandlerKeepsTables DEF tables
<1>1. ASSUME NEW g \in SessionIds, Handshake(g) PROVE Governed!Next
  <2>1. /\ Stage = "none" /\ Stage' = "none"
        /\ handshakes' = handshakes \cup {<<req.agent, req.slug>>}
        /\ UNCHANGED outcomes
    BY <1>1 DEF Handshake, Finish, Stage
  <2>2. req.agent \in Agents /\ req.slug \in Servers
    BY <1>1 DEF Handshake, Finish, Shape, HandlerShape, Requests
  <2>3. Governed!Introduce(req.agent, req.slug)
    BY <1>0, <2>1 DEF Governed!Introduce
  <2> QED BY <2>2, <2>3 DEF Governed!Next
<1>2. CASE Forward \/ ForwardTimesOut
  <2>1. /\ pc = "forward" /\ Execute
        /\ UNCHANGED <<handshakes, audit, approvals, delivered>>
    BY <1>2 DEF Forward, ForwardTimesOut, Step, Finish
  <2>2. decision = "allow" /\ CallOf(req) \in opened
    BY <2>1 DEF Shape, HandlerShape, OpenedCalls
  <2>3. Stage = "taken"
    BY <2>1 DEF Stage
  <2>4. \/ Stage' = "none"
        \/ Stage' = "executed" /\ CallOf(req)' = CallOf(req)
    BY <1>2, <2>2 DEF Forward, ForwardTimesOut, Step, Finish, Stage, CallOf
  <2>5. Governed!Execute
    BY <1>0, <2>1, <2>2, <2>3, <2>4 DEF Governed!Execute, Execute
  <2> QED BY <2>5 DEF Governed!Next
<1>3. CASE Commit
  <2>1. /\ pc = "commit" /\ pc' = "reply" /\ decision \in ActionNames
        /\ CallOf(req)' = CallOf(req)
        /\ UNCHANGED <<decision, handshakes, executed, delivered>>
        /\ audit' = [audit EXCEPT ![LabelOf(decision)][CallOf(req)] = @ + 1]
        /\ approvals' = IF decision = "require_approval"
                        THEN [approvals EXCEPT ![CallOf(req)] = @ + 1]
                        ELSE approvals
    BY <1>3 DEF Commit, Step, Shape, HandlerShape, CallOf
  <2>2. CASE decision = "allow"
    <3>1. Stage = "executed" /\ Stage' = "recorded" /\ LabelOf(decision) = "Allowed"
      BY <2>1, <2>2 DEF Stage, LabelOf
    <3>2. Governed!Record
      BY <1>0, <2>1, <2>2, <3>1 DEF Governed!Record, Governed!Add
    <3> QED BY <3>2 DEF Governed!Next
  <2>3. CASE decision = "deny"
    <3>1. Stage = "taken" /\ Stage' = "none" /\ LabelOf(decision) = "Denied"
      BY <2>1, <2>3 DEF Stage, LabelOf
    <3>2. Governed!Deny
      BY <1>0, <2>1, <2>3, <3>1 DEF Governed!Deny, Governed!Add
    <3> QED BY <3>2 DEF Governed!Next
  <2>4. CASE decision = "require_approval"
    <3>1. Stage = "taken" /\ Stage' = "none" /\ LabelOf(decision) = "Pending"
      BY <2>1, <2>4 DEF Stage, LabelOf
    <3>2. Governed!Hold
      BY <1>0, <2>1, <2>4, <3>1 DEF Governed!Hold, Governed!Add
    <3> QED BY <3>2 DEF Governed!Next
  <2> QED BY <2>1, <2>2, <2>3, <2>4 DEF ActionNames
<1>4. CASE Reply
  <2>1. /\ pc = "reply" /\ Stage' = "none"
        /\ UNCHANGED <<handshakes, audit, approvals, executed>>
        /\ delivered' = IF decision = "allow"
                        THEN [delivered EXCEPT ![CallOf(req)] = @ + 1]
                        ELSE delivered
    BY <1>4 DEF Reply, Finish, Stage
  <2>2. CASE decision = "allow"
    <3>1. Stage = "recorded"
      BY <2>1, <2>2 DEF Stage
    <3>2. Governed!Deliver
      BY <1>0, <2>1, <2>2, <3>1 DEF Governed!Deliver
    <3> QED BY <3>2 DEF Governed!Next
  <2>3. CASE decision # "allow"
    <3>1. Stage = "none"
      BY <2>1, <2>3 DEF Stage
    <3> QED BY <1>0, <2>1, <2>3, <3>1
  <2> QED BY <2>2, <2>3
<1>5. CASE NoLabel \/ Raise
  <2>1. /\ Stage \in {"taken", "none"} /\ Stage' = "none"
        /\ UNCHANGED <<outcomes, handshakes>>
    BY <1>5 DEF NoLabel, Raise, Finish, Stage
  <2>2. Stage = "taken" => Governed!Drop
    BY <1>0, <2>1 DEF Governed!Drop
  <2> QED BY <1>0, <2>1, <2>2 DEF Governed!Next
<1>6. CASE \/ Authenticate \/ RejectAgent
           \/ ReadPolicy("read_policy", "decide")
           \/ ReadPolicy("list_policy", "list_trust")
           \/ Decide \/ Log \/ ReplyList
           \/ \E reported \in SUBSET Tools : ListAnswered(reported)
           \/ \E t \in Tools : JudgeTool(t)
  <2>1. Stage' = Stage /\ (Stage # "none" => UNCHANGED req)
    BY <1>6 DEF Authenticate, RejectAgent, ReadPolicy, Decide, Log, ReplyList,
       ListAnswered, JudgeTool, Step, Finish, Stage
  <2>2. UNCHANGED <<outcomes, handshakes>>
    BY <1>6 DEF Authenticate, RejectAgent, ReadPolicy, Decide, Log, ReplyList,
       ListAnswered, JudgeTool
  <2> QED BY <1>0, <2>1, <2>2 DEF CallOf
<1> QED BY <1>1, <1>2, <1>3, <1>4, <1>5, <1>6 DEF HandlerStep

LEMMA GovernedEnvironment ==
    ASSUME Shape, OpenedCalls, Introduced, Environment
    PROVE  Governed!Next \/ UNCHANGED Governed!governed
<1> USE DEF Governed!outcomes, Governed!governed, Governed!End, outcomes, store
<1>1. ASSUME NEW g \in SessionIds, NEW s \in Servers, NEW t \in Tools,
             NEW args \in CallArgs, ReceiveCall(g, s, t, args)
      PROVE  Governed!Next
  <2>1. /\ sessions[g] # None /\ sessions[g].slug = s
        /\ pc = "idle" /\ pc' = "read_policy"
        /\ UNCHANGED <<outcomes, handshakes, opened>>
        /\ req' = [slug |-> s, agent |-> sessions[g].agent, tool |-> t, args |-> args]
    BY <1>1 DEF ReceiveCall, SessionOn, Receive, tables
  <2>2. sessions[g].agent \in Agents /\ <<sessions[g].agent, s>> \in handshakes
    BY <2>1 DEF Introduced, Shape, TypeOK, Sessions
  <2> DEFINE c == <<sessions[g].agent, s, t>>
  <2>3. c \in Governed!Calls /\ CallOf(req') = c
    BY <2>1, <2>2 DEF Governed!Calls, CallOf
  <2>4. Stage = "none" /\ Stage' = "taken"
    BY <2>1 DEF Stage
  <2>5. Governed!Take(c)
    BY <2>1, <2>2, <2>3, <2>4 DEF Governed!Take, CallOf
  <2> QED BY <2>3, <2>5 DEF Governed!Next
<1>2. CASE Restart
  <2>1. /\ Stage \in {"none", "taken", "executed", "recorded"} /\ Stage' = "none"
        /\ UNCHANGED <<outcomes, handshakes, opened>>
    BY <1>2 DEF Restart, Stage, tables
  <2>2. Stage # "none" => Governed!Drop
    BY <2>1 DEF Governed!Drop
  <2> QED BY <2>1, <2>2 DEF Governed!Next
<1>3. CASE \/ \E s \in Servers, a \in Agents : ReceiveInitialize(s, a)
           \/ \E g \in SessionIds, s \in Servers : ReceiveList(g, s)
  <2>1. /\ pc = "idle" /\ pc' \in {"authenticate", "list"}
        /\ UNCHANGED <<outcomes, handshakes, opened>>
    BY <1>3 DEF ReceiveInitialize, ReceiveList, Receive, tables
  <2>2. Stage = "none" /\ Stage' = "none"
    BY <2>1 DEF Stage
  <2> QED BY <2>1, <2>2
<1>4. CASE /\ UNCHANGED <<handler, outcomes, handshakes>>
           /\ opened \subseteq opened' /\ opened' \subseteq Calls
  <2>1. Stage' = Stage /\ CallOf(req)' = CallOf(req)
    BY <1>4 DEF handler, Stage, CallOf
  <2>2. Governed!Open
    BY <1>4, <2>1 DEF Governed!Open, Governed!Calls, Calls
  <2> QED BY <2>2 DEF Governed!Next
<1>5. opened \subseteq opened' /\ opened' \subseteq Calls
  BY OpenedGrows, ShapeStep DEF Next, Shape, TypeOK
<1>6. \/ \E g \in SessionIds, s \in Servers, t \in Tools, args \in CallArgs :
            ReceiveCall(g, s, t, args)
      \/ Restart
      \/ \E s \in Servers, a \in Agents : ReceiveInitialize(s, a)
      \/ \E g \in SessionIds, s \in Servers : ReceiveList(g, s)
      \/ UNCHANGED <<handler, outcomes, handshakes>>
  BY DEF Environment, CloseSession, RegisterAgent, RemoveAgent, ToggleStatus,
     SetAgent, DeployPolicy, SaveServer, DeleteServer, SyncServer, AdminWrite
<1> QED BY <1>1, <1>2, <1>3, <1>4, <1>5, <1>6

LEMMA GovernedInit == Init => Governed!Init /\ OpenedCalls
<1> SUFFICES ASSUME Init PROVE Governed!Init /\ OpenedCalls
  OBVIOUS
<1>1. Stage = "none"
  BY DEF Init, Stage
<1>2. opened \subseteq Calls
  BY OpensAreCalls DEF Init
<1> QED
  BY <1>1, <1>2
  DEF Init, OpenedCalls, Governed!Init, Governed!NoRows, Governed!Calls, Calls,
      NoCalls, Labels

(* Whatever agents, admins, failures and restarts do, the gateway treats   *)
(* every tool call as GovernedCalls says: it is taken from an agent that   *)
(* initialized on that server, executes only when a policy opened it, is   *)
(* delivered only when it is in the trail, and an approval is held and     *)
(* audited at once.  (_handle_tools_call)                                  *)
THEOREM CallsAreGoverned == Spec => ImplementsGovernedCalls
<1>1. Shape /\ OpenedCalls /\ Introduced /\ [Next]_vars
        => [Governed!Next]_(Governed!governed)
  <2>1. UNCHANGED vars => UNCHANGED Governed!governed
    BY DEF vars, tables, handler, outcomes, store, Governed!governed,
       Governed!outcomes, Stage, CallOf
  <2> QED BY <2>1, GovernedHandler, GovernedEnvironment DEF Next
<1>2. Init => Introduced
  BY DEF Init, Introduced, InitializedFirst, CallPCs, NoCalls
<1> QED
  BY <1>1, <1>2, GovernedInit, ShapeAlways, OpenedStep, IntroducedStep, PTL
  DEF Spec, ImplementsGovernedCalls, Governed!Spec

(* So no call reaches an upstream server that no policy in force so far    *)
(* lets through, or of an agent that never initialized on that server,     *)
(* however admins, syncs and the handler interleave.                       *)
(* (_handle_tools_call)                                                    *)
THEOREM OnlyOpenedCallsExecute == Spec => []Governed!ExecutedWereOpened
BY CallsAreGoverned, Governed!OnlyOpenedExecute DEF ImplementsGovernedCalls

-----------------------------------------------------------------------------
(* Every initialize and every tools/call is answered.                      *)

CallOrInitialize == CallPCs \cup {"authenticate", "handshake"}

(* The steps the handler may still take for one of them, at most.          *)
StepsLeft ==
    [p \in CallOrInitialize \cup {"idle"} |->
        CASE p = "idle" -> 0
          [] p \in {"reply", "handshake"} -> 1
          [] p \in {"commit", "authenticate"} -> 2
          [] p = "forward" -> 3
          [] p = "log" -> 4
          [] p = "decide" -> 5
          [] p = "read_policy" -> 6]

Within(n) == StepsLeft[pc] <= n

LEMMA StepsLeftValues ==
    /\ \A p \in CallOrInitialize \cup {"idle"} :
          StepsLeft[p] \in 0..6 /\ (StepsLeft[p] = 0 <=> p = "idle")
    /\ StepsLeft["reply"] = 1 /\ StepsLeft["handshake"] = 1
    /\ StepsLeft["commit"] = 2 /\ StepsLeft["authenticate"] = 2
    /\ StepsLeft["forward"] = 3 /\ StepsLeft["log"] = 4
    /\ StepsLeft["decide"] = 5 /\ StepsLeft["read_policy"] = 6
BY DEF StepsLeft, CallOrInitialize, CallPCs

(* The handler never goes back.                                            *)
LEMMA StepsAreSpent ==
    ASSUME pc \in CallOrInitialize, HandlerStep
    PROVE  /\ pc' \in CallOrInitialize \cup {"idle"}
           /\ StepsLeft[pc'] < StepsLeft[pc]
<1> USE StepsLeftValues DEF CallOrInitialize, CallPCs
<1>1. CASE Authenticate
  BY <1>1 DEF Authenticate, Step
<1>2. CASE ReadPolicy("read_policy", "decide")
  BY <1>2 DEF ReadPolicy, Step
<1>3. CASE Decide
  BY <1>3 DEF Decide, Step
<1>4. CASE Log
  BY <1>4 DEF Log, Step
<1>5. CASE Forward
  BY <1>5 DEF Forward, Step
<1>6. CASE Commit
  BY <1>6 DEF Commit, Step
<1>7. CASE pc' = "idle"
  BY <1>7
<1> QED
  BY <1>1, <1>2, <1>3, <1>4, <1>5, <1>6, <1>7
  DEF HandlerStep, RejectAgent, Handshake, ReadPolicy, NoLabel, ForwardTimesOut,
      Reply, Raise, ReplyList, ListAnswered, JudgeTool, Step, Finish

(* Nobody else moves it, but a restart, which ends the request.            *)
LEMMA StepsAreKept ==
    ASSUME pc \in CallOrInitialize, [Next]_vars, pc' # "idle"
    PROVE  /\ pc' \in CallOrInitialize
           /\ StepsLeft[pc'] <= StepsLeft[pc]
<1>1. CASE HandlerStep
  BY <1>1, StepsAreSpent, StepsLeftValues
<1>2. CASE Environment
  BY <1>2, EnvironmentSteps, StepsLeftValues DEF handler, CallOrInitialize, CallPCs
<1>3. CASE UNCHANGED vars
  BY <1>3, StepsLeftValues DEF vars, handler
<1> QED BY <1>1, <1>2, <1>3 DEF Next

(* Every initialize and every tools/call gets its answer, whatever the     *)
(* upstream server and the admins do meanwhile, if the handler goes on     *)
(* while it has one: the event loop is free again.  (mcp_gateway_service)  *)
THEOREM CallsAreAnswered ==
    Spec /\ HandlerGoesOn => (pc \in CallOrInitialize ~> pc = "idle")
<1> DEFINE Busy == pc \in CallOrInitialize
           Idle == pc = "idle"
<1>1. Busy => ~Idle /\ Within(6)
  BY StepsLeftValues DEF Within, CallOrInitialize, CallPCs
<1>2. Busy /\ Within(0) => FALSE
  BY StepsLeftValues DEF Within, CallOrInitialize, CallPCs
<1>3. Busy /\ [Next]_vars /\ ~Idle' =>
        /\ Busy'
        /\ (Within(1) => Within(1)') /\ (Within(2) => Within(2)')
        /\ (Within(3) => Within(3)') /\ (Within(4) => Within(4)')
        /\ (Within(5) => Within(5)') /\ (Within(6) => Within(6)')
  BY StepsAreKept, StepsLeftValues DEF Within
<1>4. Busy /\ <<HandlerStep>>_vars =>
        /\ (Within(1) => Within(0)') /\ (Within(2) => Within(1)')
        /\ (Within(3) => Within(2)') /\ (Within(4) => Within(3)')
        /\ (Within(5) => Within(4)') /\ (Within(6) => Within(5)')
  BY StepsAreSpent, StepsLeftValues DEF Within
<1> QED BY <1>1, <1>2, <1>3, <1>4, PTL DEF Spec, HandlerGoesOn

=============================================================================
