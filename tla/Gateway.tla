------------------------------ MODULE Gateway -------------------------------
(***************************************************************************)
(* The MCP gateway of mcp_gateway_service.py: what happens to an agent's   *)
(* POST /mcp/{slug} while admins edit the tables it reads, the upstream    *)
(* server fails or times out, and the backend restarts.                    *)
(*                                                                         *)
(* The POST route is an async function that calls the service directly, so *)
(* the event loop runs one gateway request at a time: there is one handler *)
(* (pc, req, policyRead, decision, listing).  The admin routes run in a    *)
(* thread pool and interleave with it at every point where the handler     *)
(* reads the database or waits for the upstream server.  Each SELECT the   *)
(* handler makes before its first INSERT sees what is committed at that    *)
(* moment; from that INSERT to its commit the handler holds SQLite's write *)
(* lock, and an admin's write waits or fails.                              *)
(*                                                                         *)
(* audit, approvals and executed count rows and executions per call        *)
(* <<agent, server, tool>>: time, order and wording are abstracted.        *)
(***************************************************************************)
EXTENDS PolicyEngine

CONSTANTS
    SessionIds,  \* gateway session ids; uuids are never reused
    None,        \* no row, no session
    Documents,   \* the policies an admin may deploy
    CallArgs,    \* the arguments agents call tools with
    Discoveries, \* what a sync may discover: tools with their risks
    MaxRequests, \* bound: requests that reach a handler
    MaxRestarts  \* bound: restarts of the backend

Calls     == Agents \X Servers \X Tools
Labels    == {"Allowed", "Denied", "Pending"}
Statuses  == {"Active", "Suspended"}
Endpoints == {"http", "other"}
Sessions  == [slug : Servers, agent : Agents]
NoArgs    == [p \in Params |-> Missing]

(* tool and args are None in requests other than tools/call.               *)
Requests  == [slug : Servers, agent : Agents, tool : Tools \cup {None},
              args : Args \cup {None}]

ASSUME GatewayAssumption ==
    /\ CallArgs \subseteq Args
    /\ \A doc \in Documents : IsPolicy(doc)
    /\ \A risks \in Discoveries :
          DOMAIN risks \subseteq Tools /\ risks \in [DOMAIN risks -> Risks]
    /\ None \notin Statuses \cup Endpoints \cup Sessions
    /\ MaxRequests \in Nat /\ MaxRestarts \in Nat

VARIABLES
    agents,     \* agents[a]: the status column, None when there is no row
    servers,    \* servers[s]: "http" or "other" endpoint, None when no row
    policy,     \* settings.policy_yaml
    trust,      \* trust[s][t]: the trust_status of "s.t"
    opened,     \* history: calls that a policy in force so far allows
    audit,      \* audit[label][call]: committed rows of the audit table
    approvals,  \* approvals[call]: committed rows of the approvals table
    sessions,   \* sessions[g]: the store's GatewaySession, None when absent
    usedIds,    \* session ids handed out so far
    pc,         \* where the handler is
    req,        \* the request it handles, None when it is idle
    policyRead, \* the policy it read, None before it has
    decision,   \* the engine's decision; rows are uncommitted until Commit
    listing,    \* tools/list: the tools still to judge and the visible ones
    executed,   \* executed[call]: tools/call the upstream server executed
    delivered,  \* delivered[call]: upstream results the agent received
    handshakes, \* history: the <<agent, server>> pairs of initialize requests
                \* that the server at that slug answered
    admitted,   \* history: agents that were Active since the last restart
    quiet,      \* history: policy and trust are unchanged since req came in
    requests,   \* requests received so far, the model's bound
    restarts    \* restarts so far, the model's bound

tables   == <<agents, servers, policy, trust, opened>>
handler  == <<pc, req, policyRead, decision, listing>>
outcomes == <<audit, approvals, executed, delivered>>
store    == <<sessions, usedIds, handshakes>>
bounds   == <<requests, restarts>>
vars == <<tables, handler, outcomes, store, admitted, quiet, bounds>>

(* decision_label: an unknown decision has none, which is a KeyError.      *)
LabelOf(d) == CASE d = "allow" -> "Allowed"
                [] d = "deny" -> "Denied"
                [] d = "require_approval" -> "Pending"

NoListing == [todo |-> {}, visible |-> {}, reported |-> {}]

PCs == {"idle", "authenticate", "handshake", "read_policy", "decide", "log",
        "forward", "commit", "reply", "list", "list_policy", "list_trust"}

(* The handler's transaction holds the write lock.                         *)
WriteLocked == pc \in {"forward", "commit"}

CallOf(r) == <<r.agent, r.slug, r.tool>>

TypeOK ==
    /\ agents \in [Agents -> Statuses \cup {None}]
    /\ servers \in [Servers -> Endpoints \cup {None}]
    /\ IsPolicy(policy)
    /\ policyRead = None \/ IsPolicy(policyRead)
    /\ trust \in [Servers -> [Tools -> TrustStates]]
    /\ opened \subseteq Calls
    /\ audit \in [Labels -> [Calls -> Nat]]
    /\ approvals \in [Calls -> Nat]
    /\ sessions \in [SessionIds -> Sessions \cup {None}]
    /\ usedIds \subseteq SessionIds
    /\ pc \in PCs
    /\ req \in Requests \cup {None}
    /\ decision \in ActionNames \cup {"none"}
    /\ listing \in [todo : SUBSET Tools, visible : SUBSET Tools,
                    reported : SUBSET Tools]
    /\ executed \in [Calls -> Nat] /\ delivered \in [Calls -> Nat]
    /\ handshakes \subseteq Agents \X Servers
    /\ admitted \subseteq Agents
    /\ quiet \in BOOLEAN
    /\ requests \in Nat /\ restarts \in Nat

NoCalls == [c \in Calls |-> 0]

(* What a policy allows without asking anyone, for some arguments and some *)
(* trust in the tool.                                                      *)
Opens(doc) ==
    {c \in Calls : \E args \in CallArgs, status \in TrustStates :
                      Evaluate(doc, c[1], c[2], c[3], args, status) = "allow"}

(* A database as earlier runs and admins left it, or a fresh one.  Trust   *)
(* may hold records no route writes: Revoked is set in the database.       *)
Init ==
    /\ agents \in [Agents -> Statuses \cup {None}]
    /\ servers \in [Servers -> Endpoints \cup {None}]
    /\ policy \in Documents
    /\ trust \in [Servers -> [Tools -> TrustStates]]
    /\ opened = Opens(policy)
    /\ audit = [l \in Labels |-> NoCalls]
    /\ approvals = NoCalls
    /\ sessions = [g \in SessionIds |-> None]
    /\ usedIds = {}
    /\ pc = "idle"
    /\ req = None
    /\ policyRead = None
    /\ decision = "none"
    /\ listing = NoListing
    /\ executed = NoCalls /\ delivered = NoCalls
    /\ handshakes = {}
    /\ admitted = {a \in Agents : agents[a] = "Active"}
    /\ quiet = TRUE
    /\ requests = 0 /\ restarts = 0

-----------------------------------------------------------------------------
(* Requests.  A request that is turned away before the handler keeps       *)
(* anything (404 unknown server, 400 endpoint that is not http, 400        *)
(* unknown session) changes nothing and has no action.                     *)

Receive(next, s, a, t, args) ==
    /\ pc = "idle"
    /\ requests < MaxRequests
    /\ servers[s] = "http"
    /\ pc' = next
    /\ req' = [slug |-> s, agent |-> a, tool |-> t, args |-> args]
    /\ requests' = requests + 1
    /\ UNCHANGED <<tables, policyRead, decision, listing, outcomes, store,
                   admitted, quiet, restarts>>

(* Mutant of SessionOn: the slug is not compared.                          *)
SessionOnAny(g, s) == sessions[g] # None

(* GatewaySessionStore.get: the session must be of this slug.              *)
SessionOn(g, s) == sessions[g] # None /\ sessions[g].slug = s

(* initialize with the current key of agent a.  A missing, wrong or        *)
(* withdrawn key is a 401 without effect.                                  *)
ReceiveInitialize(s, a) == Receive("authenticate", s, a, None, None)

ReceiveCall(g, s, t, args) ==
    /\ SessionOn(g, s)
    /\ Receive("read_policy", s, sessions[g].agent, t, args)

ReceiveList(g, s) ==
    /\ SessionOn(g, s)
    /\ Receive("list", s, sessions[g].agent, None, None)

(* The handler goes on, or is done and its local variables are gone.       *)
Step(from, to) ==
    /\ pc = from
    /\ pc' = to
    /\ UNCHANGED <<tables, req, admitted, quiet, bounds>>

Finish(from) ==
    /\ pc = from
    /\ pc' = "idle" /\ req' = None /\ policyRead' = None
    /\ decision' = "none" /\ listing' = NoListing
    /\ quiet' = TRUE
    /\ UNCHANGED <<tables, admitted, bounds>>

-----------------------------------------------------------------------------
(* initialize.                                                             *)

(* Mutant of Authenticate: the status column is not looked at.             *)
AuthenticateAnyStatus ==
    /\ Step("authenticate", "handshake")
    /\ agents[req.agent] # None
    /\ UNCHANGED <<policyRead, decision, listing, outcomes, store>>

Authenticate ==
    /\ Step("authenticate", "handshake")
    /\ agents[req.agent] = "Active"
    /\ UNCHANGED <<policyRead, decision, listing, outcomes, store>>

(* No agent row has the key any more, or its agent is suspended: 401.      *)
RejectAgent ==
    /\ Finish("authenticate")
    /\ agents[req.agent] # "Active"
    /\ UNCHANGED <<outcomes, store>>

(* The upstream server answered initialize; uuid4 makes a fresh id.        *)
Handshake(g) ==
    /\ Finish("handshake")
    /\ g \notin usedIds
    /\ sessions' = [sessions EXCEPT
                      ![g] = [slug |-> req.slug, agent |-> req.agent]]
    /\ usedIds' = usedIds \cup {g}
    /\ handshakes' = handshakes \cup {<<req.agent, req.slug>>}
    /\ UNCHANGED outcomes

-----------------------------------------------------------------------------
(* tools/call.                                                             *)

ReadPolicy(from, to) ==
    /\ Step(from, to)
    /\ policyRead' = policy
    /\ UNCHANGED <<decision, listing, outcomes, store>>

(* Mutant of DecisionNow: the agent's overrides are ignored.               *)
DecisionOfDefaults == Evaluate(policyRead, AllAgents, req.slug, req.tool,
                               req.args, trust[req.slug][req.tool])

(* The trust SELECT and the evaluation.                                    *)
DecisionNow == Evaluate(policyRead, req.agent, req.slug, req.tool, req.args,
                        trust[req.slug][req.tool])

(* Mutant of Decide: the label is not looked up before the decision is     *)
(* acted on.                                                               *)
DecideUnlabelled ==
    /\ Step("decide", "log")
    /\ decision' = DecisionNow
    /\ UNCHANGED <<policyRead, listing, outcomes, store>>

Decide ==
    /\ Step("decide", "log")
    /\ DecisionNow \in ActionNames
    /\ decision' = DecisionNow
    /\ UNCHANGED <<policyRead, listing, outcomes, store>>

(* decision_label has no label for the decision: an error before anything  *)
(* is logged.                                                              *)
NoLabel ==
    /\ pc = "decide" /\ DecisionNow \notin ActionNames
    /\ Finish("decide")
    /\ UNCHANGED <<outcomes, store>>

(* Mutant of Log: the audit row is committed before the call is forwarded. *)
LogCommits ==
    /\ Step("log", IF decision = "allow" THEN "forward" ELSE "reply")
    /\ audit' = [audit EXCEPT ![LabelOf(decision)][CallOf(req)] = @ + 1]
    /\ UNCHANGED <<policyRead, decision, listing, approvals, executed,
                   delivered, store>>

(* Mutant of Log: a call that needs approval is held and forwarded.        *)
LogForwardingHeld ==
    /\ Step("log", IF decision # "deny" THEN "forward" ELSE "commit")
    /\ UNCHANGED <<policyRead, decision, listing, outcomes, store>>

(* The INSERT of the audit row takes the write lock; anomaly checks and,   *)
(* for require_approval, the approval row go into the same transaction.    *)
Log ==
    /\ Step("log", IF decision = "allow" THEN "forward" ELSE "commit")
    /\ UNCHANGED <<policyRead, decision, listing, outcomes, store>>

(* The upstream server executes the call and its result arrives.           *)
Execute == executed' = [executed EXCEPT ![CallOf(req)] = @ + 1]

Forward ==
    /\ Step("forward", "commit")
    /\ Execute
    /\ UNCHANGED <<policyRead, decision, listing, audit, approvals, delivered,
                   store>>

(* It executes the call and the result does not arrive within the timeout. *)
(* The exception leaves the connection's with block without a commit: the  *)
(* audit row is rolled back.                                               *)
ForwardTimesOut ==
    /\ Finish("forward")
    /\ Execute
    /\ UNCHANGED <<audit, approvals, delivered, store>>

Commit ==
    /\ Step("commit", "reply")
    /\ audit' = [audit EXCEPT ![LabelOf(decision)][CallOf(req)] = @ + 1]
    /\ approvals' = IF decision = "require_approval"
                    THEN [approvals EXCEPT ![CallOf(req)] = @ + 1]
                    ELSE approvals
    /\ UNCHANGED <<policyRead, decision, listing, executed, delivered, store>>

Reply ==
    /\ Finish("reply")
    /\ delivered' = IF decision = "allow"
                    THEN [delivered EXCEPT ![CallOf(req)] = @ + 1]
                    ELSE delivered
    /\ UNCHANGED <<audit, approvals, executed, store>>

(* An exception: the upstream server refuses or cannot be reached, the     *)
(* write lock is not had within the busy timeout, the alert rules do not   *)
(* parse.  Nothing is committed.                                           *)
Raise ==
    /\ pc \in {"handshake", "log", "forward", "list"}
    /\ Finish(pc)
    /\ UNCHANGED <<outcomes, store>>

-----------------------------------------------------------------------------
(* tools/list: ask upstream, read the policy, then judge each tool with    *)
(* its own trust SELECT.                                                   *)

ListAnswered(reported) ==
    /\ Step("list", "list_policy")
    /\ listing' = [todo |-> reported, visible |-> {}, reported |-> reported]
    /\ UNCHANGED <<policyRead, decision, outcomes, store>>

(* Mutant of JudgeTool: tools that need approval are hidden.               *)
JudgeToolStrictly(t) ==
    /\ Step("list_trust", "list_trust")
    /\ t \in listing.todo
    /\ LET d == Evaluate(policyRead, req.agent, req.slug, t, NoArgs,
                         trust[req.slug][t])
       IN  listing' = [listing EXCEPT
                         !.todo = @ \ {t},
                         !.visible = IF d = "allow" THEN @ \cup {t} ELSE @]
    /\ UNCHANGED <<policyRead, decision, outcomes, store>>

JudgeTool(t) ==
    /\ Step("list_trust", "list_trust")
    /\ t \in listing.todo
    /\ LET d == Evaluate(policyRead, req.agent, req.slug, t, NoArgs,
                         trust[req.slug][t])
       IN  listing' = [listing EXCEPT
                         !.todo = @ \ {t},
                         !.visible = IF d # "deny" THEN @ \cup {t} ELSE @]
    /\ UNCHANGED <<policyRead, decision, outcomes, store>>

(* Mutant of ReplyList: there is no answer when no tool is visible.        *)
ReplyListIfAny ==
    /\ Finish("list_trust")
    /\ listing.todo = {} /\ listing.visible # {}
    /\ UNCHANGED <<outcomes, store>>

ReplyList ==
    /\ Finish("list_trust")
    /\ listing.todo = {}
    /\ UNCHANGED <<outcomes, store>>

HandlerStep ==
    \/ Authenticate \/ RejectAgent
    \/ \E g \in SessionIds : Handshake(g)
    \/ ReadPolicy("read_policy", "decide")
    \/ ReadPolicy("list_policy", "list_trust")
    \/ Decide \/ NoLabel \/ Log \/ Forward \/ ForwardTimesOut \/ Commit
    \/ Reply \/ Raise \/ ReplyList
    \/ \E reported \in SUBSET Tools : ListAnswered(reported)
    \/ \E t \in Tools : JudgeTool(t)

-----------------------------------------------------------------------------
(* The rest of the backend, in other threads.                              *)

(* DELETE /mcp/{slug}.  It checks neither the slug nor the agent.          *)
CloseSession(g) ==
    /\ sessions[g] # None
    /\ sessions' = [sessions EXCEPT ![g] = None]
    /\ UNCHANGED <<tables, handler, outcomes, usedIds, handshakes, admitted, quiet,
                   bounds>>

AdminWrite ==
    /\ ~WriteLocked
    /\ UNCHANGED <<handler, outcomes, store, bounds>>

SetAgent(a, status) ==
    /\ AdminWrite
    /\ agents' = [agents EXCEPT ![a] = status]
    /\ admitted' = IF status = "Active" THEN admitted \cup {a} ELSE admitted
    /\ UNCHANGED <<servers, policy, trust, opened, quiet>>

RegisterAgent(a, status) == agents[a] = None /\ SetAgent(a, status)
RemoveAgent(a) == agents[a] # None /\ SetAgent(a, None)
ToggleStatus(a) ==
    /\ agents[a] # None
    /\ SetAgent(a, IF agents[a] = "Active" THEN "Suspended" ELSE "Active")

DeployPolicy(doc) ==
    /\ AdminWrite
    /\ policy' = doc
    /\ opened' = opened \cup Opens(doc)
    /\ quiet' = (pc = "idle")
    /\ UNCHANGED <<agents, servers, trust, admitted>>

(* ServerService.create and update; the endpoint decides what the gateway  *)
(* does with the server.                                                   *)
SaveServer(s, endpoint) ==
    /\ AdminWrite
    /\ servers' = [servers EXCEPT ![s] = endpoint]
    /\ UNCHANGED <<agents, policy, trust, opened, admitted, quiet>>

(* ServerService.delete: the trust records of the tools it lists go too.   *)
DeleteServer(s, listed) ==
    /\ AdminWrite
    /\ servers[s] # None
    /\ servers' = [servers EXCEPT ![s] = None]
    /\ trust' = [trust EXCEPT ![s] =
                   [t \in Tools |-> IF t \in listed THEN "none" ELSE @[t]]]
    /\ quiet' = (pc = "idle")
    /\ UNCHANGED <<agents, policy, opened, admitted>>

(* ServerService._sync_real_tools: the discovered tools get the server's   *)
(* trust and, where the policy does not name them, a default action.  The  *)
(* server's row was read before the discovery and may be gone by now.      *)
SyncServer(s, risks, status) ==
    /\ AdminWrite
    /\ trust' = [trust EXCEPT ![s] =
                   [t \in Tools |-> IF t \in DOMAIN risks THEN status ELSE @[t]]]
    /\ policy' = MergeDefaultActions(policy, s, risks)
    /\ opened' = opened \cup Opens(policy')
    /\ quiet' = (pc = "idle")
    /\ UNCHANGED <<agents, servers, admitted>>

(* The process dies and starts again: the handler and the session store    *)
(* are gone, an open transaction is rolled back.                           *)
Restart ==
    /\ restarts < MaxRestarts
    /\ restarts' = restarts + 1
    /\ pc' = "idle" /\ req' = None /\ policyRead' = None
    /\ decision' = "none" /\ listing' = NoListing
    /\ quiet' = TRUE
    /\ sessions' = [g \in SessionIds |-> None]
    /\ admitted' = {a \in Agents : agents[a] = "Active"}
    /\ UNCHANGED <<tables, outcomes, usedIds, handshakes, requests>>

Environment ==
    \/ \E s \in Servers, a \in Agents : ReceiveInitialize(s, a)
    \/ \E g \in SessionIds, s \in Servers : ReceiveList(g, s)
    \/ \E g \in SessionIds, s \in Servers, t \in Tools, args \in CallArgs :
          ReceiveCall(g, s, t, args)
    \/ \E g \in SessionIds : CloseSession(g)
    \/ \E a \in Agents :
          \/ \E status \in Statuses : RegisterAgent(a, status)
          \/ RemoveAgent(a)
          \/ ToggleStatus(a)
    \/ \E doc \in Documents : DeployPolicy(doc)
    \/ \E s \in Servers, endpoint \in Endpoints : SaveServer(s, endpoint)
    \/ \E s \in Servers, listed \in SUBSET Tools : DeleteServer(s, listed)
    \/ \E s \in Servers, risks \in Discoveries,
          status \in {"Verified", "Needs approval"} :
          SyncServer(s, risks, status)
    \/ Restart

Next == HandlerStep \/ Environment

Spec == Init /\ [][Next]_vars

(* Every call the handler makes returns or fails: reads and writes of the  *)
(* database, and upstream calls, which carry timeouts.  Nothing obliges an *)
(* agent or an admin to act, or the backend to restart.                    *)
FairSpec == Spec /\ WF_vars(HandlerStep)

(* The same without ENABLED, for the proofs: the handler is idle again and *)
(* again, or takes steps again and again.                                  *)
HandlerGoesOn == []<>(pc = "idle") \/ []<><<HandlerStep>>_vars

-----------------------------------------------------------------------------
(* Properties.                                                             *)

(* For every agent and tool, the results agents received, the Allowed rows *)
(* the gateway wrote and the executions upstream are in this order: an     *)
(* agent never has a result the trail does not show, and no row of the     *)
(* gateway shows a call that did not take place, whatever fails, times out *)
(* or is cut off by a restart.  (The simulation writes Allowed rows of its *)
(* own and executes nothing.)  (_handle_tools_call, Database.connect)      *)
AuditBracketsExecution ==
    \A c \in Calls : /\ delivered[c] <= audit["Allowed"][c]
                     /\ audit["Allowed"][c] <= executed[c]

(* Every approval an admin finds has its Pending row in the trail, and the *)
(* other way round: no crash or failure leaves one without the other.      *)
ApprovalsAreAudited == \A c \in Calls : approvals[c] = audit["Pending"][c]

(* A session, and a request past authentication, belongs to an agent that  *)
(* has been Active since the backend last started: an agent suspended or   *)
(* removed before a restart stays out.  (_handle_initialize)               *)
OnlyAdmittedAgents ==
    /\ \A g \in SessionIds : sessions[g] # None => sessions[g].agent \in admitted
    /\ pc \notin {"idle", "authenticate"} => req.agent \in admitted

(* No tools/call reaches a server on which this agent never completed an   *)
(* initialize: a session is of no use on another slug.                     *)
(* (GatewaySessionStore.get)                                               *)
InitializedFirst ==
    \A c \in Calls : executed[c] > 0 => <<c[1], c[2]>> \in handshakes

(* While policy and trust stay what they were when a call came in, the     *)
(* decision enforced on it is the one they call for: a deploy or a sync    *)
(* counts for every call received after it.  (_handle_tools_call)          *)
DecisionIsCurrent ==
    pc \in {"log", "forward", "commit", "reply"} /\ quiet
      => decision = Evaluate(policy, req.agent, req.slug, req.tool, req.args,
                             trust[req.slug][req.tool])

(* The same for tools/list: the agent sees the reported tools that are not *)
(* denied to it.  (_handle_tools_list)                                     *)
ListingIsCurrent ==
    pc = "list_trust" /\ listing.todo = {} /\ quiet
      => listing.visible = {t \in listing.reported :
                              Evaluate(policy, req.agent, req.slug, t, NoArgs,
                                       trust[req.slug][t]) # "deny"}

(* Seen from outside, the gateway does what GovernedCalls promises.  A     *)
(* call that is denied or held is over when that is committed.             *)
Stage ==
    CASE pc \in {"read_policy", "decide", "log", "forward"} -> "taken"
      [] pc = "commit" -> IF decision = "allow" THEN "executed" ELSE "taken"
      [] pc = "reply" -> IF decision = "allow" THEN "recorded" ELSE "none"
      [] OTHER -> "none"

Governed == INSTANCE GovernedCalls
    WITH Agents <- Agents, Servers <- Servers, Tools <- Tools, NoCall <- None,
         introduced <- handshakes, opened <- opened,
         call <- IF Stage = "none" THEN None ELSE CallOf(req), stage <- Stage,
         audit <- audit, approvals <- approvals, executed <- executed,
         delivered <- delivered
ImplementsGovernedCalls == Governed!Spec

(* Every request is answered, if only with an error, and the event loop is *)
(* free for the next one.                                                  *)
EveryRequestAnswered == pc # "idle" ~> pc = "idle"

-----------------------------------------------------------------------------
(* Statements of the documentation that the code does not keep.            *)

(* docs/usage-guide.md: "Every `tools/call` (allow or deny) is written to  *)
(* the audit trail."                                                       *)
EveryExecutionAudited ==
    pc = "idle" => \A c \in Calls : executed[c] <= audit["Allowed"][c]

(* docs/index.html: "A suspended agent is immediately blocked at           *)
(* authentication -- even with a valid API key, gateway requests return    *)
(* 401 Unauthorized."                                                      *)
SuspendedIsBlocked ==
    [][\A c \in Calls : executed'[c] # executed[c]
                           => agents[c[1]] = "Active"]_vars

=============================================================================
