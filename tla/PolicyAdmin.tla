----------------------------- MODULE PolicyAdmin ----------------------------
(***************************************************************************)
(* How the policy in force comes to be: the policy_yaml setting in the     *)
(* database, the policy editor of each admin console, the two rule         *)
(* builders that stage a change in the editor through the backend's        *)
(* stateless previews, deploys, and the defaults a server sync merges in.  *)
(*                                                                         *)
(* Every request of a console is asynchronous.  A builder sends the text   *)
(* of the editor and puts the reply in the editor when it arrives;         *)
(* refreshAll puts the policy it read in the editor when that arrives.     *)
(* Previews touch no stored state, so the reply is fixed when the request  *)
(* is sent, and a request is represented by its reply.  Replies may arrive *)
(* in any order, or never.                                                 *)
(***************************************************************************)
EXTENDS PolicyEngine, FiniteSets

CONSTANTS
    Consoles,         \* admin consoles (browser tabs) in use
    HandWritten,      \* documents an admin may type or start from
    Malformed,        \* any text that parse rejects, the empty one included
    NoReply,          \* no preview under way
    BuilderOperators, \* the operators picked in the parameter rule builder
    BuilderValues,    \* the targets typed in the parameter rule builder
    Discoveries,      \* what a sync may discover: partial functions from
                      \* tools to risks
    MaxEdits,         \* bound: edits the admins make (builders and typing)
    MaxRefreshes      \* bound: refreshes a console has under way at a time

ASSUME AdminAssumption ==
    /\ \A doc \in HandWritten : IsPolicy(doc)
    /\ ~IsPolicy(Malformed) /\ ~IsPolicy(NoReply) /\ Malformed # NoReply
    /\ BuilderOperators \subseteq Operators
    /\ BuilderValues \subseteq Values
    /\ \A risks \in Discoveries :
          DOMAIN risks \subseteq Tools /\ risks \in [DOMAIN risks -> Risks]
    /\ MaxEdits \in Nat /\ MaxRefreshes \in Nat

Builders == {"rule", "param"}

VARIABLES
    stored,    \* settings.policy_yaml
    draft,     \* draft[c]: the text in the editor of console c
    previews,  \* previews[c][b]: what builder b's request will return
    refreshes, \* refreshes[c]: what the refreshes under way will return
    edits      \* edits made so far, the model's bound

vars == <<stored, draft, previews, refreshes, edits>>

IsText(text) == text = Malformed \/ IsPolicy(text)

(* In particular the policy in force always parses.                        *)
TypeOK ==
    /\ IsPolicy(stored)
    /\ \A c \in Consoles : IsText(draft[c])
    /\ \A c \in Consoles, b \in Builders :
          previews[c][b] = NoReply \/ IsPolicy(previews[c][b])
    /\ \A c \in Consoles : \A text \in refreshes[c] : IsPolicy(text)
    /\ edits \in 0..MaxEdits

Init ==
    /\ stored \in HandWritten
    /\ draft = [c \in Consoles |-> Malformed]
    /\ previews = [c \in Consoles |-> [b \in Builders |-> NoReply]]
    /\ refreshes = [c \in Consoles |-> {stored}]
    /\ edits = 0

-----------------------------------------------------------------------------
(* The builders.  A builder's button is disabled while its request is out; *)
(* the other builder's is not.  A preview of a malformed text is a 422     *)
(* error: nothing is staged and the builder is ready again.                *)

Stage(c, builder, text) ==
    /\ edits < MaxEdits
    /\ previews[c][builder] = NoReply
    /\ draft[c] # Malformed
    /\ previews' = [previews EXCEPT ![c][builder] = text]
    /\ edits' = edits + 1
    /\ UNCHANGED <<stored, draft, refreshes>>

SubmitRule(c, scope, server, tool, action) ==
    Stage(c, "rule", UpsertRule(draft[c], scope, server, tool, action))

SubmitParamRule(c, scope, server, tool, param, op, value, decision) ==
    Stage(c, "param", UpsertParamRule(draft[c], scope, server, tool,
                                      param, op, value, decision))

Staged(c, builder) ==
    /\ previews[c][builder] # NoReply
    /\ draft' = [draft EXCEPT ![c] = previews[c][builder]]
    /\ previews' = [previews EXCEPT ![c][builder] = NoReply]
    /\ UNCHANGED <<stored, refreshes, edits>>

(* The request fails (network, expired login): the editor is left alone.   *)
StageFailed(c, builder) ==
    /\ previews[c][builder] # NoReply
    /\ previews' = [previews EXCEPT ![c][builder] = NoReply]
    /\ UNCHANGED <<stored, draft, refreshes, edits>>

(* The admin types in the editor.                                          *)
Type(c, text) ==
    /\ edits < MaxEdits
    /\ draft' = [draft EXCEPT ![c] = text]
    /\ edits' = edits + 1
    /\ UNCHANGED <<stored, previews, refreshes>>

-----------------------------------------------------------------------------
(* refreshAll: after a login, a deploy and every change made on the        *)
(* servers, agents and gateway pages.  The backend reads the policy now.   *)
RefreshAll(c) ==
    /\ Cardinality(refreshes[c]) < MaxRefreshes
    /\ refreshes' = [refreshes EXCEPT ![c] = @ \cup {stored}]
    /\ UNCHANGED <<stored, draft, previews, edits>>

(* The reply replaces whatever the editor holds.                           *)
Refreshed(c, text) ==
    /\ draft' = [draft EXCEPT ![c] = text]
    /\ refreshes' = [refreshes EXCEPT ![c] = @ \ {text}]
    /\ UNCHANGED <<stored, previews, edits>>

RefreshFailed(c, text) ==
    /\ refreshes' = [refreshes EXCEPT ![c] = @ \ {text}]
    /\ UNCHANGED <<stored, draft, previews, edits>>

(* Mutant of Deploy: the text is stored unparsed.                          *)
DeployUnparsed(c) ==
    /\ Cardinality(refreshes[c]) < MaxRefreshes
    /\ stored' = draft[c]
    /\ refreshes' = [refreshes EXCEPT ![c] = @ \cup {stored'}]
    /\ UNCHANGED <<draft, previews, edits>>

(* PolicyService.deploy: the text is parsed and stored as a whole; a       *)
(* malformed one is a 422 error.  The console then refreshes.              *)
Deploy(c) ==
    /\ draft[c] # Malformed
    /\ Cardinality(refreshes[c]) < MaxRefreshes
    /\ stored' = draft[c]
    /\ refreshes' = [refreshes EXCEPT ![c] = @ \cup {stored'}]
    /\ UNCHANGED <<draft, previews, edits>>

(* The policy part of ServerService._sync_real_tools: read, merge and      *)
(* write under one write transaction.                                      *)
Sync(server, risks) ==
    /\ stored' = MergeDefaultActions(stored, server, risks)
    /\ UNCHANGED <<draft, previews, refreshes, edits>>

Next ==
    \/ \E c \in Consoles, scope \in Scopes, server \in Servers,
          tool \in ToolKeys, action \in ActionNames :
          SubmitRule(c, scope, server, tool, action)
    \/ \E c \in Consoles, scope \in Scopes, server \in Servers,
          tool \in ToolKeys, param \in Params, op \in BuilderOperators,
          value \in BuilderValues, decision \in ActionNames :
          SubmitParamRule(c, scope, server, tool, param, op, value, decision)
    \/ \E c \in Consoles, b \in Builders : Staged(c, b) \/ StageFailed(c, b)
    \/ \E c \in Consoles, text \in HandWritten \cup {Malformed} : Type(c, text)
    \/ \E c \in Consoles : \E text \in refreshes[c] :
          Refreshed(c, text) \/ RefreshFailed(c, text)
    \/ \E c \in Consoles : RefreshAll(c) \/ Deploy(c)
    \/ \E server \in Servers, risks \in Discoveries : Sync(server, risks)

Spec == Init /\ [][Next]_vars

-----------------------------------------------------------------------------
(* Properties.                                                             *)

NoArgs == [p \in Params |-> Missing]

(* A sync never overrules an entry the policy has for a tool by name, nor  *)
(* any configuration an agent has of its own, an agent's "*" included: it  *)
(* decides differently only calls that nothing but the default "*", or     *)
(* nothing at all, decided before.  What it then opens is a verified       *)
(* Low-risk tool and nothing else.  That a "*" covers a tool too, as the   *)
(* documents have it, is SyncLeavesCoveredAlone.  (merge_default_actions)  *)
SyncKeepsNamedEntries ==
    [][\A server \in Servers, risks \in Discoveries : Sync(server, risks) =>
         \A a \in Scopes, s \in Servers, t \in Tools, args \in Args,
            trust \in TrustStates :
            LET before == Evaluate(stored, a, s, t, args, trust)
                after  == Evaluate(stored', a, s, t, args, trust)
            IN  before # after =>
                  /\ s = server /\ t \in DOMAIN risks
                  /\ <<AllAgents, s, t>> \notin DOMAIN stored
                  /\ a # AllAgents => ToolCfg(stored, a, s, t) = EmptyCfg
                  /\ after # "deny" => (risks[t] = "Low" /\ trust = "Verified")
      ]_vars

(* Which calls an edit at <<scope, server, tool>> may decide differently:  *)
(* those on that server, of an agent the scope covers and that has no      *)
(* configuration of its own below that scope, for that tool or, when the   *)
(* edit is at "*", for a tool the scope has no exact entry for.            *)
Reaches(doc, scope, server, tool, a, s, t) ==
    /\ s = server
    /\ \/ a = scope
       \/ scope = AllAgents /\ ToolCfg(doc, a, s, t) = EmptyCfg
    /\ \/ tool = t
       \/ tool = Star /\ <<scope, s, t>> \notin DOMAIN doc

ChangesOnlyReached(before, after, scope, server, tool) ==
    \A a \in Scopes, s \in Servers, t \in Tools, args \in Args,
       trust \in TrustStates :
       Evaluate(before, a, s, t, args, trust)
             # Evaluate(after, a, s, t, args, trust)
         => Reaches(before, scope, server, tool, a, s, t)

(* A staged rule changes the decision on no call outside its own scope,    *)
(* server and tool: nobody else's access moves with it.                    *)
(* (upsert_rule, upsert_param_rule against _effective_tool_cfg)            *)
StagedRuleIsLocal ==
    [][\A c \in Consoles, scope \in Scopes, server \in Servers,
         tool \in ToolKeys :
         /\ \A action \in ActionNames :
              SubmitRule(c, scope, server, tool, action) =>
                ChangesOnlyReached(draft[c], previews'[c]["rule"],
                                   scope, server, tool)
         /\ \A param \in Params, op \in BuilderOperators,
              value \in BuilderValues, decision \in ActionNames :
              SubmitParamRule(c, scope, server, tool,
                              param, op, value, decision) =>
                ChangesOnlyReached(draft[c], previews'[c]["param"],
                                   scope, server, tool)
      ]_vars

(* A deny rule from the rule builder denies, in the text it stages, every  *)
(* call it reaches, whatever rules were there and whatever the arguments.  *)
(* (upsert_rule: "creating or overwriting")                                *)
DenyRuleTakesEffect ==
    [][\A c \in Consoles, scope \in Scopes, server \in Servers,
         tool \in ToolKeys :
         SubmitRule(c, scope, server, tool, "deny") =>
           \A a \in Scopes, t \in Tools, args \in Args,
              trust \in TrustStates :
              Reaches(draft[c], scope, server, tool, a, server, t)
                => Evaluate(previews'[c]["rule"], a, server, t, args, trust)
                     = "deny"
      ]_vars

(* tools/list, which evaluates with no arguments, hides no verified tool   *)
(* that some tools/call of it would get past: a parameter rule can close a *)
(* listed tool for some arguments but never open a hidden one.             *)
(* (_param_rule_matches: "a missing/empty param never triggers a rule")    *)
CallableIsVisible ==
    \A a \in Scopes, s \in Servers, t \in Tools, args \in Args :
       Evaluate(stored, a, s, t, args, "Verified") # "deny"
         => Evaluate(stored, a, s, t, NoArgs, "Verified") # "deny"

(* A staged parameter rule moves only the calls it is about: those it      *)
(* fires on and those of the rule it replaces.  Where nothing was          *)
(* configured it makes an entry without an action, which hides what        *)
(* decided before: every call it reaches is denied, and none is opened.    *)
(* (upsert_param_rule against _param_rule and _effective_tool_cfg)         *)
ParamRuleMovesItsCalls ==
    [][\A c \in Consoles, scope \in Scopes, server \in Servers,
         tool \in ToolKeys, param \in Params, op \in BuilderOperators,
         value \in BuilderValues, decision \in ActionNames :
         SubmitParamRule(c, scope, server, tool,
                         param, op, value, decision) =>
           LET was   == CfgAt(draft[c], <<scope, server, tool>>)
               after == previews'[c]["param"]
               about(args) ==
                 /\ args[param] # Missing
                 /\ \/ OperatorHolds(op, args[param], value)
                    \/ \E i \in DOMAIN was.rules :
                          /\ was.rules[i].param = param
                          /\ op \in DOMAIN was.rules[i].ops
                          /\ RuleFires(was.rules[i], args)
           IN  \A a \in Scopes, t \in Tools, args \in Args,
                  trust \in TrustStates :
                 Reaches(draft[c], scope, server, tool, a, server, t) =>
                   \/ was # EmptyCfg /\ about(args)
                   \/ Evaluate(after, a, server, t, args, trust) =
                        IF was = EmptyCfg THEN "deny"
                        ELSE Evaluate(draft[c], a, server, t, args, trust)
      ]_vars

-----------------------------------------------------------------------------
(* Statements of the documents that the code does not keep.                *)

(* docs/usage-guide.md: a sync gives a default to a tool "that isn't        *)
(* already covered by policy [...] without touching rules you've already   *)
(* set".  Where the policy has a configuration for a call, by name or by   *)
(* "*", a sync leaves the decision as it was.  (merge_default_actions)     *)
SyncLeavesCoveredAlone ==
    [][\A server \in Servers, risks \in Discoveries : Sync(server, risks) =>
         \A a \in Scopes, s \in Servers, t \in Tools, args \in Args,
            trust \in TrustStates :
            EffectiveCfg(stored, a, s, t) # EmptyCfg =>
              Evaluate(stored', a, s, t, args, trust)
                = Evaluate(stored, a, s, t, args, trust)
      ]_vars

=============================================================================
