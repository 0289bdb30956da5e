---------------------------- MODULE PolicyEngine ----------------------------
(***************************************************************************)
(* The policy engine of backend/app/policy_engine.py: what a policy        *)
(* document says of a tool call, and how the three operations that edit a  *)
(* document (sync's defaults, the rule builder, the parameter rule         *)
(* builder) change it.  The engine is stateless, so this module has no     *)
(* variables.                                                              *)
(*                                                                         *)
(* A document is a partial function from <<scope, server, tool key>> to a  *)
(* tool configuration.  The scope is an agent, for a configuration under   *)
(* agent_overrides, or AllAgents, for one under the top-level servers      *)
(* block.  A tool key is a tool or Star, the "*" key.  A key that is in    *)
(* none of the nested mappings is outside the function's domain; a tool    *)
(* configuration that is the empty mapping is EmptyCfg.                    *)
(***************************************************************************)
EXTENDS Naturals, Sequences

CONSTANTS
    Agents,      \* names of agents
    Servers,     \* slugs of MCP servers
    Tools,       \* names of tools
    Params,      \* names of tool-call parameters
    Values,      \* argument values and rule targets, as text
    EndsWithRel, \* the pairs <<v, t>> of values where v ends with t
    AllAgents,   \* the scope of the default servers block
    Star,        \* the wildcard tool key
    Missing      \* an argument that is absent or empty

ASSUME PolicyAssumption ==
    /\ AllAgents \notin Agents
    /\ Star \notin Tools
    /\ Missing \notin Values
    /\ EndsWithRel \subseteq Values \X Values

Scopes   == Agents \cup {AllAgents}
ToolKeys == Tools \cup {Star}
CfgKeys  == Scopes \X Servers \X ToolKeys
Args     == [Params -> Values \cup {Missing}]

(* The keys of ACTION_TO_DECISION.  "none" is an absent action or decision *)
(* key and "unknown" a value that is none of the three.                    *)
ActionNames == {"allow", "deny", "require_approval"}
YamlActions == ActionNames \cup {"none", "unknown"}

Operators == {"equals", "not_equals", "endswith", "not_endswith"}

(* The trust_status column; "none" is a tool with no trust record.         *)
TrustStates == {"none", "Verified", "Needs approval", "Revoked"}
Risks       == {"Low", "Medium", "High"}

(* ops is the part of a rule that maps operator names to their targets.    *)
OperatorMaps == UNION {[D -> Values] : D \in SUBSET Operators}
Rules == [param : Params, ops : OperatorMaps, decision : YamlActions]
Cfgs  == [action : YamlActions, rules : Seq(Rules)]

IsPolicy(doc) == DOMAIN doc \subseteq CfgKeys /\ doc \in [DOMAIN doc -> Cfgs]

EmptyCfg == [action |-> "none", rules |-> << >>]

-----------------------------------------------------------------------------
(* Parameter rules.                                                        *)

OperatorHolds(op, value, target) ==
    \/ op = "equals" /\ value = target
    \/ op = "not_equals" /\ value # target
    \/ op = "endswith" /\ <<value, target>> \in EndsWithRel
    \/ op = "not_endswith" /\ <<value, target>> \notin EndsWithRel

(* Mutant of RuleFires: an absent argument is compared like any other.     *)
RuleFiresOnMissing(rule, args) ==
    /\ DOMAIN rule.ops # {}
    /\ \A op \in DOMAIN rule.ops :
          OperatorHolds(op, args[rule.param], rule.ops[op])

(* A rule fires when every operator it names holds and it names one; an    *)
(* absent or empty argument fires no rule.                                 *)
RuleFires(rule, args) ==
    /\ args[rule.param] # Missing
    /\ DOMAIN rule.ops # {}
    /\ \A op \in DOMAIN rule.ops :
          OperatorHolds(op, args[rule.param], rule.ops[op])

FirstOf(S) == CHOOSE i \in S : \A j \in S : i <= j

(* The decision of the first rule that fires, "none" when no rule does.  A *)
(* rule without a decision key denies.                                     *)
ParamDecision(cfg, args) ==
    LET firing == {i \in DOMAIN cfg.rules : RuleFires(cfg.rules[i], args)}
        first  == cfg.rules[FirstOf(firing)].decision
    IN  IF firing = {} THEN "none"
        ELSE IF first = "none" THEN "deny" ELSE first

-----------------------------------------------------------------------------
(* Lookup.                                                                 *)

(* An exact entry, the empty one included, hides the wildcard entry of the *)
(* same scope.  EmptyCfg stands for None: both are falsy where it is used. *)
ToolCfg(policy, scope, server, tool) ==
    IF <<scope, server, tool>> \in DOMAIN policy
    THEN policy[<<scope, server, tool>>]
    ELSE IF <<scope, server, Star>> \in DOMAIN policy
         THEN policy[<<scope, server, Star>>]
         ELSE EmptyCfg

EffectiveCfg(policy, agent, server, tool) ==
    LET own == ToolCfg(policy, agent, server, tool)
    IN  IF agent # AllAgents /\ own # EmptyCfg
        THEN own
        ELSE ToolCfg(policy, AllAgents, server, tool)

(* The decision on one call.  The result is "unknown" when a firing        *)
(* parameter rule carries a decision outside ACTION_TO_DECISION.           *)
Evaluate(policy, agent, server, tool, args, trust) ==
    LET cfg   == EffectiveCfg(policy, agent, server, tool)
        param == ParamDecision(cfg, args)
    IN  IF \/ trust \in {"none", "Revoked"}
           \/ param = "deny"
           \/ cfg.action \notin {"allow", "require_approval"}
        THEN "deny"
        ELSE IF cfg.action = "require_approval" THEN "require_approval"
        ELSE IF param # "none" THEN param
        ELSE IF trust = "Needs approval" THEN "deny" ELSE "allow"

-----------------------------------------------------------------------------
(* Editing a document.                                                     *)

CfgAt(policy, key) == IF key \in DOMAIN policy THEN policy[key] ELSE EmptyCfg

PutCfg(policy, key, cfg) ==
    [k \in DOMAIN policy \cup {key} |-> IF k = key THEN cfg ELSE policy[k]]

DefaultAction(risk) == IF risk = "Low" THEN "allow" ELSE "deny"

(* Mutant of MergeDefaultActions: existing entries are overwritten.        *)
MergeOverwriting(policy, server, risks) ==
    LET discovered == {<<AllAgents, server, t>> : t \in DOMAIN risks}
    IN  [k \in DOMAIN policy \cup discovered |->
            IF k \in discovered
            THEN [action |-> DefaultAction(risks[k[3]]), rules |-> << >>]
            ELSE policy[k]]

(* risks is a partial function from the discovered tools to their risk.    *)
MergeDefaultActions(policy, server, risks) ==
    LET discovered == {<<AllAgents, server, t>> : t \in DOMAIN risks}
    IN  [k \in DOMAIN policy \cup discovered |->
            IF k \in DOMAIN policy
            THEN policy[k]
            ELSE [action |-> DefaultAction(risks[k[3]]), rules |-> << >>]]

(* Mutants of UpsertRule: the agent is ignored; an action that is there is *)
(* kept (setdefault).                                                      *)
UpsertRuleForAll(policy, scope, server, tool, action) ==
    LET key == <<AllAgents, server, tool>>
    IN  PutCfg(policy, key, [action |-> action,
                             rules  |-> CfgAt(policy, key).rules])

UpsertRuleKeeping(policy, scope, server, tool, action) ==
    LET key == <<scope, server, tool>>
        was == CfgAt(policy, key)
    IN  PutCfg(policy, key,
               IF was.action = "none" THEN [was EXCEPT !.action = action]
               ELSE was)

UpsertRule(policy, scope, server, tool, action) ==
    LET key == <<scope, server, tool>>
    IN  PutCfg(policy, key, [action |-> action,
                             rules  |-> CfgAt(policy, key).rules])

(* Mutant of UpsertParamRule: whatever operator a rule on the parameter    *)
(* names, it is replaced.                                                  *)
UpsertParamRuleAnyOp(policy, scope, server, tool, param, op, value, decision) ==
    LET key     == <<scope, server, tool>>
        cfg     == CfgAt(policy, key)
        newRule == [param |-> param, ops |-> [o \in {op} |-> value],
                    decision |-> decision]
        same    == {i \in DOMAIN cfg.rules : cfg.rules[i].param = param}
    IN  PutCfg(policy, key,
               [action |-> cfg.action,
                rules  |-> IF same = {} THEN Append(cfg.rules, newRule)
                           ELSE [cfg.rules EXCEPT ![FirstOf(same)] = newRule]])

(* The first rule on the same parameter that names the operator is         *)
(* replaced as a whole, its other operators with it; failing that the new  *)
(* rule goes last.                                                         *)
UpsertParamRule(policy, scope, server, tool, param, op, value, decision) ==
    LET key     == <<scope, server, tool>>
        cfg     == CfgAt(policy, key)
        newRule == [param |-> param, ops |-> [o \in {op} |-> value],
                    decision |-> decision]
        same    == {i \in DOMAIN cfg.rules :
                       /\ cfg.rules[i].param = param
                       /\ op \in DOMAIN cfg.rules[i].ops}
    IN  PutCfg(policy, key,
               [action |-> cfg.action,
                rules  |-> IF same = {} THEN Append(cfg.rules, newRule)
                           ELSE [cfg.rules EXCEPT ![FirstOf(same)] = newRule]])

=============================================================================
