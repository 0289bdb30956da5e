------------------------- MODULE PolicyAdmin_proofs -------------------------
(***************************************************************************)
(* Proofs about PolicyAdmin, for any agents, servers, tools, parameters    *)
(* and values, any documents, and any number of consoles and edits.        *)
(***************************************************************************)
EXTENDS PolicyAdmin, SequenceTheorems, WellFoundedInduction, TLAPS

-----------------------------------------------------------------------------
(* Documents.                                                              *)

LEMMA EmptyCfgType == EmptyCfg \in Cfgs
BY DEF EmptyCfg, Cfgs, YamlActions

LEMMA CfgAtType ==
    ASSUME NEW doc, IsPolicy(doc), NEW key
    PROVE  CfgAt(doc, key) \in Cfgs
BY EmptyCfgType DEF CfgAt, IsPolicy

LEMMA PutCfgType ==
    ASSUME NEW doc, IsPolicy(doc), NEW key \in CfgKeys, NEW cfg \in Cfgs
    PROVE  IsPolicy(PutCfg(doc, key, cfg))
<1> DEFINE new == PutCfg(doc, key, cfg)
<1>1. DOMAIN new = DOMAIN doc \cup {key}
  BY DEF PutCfg
<1>2. new = [k \in DOMAIN new |-> new[k]]
  BY DEF PutCfg
<1>3. \A k \in DOMAIN new : new[k] \in Cfgs
  BY DEF PutCfg, IsPolicy
<1> HIDE DEF new
<1>4. IsPolicy(new)
  BY <1>1, <1>2, <1>3 DEF IsPolicy
<1> QED BY <1>4 DEF new

LEMMA UpsertRuleType ==
    ASSUME NEW doc, IsPolicy(doc), NEW scope \in Scopes, NEW server \in Servers,
           NEW tool \in ToolKeys, NEW action \in ActionNames
    PROVE  IsPolicy(UpsertRule(doc, scope, server, tool, action))
<1> DEFINE key == <<scope, server, tool>>
           cfg == [action |-> action, rules |-> CfgAt(doc, key).rules]
<1>1. key \in CfgKeys
  BY DEF CfgKeys
<1>2. CfgAt(doc, key) \in Cfgs
  BY CfgAtType
<1>3. cfg \in Cfgs
  BY <1>2 DEF Cfgs, YamlActions
<1> QED BY <1>1, <1>3, PutCfgType DEF UpsertRule

LEMMA ReplacedInSeq ==
    ASSUME NEW S, NEW s \in Seq(S), NEW i, NEW x \in S
    PROVE  [s EXCEPT ![i] = x] \in Seq(S)
<1>1. CASE i \in 1..Len(s)
  BY <1>1, ExceptSeq
<1>2. CASE i \notin 1..Len(s)
  <2>1. [s EXCEPT ![i] = x] = s
    BY <1>2, LenProperties
  <2> QED BY <2>1
<1> QED BY <1>1, <1>2

LEMMA UpsertParamRuleType ==
    ASSUME NEW doc, IsPolicy(doc), NEW scope \in Scopes, NEW server \in Servers,
           NEW tool \in ToolKeys, NEW param \in Params,
           NEW op \in BuilderOperators, NEW value \in BuilderValues,
           NEW decision \in ActionNames
    PROVE  IsPolicy(UpsertParamRule(doc, scope, server, tool, param, op, value,
                                    decision))
<1> DEFINE key == <<scope, server, tool>>
           old == CfgAt(doc, key)
           newRule == [param |-> param, ops |-> [o \in {op} |-> value],
                       decision |-> decision]
           same == {i \in DOMAIN old.rules : /\ old.rules[i].param = param
                                             /\ op \in DOMAIN old.rules[i].ops}
           rules == IF same = {} THEN Append(old.rules, newRule)
                    ELSE [old.rules EXCEPT ![FirstOf(same)] = newRule]
           cfg == [action |-> old.action, rules |-> rules]
<1>1. key \in CfgKeys
  BY DEF CfgKeys
<1>2. old.action \in YamlActions /\ old.rules \in Seq(Rules)
  <2>1. old \in Cfgs
    BY CfgAtType
  <2> HIDE DEF old
  <2> QED BY <2>1 DEF Cfgs
<1>3. [o \in {op} |-> value] \in OperatorMaps
  <2>1. {op} \in SUBSET Operators /\ [o \in {op} |-> value] \in [{op} -> Values]
    BY AdminAssumption
  <2> QED BY <2>1 DEF OperatorMaps
<1>4. newRule \in Rules
  BY <1>3 DEF Rules, YamlActions
<1> HIDE DEF old, newRule, same
<1>5. rules \in Seq(Rules)
  <2>1. CASE same = {}
    BY <1>2, <1>4, <2>1
  <2>2. CASE same # {}
    <3>1. rules = [old.rules EXCEPT ![FirstOf(same)] = newRule]
      BY <2>2
    <3>2. old.rules \in Seq(Rules) /\ newRule \in Rules
      BY <1>2, <1>4
    <3> HIDE DEF rules
    <3> QED BY <3>1, <3>2, ReplacedInSeq
  <2> QED BY <2>1, <2>2
<1> HIDE DEF rules
<1>6. cfg \in Cfgs
  BY <1>2, <1>5 DEF Cfgs
<1> QED BY <1>1, <1>6, PutCfgType DEF UpsertParamRule, old, newRule, same, rules

LEMMA MergeType ==
    ASSUME NEW doc, IsPolicy(doc), NEW server \in Servers, NEW risks \in Discoveries
    PROVE  IsPolicy(MergeDefaultActions(doc, server, risks))
<1> DEFINE new == MergeDefaultActions(doc, server, risks)
           discovered == {<<AllAgents, server, t>> : t \in DOMAIN risks}
<1>1. discovered \subseteq CfgKeys
  BY AdminAssumption DEF CfgKeys, Scopes, ToolKeys
<1>2. DOMAIN new = DOMAIN doc \cup discovered /\ new = [k \in DOMAIN new |-> new[k]]
  BY DEF MergeDefaultActions
<1>3. ASSUME NEW k \in DOMAIN new PROVE new[k] \in Cfgs
  <2>1. CASE k \in DOMAIN doc
    BY <1>3, <2>1 DEF MergeDefaultActions, IsPolicy
  <2>2. CASE k \notin DOMAIN doc
    <3>1. new[k] = [action |-> DefaultAction(risks[k[3]]), rules |-> << >>]
      BY <1>3, <2>2 DEF MergeDefaultActions
    <3>2. DefaultAction(risks[k[3]]) \in YamlActions
      BY DEF DefaultAction, YamlActions, ActionNames
    <3> QED BY <3>1, <3>2 DEF Cfgs
  <2> QED BY <2>1, <2>2
<1> HIDE DEF new
<1>4. IsPolicy(new)
  BY <1>1, <1>2, <1>3 DEF IsPolicy
<1> QED BY <1>4 DEF new

-----------------------------------------------------------------------------
(* Types.                                                                  *)

(* The variables are functions on the consoles.                            *)
Shape ==
    /\ draft = [c \in Consoles |-> draft[c]]
    /\ previews = [c \in Consoles |-> [b \in Builders |-> previews[c][b]]]
    /\ refreshes = [c \in Consoles |-> refreshes[c]]

LEMMA ShapeInit == Init => Shape
BY DEF Init, Shape

LEMMA ShapeStep == Shape /\ [Next]_vars => Shape'
<1> SUFFICES ASSUME Shape, [Next]_vars PROVE Shape'
  OBVIOUS
<1>1. ASSUME NEW c \in Consoles, NEW b \in Builders, NEW text, Stage(c, b, text)
      PROVE  Shape'
  BY <1>1 DEF Shape, Stage
<1>2. ASSUME NEW c \in Consoles, NEW b \in Builders, Staged(c, b) \/ StageFailed(c, b)
      PROVE  Shape'
  BY <1>2 DEF Shape, Staged, StageFailed
<1>3. ASSUME NEW c \in Consoles, NEW text,
             \/ Type(c, text) \/ Refreshed(c, text) \/ RefreshFailed(c, text)
             \/ RefreshAll(c) \/ Deploy(c)
      PROVE  Shape'
  BY <1>3 DEF Shape, Type, Refreshed, RefreshFailed, RefreshAll, Deploy
<1>4. CASE \E server \in Servers, risks \in Discoveries : Sync(server, risks)
  BY <1>4 DEF Shape, Sync
<1>5. CASE UNCHANGED vars
  BY <1>5 DEF Shape, vars
<1> QED BY <1>1, <1>2, <1>3, <1>4, <1>5
        DEF Next, SubmitRule, SubmitParamRule, Builders

LEMMA TypeInit == Init => TypeOK
BY AdminAssumption DEF Init, TypeOK, IsText

LEMMA StageTypes ==
    ASSUME TypeOK, Shape, NEW c \in Consoles, NEW b \in Builders, NEW text,
           Stage(c, b, text), IsPolicy(draft[c]) => IsPolicy(text)
    PROVE  TypeOK'
<1>1. IsPolicy(draft[c])
  BY DEF TypeOK, IsText, Stage
<1>2. \A e \in Consoles, y \in Builders :
         previews'[e][y] = IF e = c /\ y = b THEN text ELSE previews[e][y]
  BY DEF Shape, Stage
<1>3. edits' \in 0..MaxEdits
  BY AdminAssumption DEF TypeOK, Stage
<1> QED BY <1>1, <1>2, <1>3 DEF TypeOK, Stage

LEMMA TypeStep == TypeOK /\ Shape /\ [Next]_vars => TypeOK'
<1> SUFFICES ASSUME TypeOK, Shape, [Next]_vars PROVE TypeOK'
  OBVIOUS
<1>1. ASSUME NEW c \in Consoles, NEW scope \in Scopes, NEW server \in Servers,
             NEW tool \in ToolKeys, NEW action \in ActionNames,
             SubmitRule(c, scope, server, tool, action)
      PROVE  TypeOK'
  BY <1>1, UpsertRuleType, StageTypes DEF SubmitRule, Builders
<1>2. ASSUME NEW c \in Consoles, NEW scope \in Scopes, NEW server \in Servers,
             NEW tool \in ToolKeys, NEW param \in Params,
             NEW op \in BuilderOperators, NEW value \in BuilderValues,
             NEW decision \in ActionNames,
             SubmitParamRule(c, scope, server, tool, param, op, value, decision)
      PROVE  TypeOK'
  BY <1>2, UpsertParamRuleType, StageTypes DEF SubmitParamRule, Builders
<1>3. ASSUME NEW c \in Consoles, NEW b \in Builders, Staged(c, b) \/ StageFailed(c, b)
      PROVE  TypeOK'
  <2>1. \A e \in Consoles, y \in Builders :
           previews'[e][y] = IF e = c /\ y = b THEN NoReply ELSE previews[e][y]
    <3>1. previews' = [previews EXCEPT ![c][b] = NoReply]
      BY <1>3 DEF Staged, StageFailed
    <3> QED BY <3>1 DEF Shape
  <2>2. \A e \in Consoles : draft'[e] \in {draft[e], previews[c][b]}
                            /\ (draft'[e] # draft[e] => previews[c][b] # NoReply)
    BY <1>3 DEF Shape, Staged, StageFailed
  <2>3. \A e \in Consoles : IsText(draft'[e])
    BY <2>2 DEF TypeOK, IsText
  <2> QED BY <1>3, <2>1, <2>3 DEF TypeOK, Staged, StageFailed
<1>4. ASSUME NEW c \in Consoles, NEW text \in HandWritten \cup {Malformed},
             Type(c, text)
      PROVE  TypeOK'
  <2>1. IsText(text)
    BY AdminAssumption DEF IsText
  <2>2. \A e \in Consoles : draft'[e] \in {draft[e], text}
    BY <1>4 DEF Type, Shape
  <2>3. edits' \in 0..MaxEdits
    BY <1>4, AdminAssumption DEF TypeOK, Type
  <2> QED BY <1>4, <2>1, <2>2, <2>3 DEF TypeOK, Type
<1>5. ASSUME NEW c \in Consoles, NEW text \in refreshes[c],
             Refreshed(c, text) \/ RefreshFailed(c, text)
      PROVE  TypeOK'
  <2>1. IsPolicy(text)
    BY DEF TypeOK
  <2>2. \A e \in Consoles : draft'[e] \in {draft[e], text}
                            /\ refreshes'[e] \subseteq refreshes[e]
    BY <1>5 DEF Refreshed, RefreshFailed, Shape
  <2> QED BY <1>5, <2>1, <2>2 DEF TypeOK, IsText, Refreshed, RefreshFailed
<1>6. ASSUME NEW c \in Consoles, RefreshAll(c) \/ Deploy(c)
      PROVE  TypeOK'
  <2>1. IsPolicy(stored')
    BY <1>6 DEF TypeOK, IsText, RefreshAll, Deploy
  <2>2. \A e \in Consoles : refreshes'[e] \subseteq refreshes[e] \cup {stored'}
    BY <1>6 DEF RefreshAll, Deploy, Shape
  <2> QED BY <1>6, <2>1, <2>2 DEF TypeOK, RefreshAll, Deploy
<1>7. CASE \E server \in Servers, risks \in Discoveries : Sync(server, risks)
  BY <1>7, MergeType DEF TypeOK, Sync
<1>8. CASE UNCHANGED vars
  BY <1>8 DEF TypeOK, vars
<1> QED BY <1>1, <1>2, <1>3, <1>4, <1>5, <1>6, <1>7, <1>8 DEF Next

LEMMA Invariant == Spec => [](TypeOK /\ Shape)
BY TypeInit, ShapeInit, TypeStep, ShapeStep, PTL DEF Spec

(* Whatever the consoles and syncs do, the policy in force and every text  *)
(* on its way to an editor parses.  (deploy, preview, merge)               *)
THEOREM TypeCorrect == Spec => []TypeOK
BY Invariant, PTL

-----------------------------------------------------------------------------
(* What tools/list hides.                                                  *)

LEMMA EffectiveCfgType ==
    ASSUME NEW doc, IsPolicy(doc), NEW a, NEW s, NEW t
    PROVE  EffectiveCfg(doc, a, s, t) \in Cfgs
<1>1. \A x, y, z : ToolCfg(doc, x, y, z) \in Cfgs
  BY EmptyCfgType DEF ToolCfg, IsPolicy
<1> QED BY <1>1 DEF EffectiveCfg

(* No argument, no rule.                                                   *)
LEMMA NoArgsNoRule ==
    ASSUME NEW cfg \in Cfgs
    PROVE  ParamDecision(cfg, NoArgs) = "none"
<1>1. \A i \in DOMAIN cfg.rules : cfg.rules[i].param \in Params
  <2>1. cfg.rules \in Seq(Rules)
    BY DEF Cfgs
  <2>2. \A i \in DOMAIN cfg.rules : cfg.rules[i] \in Rules
    BY <2>1
  <2> QED BY <2>2 DEF Rules
<1>2. {i \in DOMAIN cfg.rules : RuleFires(cfg.rules[i], NoArgs)} = {}
  BY <1>1 DEF RuleFires, NoArgs
<1> QED BY <1>2 DEF ParamDecision

LEMMA NoArgsAreTheWidest ==
    ASSUME NEW doc, IsPolicy(doc), NEW a, NEW s, NEW t, NEW args,
           Evaluate(doc, a, s, t, args, "Verified") # "deny"
    PROVE  Evaluate(doc, a, s, t, NoArgs, "Verified") # "deny"
<1> DEFINE cfg == EffectiveCfg(doc, a, s, t)
<1>1. cfg \in Cfgs
  BY EffectiveCfgType
<1>2. ParamDecision(cfg, NoArgs) = "none"
  BY <1>1, NoArgsNoRule
<1>3. cfg.action \in {"allow", "require_approval"}
  BY DEF Evaluate
<1> HIDE DEF cfg
<1> QED BY <1>2, <1>3 DEF Evaluate, cfg

(* For every policy a deploy or a sync can leave in force, a verified tool *)
(* with some call that gets past the policy is listed.                     *)
(* (_param_rule_matches)                                                   *)
THEOREM ListingHidesNoOpenTool == Spec => []CallableIsVisible
<1>1. TypeOK => CallableIsVisible
  BY NoArgsAreTheWidest DEF TypeOK, CallableIsVisible
<1> QED BY <1>1, Invariant, PTL

-----------------------------------------------------------------------------
(* A sync.                                                                 *)

(* The default block looks up a tool that has an exact entry by it alone;  *)
(* so does an agent's own block.                                           *)
LEMMA MergeKeepsOwn ==
    ASSUME NEW doc, NEW server \in Servers, NEW risks \in Discoveries,
           NEW a \in Agents, NEW s, NEW t
    PROVE  ToolCfg(MergeDefaultActions(doc, server, risks), a, s, t)
             = ToolCfg(doc, a, s, t)
<1> DEFINE new == MergeDefaultActions(doc, server, risks)
<1>1. \A y, z : /\ <<a, y, z>> \in DOMAIN new <=> <<a, y, z>> \in DOMAIN doc
                /\ <<a, y, z>> \in DOMAIN doc => new[<<a, y, z>>] = doc[<<a, y, z>>]
  BY PolicyAssumption DEF MergeDefaultActions
<1> HIDE DEF new
<1>2. ToolCfg(new, a, s, t) = ToolCfg(doc, a, s, t)
  BY <1>1 DEF ToolCfg
<1> QED BY <1>2 DEF new

(* The default block is silent on the tool by name, and it is discovered.  *)
Fills(doc, server, risks, s, t) ==
    /\ s = server /\ t \in DOMAIN risks
    /\ <<AllAgents, s, t>> \notin DOMAIN doc

LEMMA MergeDefaults ==
    ASSUME NEW doc, NEW server \in Servers, NEW risks \in Discoveries,
           NEW s, NEW t
    PROVE  /\ Fills(doc, server, risks, s, t) =>
                ToolCfg(MergeDefaultActions(doc, server, risks), AllAgents, s, t)
                  = [action |-> DefaultAction(risks[t]), rules |-> << >>]
           /\ ~Fills(doc, server, risks, s, t) =>
                ToolCfg(MergeDefaultActions(doc, server, risks), AllAgents, s, t)
                  = ToolCfg(doc, AllAgents, s, t)
<1> DEFINE new == MergeDefaultActions(doc, server, risks)
           added(y, z) == Fills(doc, server, risks, y, z)
<1>1. \A y, z : /\ <<AllAgents, y, z>> \in DOMAIN new
                     <=> <<AllAgents, y, z>> \in DOMAIN doc \/ added(y, z)
                /\ <<AllAgents, y, z>> \in DOMAIN doc
                     => new[<<AllAgents, y, z>>] = doc[<<AllAgents, y, z>>]
                /\ added(y, z) => new[<<AllAgents, y, z>>]
                     = [action |-> DefaultAction(risks[z]), rules |-> << >>]
  BY DEF MergeDefaultActions, Fills
<1>2. ~added(s, Star)
  BY AdminAssumption, PolicyAssumption DEF Fills
<1> HIDE DEF new
<1>3. added(s, t) =>
        ToolCfg(new, AllAgents, s, t)
          = [action |-> DefaultAction(risks[t]), rules |-> << >>]
  BY <1>1 DEF ToolCfg
<1>4. ~added(s, t) => ToolCfg(new, AllAgents, s, t) = ToolCfg(doc, AllAgents, s, t)
  BY <1>1, <1>2 DEF ToolCfg
<1> QED BY <1>3, <1>4 DEF new

(* A configuration a sync adds decides by the tool's risk and trust alone. *)
LEMMA DefaultsOpenLowOnly ==
    ASSUME NEW cfg, NEW risk, NEW args,
           cfg = [action |-> DefaultAction(risk), rules |-> << >>]
    PROVE  /\ cfg.action = IF risk = "Low" THEN "allow" ELSE "deny"
           /\ ParamDecision(cfg, args) = "none"
<1>1. {i \in DOMAIN cfg.rules : RuleFires(cfg.rules[i], args)} = {}
  OBVIOUS
<1> QED BY <1>1 DEF DefaultAction, ParamDecision

LEMMA MergeFillsGaps ==
    ASSUME NEW doc, NEW server \in Servers, NEW risks \in Discoveries,
           NEW a \in Scopes, NEW s, NEW t, NEW args, NEW trust \in TrustStates,
           Evaluate(doc, a, s, t, args, trust)
             # Evaluate(MergeDefaultActions(doc, server, risks),
                        a, s, t, args, trust)
    PROVE  /\ s = server /\ t \in DOMAIN risks
           /\ <<AllAgents, s, t>> \notin DOMAIN doc
           /\ a # AllAgents => ToolCfg(doc, a, s, t) = EmptyCfg
           /\ Evaluate(MergeDefaultActions(doc, server, risks),
                       a, s, t, args, trust) # "deny"
                => risks[t] = "Low" /\ trust = "Verified"
<1> DEFINE new == MergeDefaultActions(doc, server, risks)
           cfg == EffectiveCfg(new, a, s, t)
<1>1. cfg # EffectiveCfg(doc, a, s, t)
  BY DEF Evaluate
<1>2. a # AllAgents => ToolCfg(new, a, s, t) = ToolCfg(doc, a, s, t)
  BY MergeKeepsOwn DEF Scopes
<1>3. /\ Fills(doc, server, risks, s, t) =>
           ToolCfg(new, AllAgents, s, t)
             = [action |-> DefaultAction(risks[t]), rules |-> << >>]
      /\ ~Fills(doc, server, risks, s, t) =>
           ToolCfg(new, AllAgents, s, t) = ToolCfg(doc, AllAgents, s, t)
  BY MergeDefaults
<1> HIDE DEF new
<1>4. a # AllAgents => ToolCfg(doc, a, s, t) = EmptyCfg
  BY <1>1, <1>2 DEF EffectiveCfg
<1>5. cfg = ToolCfg(new, AllAgents, s, t)
  BY <1>2, <1>4 DEF EffectiveCfg
<1>6. EffectiveCfg(doc, a, s, t) = ToolCfg(doc, AllAgents, s, t)
  BY <1>4 DEF EffectiveCfg
<1>7. Fills(doc, server, risks, s, t)
  BY <1>1, <1>3, <1>5, <1>6
<1>8. cfg = [action |-> DefaultAction(risks[t]), rules |-> << >>]
  BY <1>3, <1>5, <1>7
<1>9. /\ cfg.action = IF risks[t] = "Low" THEN "allow" ELSE "deny"
      /\ ParamDecision(cfg, args) = "none"
  BY <1>8, DefaultsOpenLowOnly
<1>10. Evaluate(new, a, s, t, args, trust) # "deny"
         => risks[t] = "Low" /\ trust = "Verified"
  <2> HIDE DEF cfg
  <2>1. Evaluate(new, a, s, t, args, trust) # "deny"
          => /\ cfg.action \in {"allow", "require_approval"}
             /\ trust \notin {"none", "Revoked"}
             /\ cfg.action # "require_approval" => trust # "Needs approval"
    BY <1>9 DEF Evaluate, cfg
  <2> QED BY <2>1, <1>9 DEF TrustStates
<1> QED BY <1>4, <1>7, <1>10 DEF new, Fills

(* A sync, of whatever server and discovery, overrules no entry by name    *)
(* and no agent's own configuration.  (merge_default_actions)              *)
THEOREM SyncMovesOnlyTheSilent == Spec => SyncKeepsNamedEntries
<1>1. [Next]_vars =>
        [\A server \in Servers, risks \in Discoveries : Sync(server, risks) =>
           \A a \in Scopes, s \in Servers, t \in Tools, args \in Args,
              trust \in TrustStates :
              LET before == Evaluate(stored, a, s, t, args, trust)
                  after  == Evaluate(stored', a, s, t, args, trust)
              IN  before # after =>
                    /\ s = server /\ t \in DOMAIN risks
                    /\ <<AllAgents, s, t>> \notin DOMAIN stored
                    /\ a # AllAgents => ToolCfg(stored, a, s, t) = EmptyCfg
                    /\ after # "deny" => (risks[t] = "Low" /\ trust = "Verified")
        ]_vars
  <2> SUFFICES ASSUME NEW server \in Servers, NEW risks \in Discoveries,
                      Sync(server, risks),
                      NEW a \in Scopes, NEW s \in Servers, NEW t \in Tools,
                      NEW args \in Args, NEW trust \in TrustStates,
                      Evaluate(stored, a, s, t, args, trust)
                        # Evaluate(stored', a, s, t, args, trust)
               PROVE  /\ s = server /\ t \in DOMAIN risks
                      /\ <<AllAgents, s, t>> \notin DOMAIN stored
                      /\ a # AllAgents => ToolCfg(stored, a, s, t) = EmptyCfg
                      /\ Evaluate(stored', a, s, t, args, trust) # "deny"
                           => (risks[t] = "Low" /\ trust = "Verified")
    OBVIOUS
  <2>1. stored' = MergeDefaultActions(stored, server, risks)
    BY DEF Sync
  <2> QED BY <2>1, MergeFillsGaps
<1> QED BY <1>1, PTL DEF Spec, SyncKeepsNamedEntries

-----------------------------------------------------------------------------
(* A staged rule.                                                          *)

(* The edit at <<scope, server, tool>> is what scope x has on s and t.     *)
Touches(doc, scope, server, tool, x, s, t) ==
    /\ x = scope /\ s = server
    /\ tool = t \/ (tool = Star /\ <<scope, s, t>> \notin DOMAIN doc)

LEMMA PutCfgTouches ==
    ASSUME NEW doc, NEW scope, NEW server, NEW tool, NEW cfg,
           NEW x, NEW s, NEW t \in Tools
    PROVE  /\ Touches(doc, scope, server, tool, x, s, t) =>
                ToolCfg(PutCfg(doc, <<scope, server, tool>>, cfg), x, s, t) = cfg
           /\ ~Touches(doc, scope, server, tool, x, s, t) =>
                ToolCfg(PutCfg(doc, <<scope, server, tool>>, cfg), x, s, t)
                  = ToolCfg(doc, x, s, t)
<1> DEFINE new == PutCfg(doc, <<scope, server, tool>>, cfg)
           at(y, z, w) == y = scope /\ z = server /\ w = tool
<1>1. \A y, z, w : /\ at(y, z, w) => /\ <<y, z, w>> \in DOMAIN new
                                     /\ new[<<y, z, w>>] = cfg
                   /\ ~at(y, z, w) => /\ <<y, z, w>> \in DOMAIN new
                                           <=> <<y, z, w>> \in DOMAIN doc
                                      /\ <<y, z, w>> \in DOMAIN doc =>
                                           new[<<y, z, w>>] = doc[<<y, z, w>>]
  BY DEF PutCfg
<1>2. t # Star
  BY PolicyAssumption
<1> HIDE DEF new
<1>3. Touches(doc, scope, server, tool, x, s, t) => ToolCfg(new, x, s, t) = cfg
  BY <1>1, <1>2 DEF Touches, ToolCfg
<1>4. ~Touches(doc, scope, server, tool, x, s, t)
        => ToolCfg(new, x, s, t) = ToolCfg(doc, x, s, t)
  <2>1. CASE at(x, s, t)
    BY <2>1 DEF Touches
  <2>2. CASE at(x, s, Star) /\ ~at(x, s, t)
    BY <1>1, <1>2, <2>2 DEF Touches, ToolCfg
  <2>3. CASE ~at(x, s, Star) /\ ~at(x, s, t)
    <3> HIDE DEF at
    <3> QED BY <1>1, <2>3 DEF ToolCfg
  <2> QED BY <2>1, <2>2, <2>3
<1> QED BY <1>3, <1>4 DEF new

(* What an edit does not reach is configured as before ...                 *)
LEMMA UnreachedKeepTheirCfg ==
    ASSUME NEW doc, NEW scope \in Scopes, NEW server, NEW tool, NEW cfg,
           NEW a \in Scopes, NEW s, NEW t \in Tools,
           ~Reaches(doc, scope, server, tool, a, s, t)
    PROVE  EffectiveCfg(PutCfg(doc, <<scope, server, tool>>, cfg), a, s, t)
             = EffectiveCfg(doc, a, s, t)
<1> DEFINE new == PutCfg(doc, <<scope, server, tool>>, cfg)
<1>1. \A x : ~Touches(doc, scope, server, tool, x, s, t)
               => ToolCfg(new, x, s, t) = ToolCfg(doc, x, s, t)
  BY PutCfgTouches
<1> HIDE DEF new
<1>2. ToolCfg(new, a, s, t) = ToolCfg(doc, a, s, t)
  BY <1>1 DEF Touches, Reaches
<1>3. a = AllAgents \/ ToolCfg(doc, a, s, t) = EmptyCfg
        => ToolCfg(new, AllAgents, s, t) = ToolCfg(doc, AllAgents, s, t)
  BY <1>1, <1>2 DEF Touches, Reaches
<1>4. EffectiveCfg(new, a, s, t) = EffectiveCfg(doc, a, s, t)
  BY <1>2, <1>3 DEF EffectiveCfg
<1> QED BY <1>4 DEF new

(* ... and what it reaches as the edit says, unless the edit is empty.     *)
LEMMA ReachedGetTheEdit ==
    ASSUME NEW doc, NEW scope \in Scopes, NEW server, NEW tool, NEW cfg,
           cfg # EmptyCfg,
           NEW a \in Scopes, NEW s, NEW t \in Tools,
           Reaches(doc, scope, server, tool, a, s, t)
    PROVE  EffectiveCfg(PutCfg(doc, <<scope, server, tool>>, cfg), a, s, t) = cfg
<1> DEFINE new == PutCfg(doc, <<scope, server, tool>>, cfg)
<1>1. \A x : /\ Touches(doc, scope, server, tool, x, s, t)
                  => ToolCfg(new, x, s, t) = cfg
             /\ ~Touches(doc, scope, server, tool, x, s, t)
                  => ToolCfg(new, x, s, t) = ToolCfg(doc, x, s, t)
  BY PutCfgTouches
<1> HIDE DEF new
<1>2. Touches(doc, scope, server, tool, scope, s, t)
  BY DEF Touches, Reaches
<1>3. ToolCfg(new, scope, s, t) = cfg
  BY <1>1, <1>2
<1>4. EffectiveCfg(new, a, s, t) = cfg
  <2>1. CASE a = scope
    BY <1>3, <2>1 DEF EffectiveCfg
  <2>2. CASE a # scope
    <3>1. scope = AllAgents /\ ToolCfg(doc, a, s, t) = EmptyCfg
      BY <2>2 DEF Reaches
    <3>2. ToolCfg(new, a, s, t) = EmptyCfg
      BY <1>1, <2>2, <3>1 DEF Touches
    <3> QED BY <1>3, <3>1, <3>2 DEF EffectiveCfg
  <2> QED BY <2>1, <2>2
<1> QED BY <1>4 DEF new

LEMMA SameCfgSameDecision ==
    ASSUME NEW doc, NEW new, NEW a, NEW s, NEW t, NEW args, NEW trust,
           EffectiveCfg(new, a, s, t) = EffectiveCfg(doc, a, s, t)
    PROVE  Evaluate(new, a, s, t, args, trust) = Evaluate(doc, a, s, t, args, trust)
BY DEF Evaluate

LEMMA EditIsLocal ==
    ASSUME NEW doc, NEW scope \in Scopes, NEW server, NEW tool, NEW cfg
    PROVE  ChangesOnlyReached(doc, PutCfg(doc, <<scope, server, tool>>, cfg),
                              scope, server, tool)
BY UnreachedKeepTheirCfg, SameCfgSameDecision DEF ChangesOnlyReached

(* What a builder stages is the editor's text with one entry put.          *)
LEMMA RuleStages ==
    ASSUME Shape, NEW c \in Consoles, NEW scope, NEW server, NEW tool, NEW action,
           SubmitRule(c, scope, server, tool, action)
    PROVE  previews'[c]["rule"]
             = PutCfg(draft[c], <<scope, server, tool>>,
                      [action |-> action,
                       rules |-> CfgAt(draft[c], <<scope, server, tool>>).rules])
<1>1. previews'[c]["rule"] = UpsertRule(draft[c], scope, server, tool, action)
  BY DEF SubmitRule, Stage, Shape, Builders
<1> QED BY <1>1 DEF UpsertRule

ParamCfg(doc, key, param, op, value, decision) ==
    LET cfg     == CfgAt(doc, key)
        newRule == [param |-> param, ops |-> [o \in {op} |-> value],
                    decision |-> decision]
        same    == {i \in DOMAIN cfg.rules :
                       /\ cfg.rules[i].param = param
                       /\ op \in DOMAIN cfg.rules[i].ops}
    IN  [action |-> cfg.action,
         rules  |-> IF same = {} THEN Append(cfg.rules, newRule)
                    ELSE [cfg.rules EXCEPT ![FirstOf(same)] = newRule]]

LEMMA ParamRuleStages ==
    ASSUME Shape, NEW c \in Consoles, NEW scope, NEW server, NEW tool, NEW param,
           NEW op, NEW value, NEW decision,
           SubmitParamRule(c, scope, server, tool, param, op, value, decision)
    PROVE  previews'[c]["param"]
             = PutCfg(draft[c], <<scope, server, tool>>,
                      ParamCfg(draft[c], <<scope, server, tool>>,
                               param, op, value, decision))
<1>1. previews'[c]["param"]
        = UpsertParamRule(draft[c], scope, server, tool, param, op, value, decision)
  BY DEF SubmitParamRule, Stage, Shape, Builders
<1> QED BY <1>1 DEF UpsertParamRule, ParamCfg

(* No builder moves a call outside its scope, server and tool.             *)
(* (upsert_rule, upsert_param_rule against _effective_tool_cfg)            *)
THEOREM BuildersAreLocal == Spec => StagedRuleIsLocal
<1>1. Shape /\ [Next]_vars =>
        [\A c \in Consoles, scope \in Scopes, server \in Servers,
           tool \in ToolKeys :
           /\ \A action \in ActionNames :
                SubmitRule(c, scope, server, tool, action) =>
                  ChangesOnlyReached(draft[c], previews'[c]["rule"],
                                     scope, server, tool)
           /\ \A param \in Params, op \in BuilderOperators,
                value \in BuilderValues, decision \in ActionNames :
                SubmitParamRule(c, scope, server, tool,
                                param, op, value, decision) =>
                  ChangesOnlyReached(draft[c], previews'[c]["param"],
                                     scope, server, tool)
        ]_vars
  <2>1. ASSUME Shape, NEW c \in Consoles, NEW scope \in Scopes,
               NEW server \in Servers, NEW tool \in ToolKeys,
               NEW action \in ActionNames,
               SubmitRule(c, scope, server, tool, action)
        PROVE  ChangesOnlyReached(draft[c], previews'[c]["rule"],
                                  scope, server, tool)
    <3> DEFINE cfg == [action |-> action,
                       rules |-> CfgAt(draft[c], <<scope, server, tool>>).rules]
    <3>1. previews'[c]["rule"] = PutCfg(draft[c], <<scope, server, tool>>, cfg)
      BY <2>1, RuleStages
    <3> HIDE DEF cfg
    <3>2. ChangesOnlyReached(draft[c], PutCfg(draft[c], <<scope, server, tool>>, cfg),
                             scope, server, tool)
      BY EditIsLocal
    <3> QED BY <3>1, <3>2, Zenon
  <2>2. ASSUME Shape, NEW c \in Consoles, NEW scope \in Scopes,
               NEW server \in Servers, NEW tool \in ToolKeys,
               NEW param \in Params, NEW op \in BuilderOperators,
               NEW value \in BuilderValues, NEW decision \in ActionNames,
               SubmitParamRule(c, scope, server, tool, param, op, value, decision)
        PROVE  ChangesOnlyReached(draft[c], previews'[c]["param"],
                                  scope, server, tool)
    <3> DEFINE cfg == ParamCfg(draft[c], <<scope, server, tool>>,
                               param, op, value, decision)
    <3>1. previews'[c]["param"] = PutCfg(draft[c], <<scope, server, tool>>, cfg)
      BY <2>2, ParamRuleStages
    <3> HIDE DEF cfg
    <3>2. ChangesOnlyReached(draft[c], PutCfg(draft[c], <<scope, server, tool>>, cfg),
                             scope, server, tool)
      BY EditIsLocal
    <3> QED BY <3>1, <3>2, Zenon
  <2> QED BY <2>1, <2>2
<1> QED BY <1>1, Invariant, PTL DEF Spec, StagedRuleIsLocal

LEMMA DenyingCfgDenies ==
    ASSUME NEW doc, NEW a, NEW s, NEW t, NEW args, NEW trust,
           EffectiveCfg(doc, a, s, t).action \notin {"allow", "require_approval"}
    PROVE  Evaluate(doc, a, s, t, args, trust) = "deny"
BY DEF Evaluate

(* A deny rule denies all it reaches, whatever the document held.          *)
(* (upsert_rule)                                                           *)
THEOREM DenyRulesDeny == Spec => DenyRuleTakesEffect
<1>1. ASSUME Shape, NEW c \in Consoles, NEW scope \in Scopes,
             NEW server \in Servers, NEW tool \in ToolKeys,
             SubmitRule(c, scope, server, tool, "deny"),
             NEW a \in Scopes, NEW t \in Tools, NEW args \in Args,
             NEW trust \in TrustStates,
             Reaches(draft[c], scope, server, tool, a, server, t)
      PROVE  Evaluate(previews'[c]["rule"], a, server, t, args, trust) = "deny"
  <2> DEFINE cfg == [action |-> "deny",
                     rules |-> CfgAt(draft[c], <<scope, server, tool>>).rules]
             new == PutCfg(draft[c], <<scope, server, tool>>, cfg)
  <2>1. previews'[c]["rule"] = new
    BY <1>1, RuleStages
  <2>2. cfg # EmptyCfg /\ cfg.action = "deny"
    BY DEF EmptyCfg
  <2> HIDE DEF cfg
  <2>3. EffectiveCfg(new, a, server, t) = cfg
    BY <1>1, <2>2, ReachedGetTheEdit
  <2> HIDE DEF new
  <2>4. EffectiveCfg(new, a, server, t).action \notin {"allow", "require_approval"}
    BY <2>2, <2>3
  <2> QED BY <2>1, <2>4, DenyingCfgDenies
<1>2. Shape /\ [Next]_vars =>
        [\A c \in Consoles, scope \in Scopes, server \in Servers,
           tool \in ToolKeys :
           SubmitRule(c, scope, server, tool, "deny") =>
             \A a \in Scopes, t \in Tools, args \in Args,
                trust \in TrustStates :
                Reaches(draft[c], scope, server, tool, a, server, t)
                  => Evaluate(previews'[c]["rule"], a, server, t, args, trust)
                       = "deny"
        ]_vars
  <2> SUFFICES ASSUME Shape, NEW c \in Consoles, NEW scope \in Scopes,
                      NEW server \in Servers, NEW tool \in ToolKeys,
                      SubmitRule(c, scope, server, tool, "deny"),
                      NEW a \in Scopes, NEW t \in Tools, NEW args \in Args,
                      NEW trust \in TrustStates,
                      Reaches(draft[c], scope, server, tool, a, server, t)
               PROVE  Evaluate(previews'[c]["rule"], a, server, t, args, trust)
                        = "deny"
    OBVIOUS
  <2> QED BY <1>1
<1> QED BY <1>2, Invariant, PTL DEF Spec, DenyRuleTakesEffect

-----------------------------------------------------------------------------
(* A staged parameter rule.                                                *)

LEMMA FirstIsThere ==
    ASSUME NEW T \in SUBSET Nat, T # {}
    PROVE  FirstOf(T) \in T
<1> DEFINE R == {ss \in Nat \X Nat : ss[1] < ss[2]}
<1>1. IsWellFoundedOn(R, Nat)
  BY NatLessThanWellFounded DEF OpToRel
<1>2. \A i, j \in Nat : j < i => <<j, i>> \in R
  OBVIOUS
<1> HIDE DEF R
<1>3. PICK i \in T : \A j \in T : ~(<<j, i>> \in R)
  BY <1>1, WFMin
<1>4. \A j \in T : i <= j
  <2>1. \A j \in T : i \in Nat /\ j \in Nat /\ ~(j < i)
    BY <1>2, <1>3
  <2> QED BY <2>1
<1> QED BY <1>4 DEF FirstOf

(* The calls a parameter rule put at the entry `was' is about.             *)
About(was, param, op, value, args) ==
    /\ args[param] # Missing
    /\ \/ OperatorHolds(op, args[param], value)
       \/ \E i \in DOMAIN was.rules :
             /\ was.rules[i].param = param
             /\ op \in DOMAIN was.rules[i].ops
             /\ RuleFires(was.rules[i], args)

(* Neither the new rule nor the one it replaces fires on another call, so  *)
(* the first rule that fires is the one that did.                          *)
LEMMA OthersDecideAsBefore ==
    ASSUME NEW doc, IsPolicy(doc), NEW key, NEW param, NEW op, NEW value,
           NEW decision, NEW args,
           ~About(CfgAt(doc, key), param, op, value, args)
    PROVE  ParamDecision(ParamCfg(doc, key, param, op, value, decision), args)
             = ParamDecision(CfgAt(doc, key), args)
<1> DEFINE was == CfgAt(doc, key)
           old == was.rules
           newRule == [param |-> param, ops |-> [o \in {op} |-> value],
                       decision |-> decision]
           same == {i \in DOMAIN old : /\ old[i].param = param
                                       /\ op \in DOMAIN old[i].ops}
           rules == IF same = {} THEN Append(old, newRule)
                    ELSE [old EXCEPT ![FirstOf(same)] = newRule]
           firing(s) == {i \in DOMAIN s : RuleFires(s[i], args)}
<1>1. old \in Seq(Rules)
  BY CfgAtType DEF Cfgs
<1>2. ~RuleFires(newRule, args)
  BY DEF RuleFires, About
<1>3. \A i \in same : ~RuleFires(old[i], args)
  BY DEF RuleFires, About
<1> HIDE DEF was, newRule
<1>4. firing(rules) = firing(old)
      /\ \A i \in firing(old) : rules[i] = old[i]
  <2>1. CASE same = {}
    <3>1. rules = Append(old, newRule)
      BY <2>1
    <3>2. DOMAIN rules = DOMAIN old \cup {Len(old) + 1}
          /\ Len(old) + 1 \notin DOMAIN old
      BY <1>1, <3>1
    <3>3. rules[Len(old) + 1] = newRule /\ \A i \in DOMAIN old : rules[i] = old[i]
      BY <1>1, <3>1
    <3> HIDE DEF rules, old
    <3> QED BY <1>2, <3>2, <3>3
  <2>2. CASE same # {}
    <3>1. same \subseteq Nat
      BY <1>1
    <3>2. FirstOf(same) \in same
      BY <2>2, <3>1, FirstIsThere
    <3>3. rules = [old EXCEPT ![FirstOf(same)] = newRule]
      BY <2>2
    <3>4. ~RuleFires(old[FirstOf(same)], args) /\ FirstOf(same) \in DOMAIN old
      BY <1>3, <3>2
    <3>5. DOMAIN rules = DOMAIN old
          /\ \A i \in DOMAIN old :
                rules[i] = IF i = FirstOf(same) THEN newRule ELSE old[i]
      BY <3>3
    <3> HIDE DEF rules, old, same
    <3> QED BY <1>2, <3>4, <3>5
  <2> QED BY <2>1, <2>2
<1>5. ParamCfg(doc, key, param, op, value, decision).rules = rules
  BY DEF ParamCfg, was, newRule
<1> HIDE DEF rules, old
<1>6. firing(old) # {} => FirstOf(firing(old)) \in firing(old)
  <2>1. firing(old) \in SUBSET Nat
    BY <1>1
  <2> QED BY <2>1, FirstIsThere
<1> QED BY <1>4, <1>5, <1>6 DEF ParamDecision, old, was

(* What an edit at an entry that is there reaches is decided by that entry. *)
LEMMA ReachedHadTheEntry ==
    ASSUME NEW doc, NEW scope \in Scopes, NEW server, NEW tool,
           CfgAt(doc, <<scope, server, tool>>) # EmptyCfg,
           NEW a \in Scopes, NEW t \in Tools,
           Reaches(doc, scope, server, tool, a, server, t)
    PROVE  EffectiveCfg(doc, a, server, t) = CfgAt(doc, <<scope, server, tool>>)
<1> DEFINE was == CfgAt(doc, <<scope, server, tool>>)
<1>1. /\ <<scope, server, tool>> \in DOMAIN doc
      /\ was = doc[<<scope, server, tool>>]
  BY DEF CfgAt
<1>2. ToolCfg(doc, scope, server, t) = was
  BY <1>1 DEF ToolCfg, Reaches
<1>3. was # EmptyCfg
  OBVIOUS
<1> HIDE DEF was
<1>4. EffectiveCfg(doc, a, server, t) = was
  BY <1>2, <1>3 DEF EffectiveCfg, Reaches
<1> QED BY <1>4 DEF was

LEMMA ParamCfgIsNotEmpty ==
    ASSUME NEW doc, IsPolicy(doc), NEW key, NEW param, NEW op, NEW value,
           NEW decision
    PROVE  /\ ParamCfg(doc, key, param, op, value, decision) # EmptyCfg
           /\ ParamCfg(doc, key, param, op, value, decision).action
                = CfgAt(doc, key).action
<1> DEFINE was == CfgAt(doc, key)
           cfg == ParamCfg(doc, key, param, op, value, decision)
           newRule == [param |-> param, ops |-> [o \in {op} |-> value],
                       decision |-> decision]
           same == {i \in DOMAIN was.rules : /\ was.rules[i].param = param
                                             /\ op \in DOMAIN was.rules[i].ops}
<1>1. was.rules \in Seq(Rules)
  BY CfgAtType DEF Cfgs
<1>2. /\ cfg.action = was.action
      /\ cfg.rules = IF same = {} THEN Append(was.rules, newRule)
                     ELSE [was.rules EXCEPT ![FirstOf(same)] = newRule]
  BY DEF ParamCfg
<1> HIDE DEF cfg, was, newRule
<1>3. DOMAIN cfg.rules # {}
  <2>1. CASE same = {}
    BY <1>1, <1>2, <2>1
  <2>2. CASE same # {}
    <3>1. DOMAIN was.rules # {}
      BY <2>2
    <3>2. cfg.rules = [was.rules EXCEPT ![FirstOf(same)] = newRule]
      BY <1>2, <2>2
    <3> HIDE DEF same
    <3> QED BY <3>1, <3>2
  <2> QED BY <2>1, <2>2
<1>4. DOMAIN EmptyCfg.rules = {}
  BY DEF EmptyCfg
<1> QED BY <1>2, <1>3, <1>4 DEF cfg, was

LEMMA ParamRuleMoves ==
    ASSUME NEW doc, IsPolicy(doc), NEW scope \in Scopes, NEW server, NEW tool,
           NEW param, NEW op, NEW value, NEW decision,
           NEW a \in Scopes, NEW t \in Tools, NEW args, NEW trust,
           Reaches(doc, scope, server, tool, a, server, t),
           LET was == CfgAt(doc, <<scope, server, tool>>)
           IN  ~(was # EmptyCfg /\ About(was, param, op, value, args))
    PROVE  LET key == <<scope, server, tool>>
               new == PutCfg(doc, key, ParamCfg(doc, key, param, op, value,
                                                decision))
           IN  Evaluate(new, a, server, t, args, trust) =
                 IF CfgAt(doc, key) = EmptyCfg THEN "deny"
                 ELSE Evaluate(doc, a, server, t, args, trust)
<1> DEFINE key == <<scope, server, tool>>
           was == CfgAt(doc, key)
           cfg == ParamCfg(doc, key, param, op, value, decision)
           new == PutCfg(doc, key, cfg)
<1>1. cfg # EmptyCfg /\ cfg.action = was.action
  BY ParamCfgIsNotEmpty
<1>2. EffectiveCfg(new, a, server, t) = cfg
  <2> HIDE DEF cfg
  <2> QED BY <1>1, ReachedGetTheEdit
<1>3. CASE was = EmptyCfg
  <2>1. cfg.action = "none"
    BY <1>1, <1>3 DEF EmptyCfg
  <2> HIDE DEF new, cfg
  <2>2. Evaluate(new, a, server, t, args, trust) = "deny"
    BY <1>2, <2>1, DenyingCfgDenies
  <2> QED BY <1>3, <2>2 DEF new, cfg
<1>4. CASE was # EmptyCfg
  <2>1. ParamDecision(cfg, args) = ParamDecision(was, args)
    BY <1>4, OthersDecideAsBefore
  <2>2. EffectiveCfg(doc, a, server, t) = was
    BY <1>4, ReachedHadTheEntry
  <2> HIDE DEF new, cfg, was
  <2>3. Evaluate(new, a, server, t, args, trust)
          = Evaluate(doc, a, server, t, args, trust)
    BY <1>1, <1>2, <2>1, <2>2 DEF Evaluate
  <2> QED BY <1>4, <2>3 DEF new, cfg, was
<1> QED BY <1>3, <1>4

(* A parameter rule moves the calls it is about, or, where nothing was     *)
(* configured, closes all it reaches.                                      *)
(* (upsert_param_rule against _param_rule and _effective_tool_cfg)         *)
THEOREM ParamRulesMoveTheirCalls == Spec => ParamRuleMovesItsCalls
<1>1. ASSUME TypeOK, Shape, NEW c \in Consoles, NEW scope \in Scopes,
             NEW server \in Servers, NEW tool \in ToolKeys, NEW param \in Params,
             NEW op \in BuilderOperators, NEW value \in BuilderValues,
             NEW decision \in ActionNames,
             SubmitParamRule(c, scope, server, tool, param, op, value, decision),
             NEW a \in Scopes, NEW t \in Tools, NEW args \in Args,
             NEW trust \in TrustStates,
             Reaches(draft[c], scope, server, tool, a, server, t)
      PROVE  LET was == CfgAt(draft[c], <<scope, server, tool>>)
             IN  \/ was # EmptyCfg /\ About(was, param, op, value, args)
                 \/ Evaluate(previews'[c]["param"], a, server, t, args, trust) =
                      IF was = EmptyCfg THEN "deny"
                      ELSE Evaluate(draft[c], a, server, t, args, trust)
  <2> DEFINE doc == draft[c]
             key == <<scope, server, tool>>
  <2>1. IsPolicy(doc)
    BY <1>1 DEF TypeOK, IsText, SubmitParamRule, Stage
  <2>2. previews'[c]["param"]
          = PutCfg(doc, key, ParamCfg(doc, key, param, op, value, decision))
    BY <1>1, ParamRuleStages
  <2> HIDE DEF doc
  <2>3. ~(CfgAt(doc, key) # EmptyCfg
            /\ About(CfgAt(doc, key), param, op, value, args)) =>
        Evaluate(PutCfg(doc, key, ParamCfg(doc, key, param, op, value, decision)),
                 a, server, t, args, trust) =
          IF CfgAt(doc, key) = EmptyCfg THEN "deny"
          ELSE Evaluate(doc, a, server, t, args, trust)
    <3>1. Reaches(doc, scope, server, tool, a, server, t)
      BY <1>1 DEF doc
    <3> QED BY <2>1, <3>1, ParamRuleMoves
  <2> QED BY <2>2, <2>3 DEF doc
<1>2. TypeOK /\ Shape /\ [Next]_vars => [
         \A c \in Consoles, scope \in Scopes, server \in Servers,
            tool \in ToolKeys, param \in Params, op \in BuilderOperators,
            value \in BuilderValues, decision \in ActionNames :
            SubmitParamRule(c, scope, server, tool,
                            param, op, value, decision) =>
              LET was   == CfgAt(draft[c], <<scope, server, tool>>)
                  after == previews'[c]["param"]
                  about(args) ==
                    /\ args[param] # Missing
                    /\ \/ OperatorHolds(op, args[param], value)
                       \/ \E i \in DOMAIN was.rules :
                             /\ was.rules[i].param = param
                             /\ op \in DOMAIN was.rules[i].ops
                             /\ RuleFires(was.rules[i], args)
              IN  \A a \in Scopes, t \in Tools, args \in Args,
                     trust \in TrustStates :
                    Reaches(draft[c], scope, server, tool, a, server, t) =>
                      \/ was # EmptyCfg /\ about(args)
                      \/ Evaluate(after, a, server, t, args, trust) =
                           IF was = EmptyCfg THEN "deny"
                           ELSE Evaluate(draft[c], a, server, t, args, trust)
         ]_vars
  BY <1>1, Zenon DEF About
<1> QED BY <1>2, Invariant, PTL DEF Spec, ParamRuleMovesItsCalls

-----------------------------------------------------------------------------
(* Edits that are repeated or overlap.                                     *)

(* A sync that is repeated changes nothing, even if its second discovery   *)
(* misses tools or grades some differently: what the first one wrote is an *)
(* entry like any other, and a later risk does not replace it.             *)
(* (merge_default_actions)                                                 *)
THEOREM SyncAgainChangesNothing ==
    ASSUME NEW doc, NEW server \in Servers, NEW risks \in Discoveries,
           NEW again \in Discoveries, DOMAIN again \subseteq DOMAIN risks
    PROVE  LET once == MergeDefaultActions(doc, server, risks)
           IN  MergeDefaultActions(once, server, again) = once
<1> DEFINE once  == MergeDefaultActions(doc, server, risks)
           twice == MergeDefaultActions(once, server, again)
<1>1. {<<AllAgents, server, t>> : t \in DOMAIN again} \subseteq DOMAIN once
  BY DEF MergeDefaultActions
<1>2. once = [k \in DOMAIN once |-> once[k]]
  BY DEF MergeDefaultActions
<1> HIDE DEF once
<1>3. twice = [k \in DOMAIN once |-> once[k]]
  BY <1>1 DEF MergeDefaultActions
<1> QED BY <1>2, <1>3 DEF once

(* Syncs of different servers that follow each other in either order leave *)
(* the same policy: the write lock may be had by either first.             *)
(* (_sync_real_tools)                                                      *)
THEOREM SyncsOfTwoServersCommute ==
    ASSUME NEW doc, NEW s1 \in Servers, NEW s2 \in Servers, s1 # s2,
           NEW r1 \in Discoveries, NEW r2 \in Discoveries
    PROVE  MergeDefaultActions(MergeDefaultActions(doc, s1, r1), s2, r2)
             = MergeDefaultActions(MergeDefaultActions(doc, s2, r2), s1, r1)
<1> DEFINE d1 == {<<AllAgents, s1, t>> : t \in DOMAIN r1}
           d2 == {<<AllAgents, s2, t>> : t \in DOMAIN r2}
           default(r, k) == [action |-> DefaultAction(r[k[3]]), rules |-> << >>]
           first  == MergeDefaultActions(doc, s1, r1)
           second == MergeDefaultActions(doc, s2, r2)
           either == [k \in DOMAIN doc \cup d1 \cup d2 |->
                        IF k \in DOMAIN doc THEN doc[k]
                        ELSE IF k \in d1 THEN default(r1, k) ELSE default(r2, k)]
<1>1. d1 \cap d2 = {}
  OBVIOUS
<1>2. /\ first = [k \in DOMAIN doc \cup d1 |->
                     IF k \in DOMAIN doc THEN doc[k] ELSE default(r1, k)]
      /\ second = [k \in DOMAIN doc \cup d2 |->
                     IF k \in DOMAIN doc THEN doc[k] ELSE default(r2, k)]
  BY DEF MergeDefaultActions
<1>3. /\ MergeDefaultActions(first, s2, r2)
           = [k \in DOMAIN first \cup d2 |->
                IF k \in DOMAIN first THEN first[k] ELSE default(r2, k)]
      /\ MergeDefaultActions(second, s1, r1)
           = [k \in DOMAIN second \cup d1 |->
                IF k \in DOMAIN second THEN second[k] ELSE default(r1, k)]
  BY DEF MergeDefaultActions
<1> HIDE DEF d1, d2, default, first, second
<1>4. MergeDefaultActions(first, s2, r2) = either
  BY <1>2, <1>3
<1>5. MergeDefaultActions(second, s1, r1) = either
  BY <1>1, <1>2, <1>3
<1> QED BY <1>4, <1>5 DEF first, second

LEMMA PutTwice ==
    ASSUME NEW doc, NEW key, NEW cfg
    PROVE  /\ CfgAt(PutCfg(doc, key, cfg), key) = cfg
           /\ PutCfg(PutCfg(doc, key, cfg), key, cfg) = PutCfg(doc, key, cfg)
BY DEF PutCfg, CfgAt

(* The rule builder, pressed again on the text it gave, gives that text.   *)
(* (upsert_rule)                                                           *)
THEOREM RuleAgainChangesNothing ==
    ASSUME NEW doc, NEW scope, NEW server, NEW tool, NEW action
    PROVE  LET once == UpsertRule(doc, scope, server, tool, action)
           IN  UpsertRule(once, scope, server, tool, action) = once
<1> DEFINE key == <<scope, server, tool>>
           cfg == [action |-> action, rules |-> CfgAt(doc, key).rules]
           once == PutCfg(doc, key, cfg)
<1>1. cfg.rules = CfgAt(doc, key).rules
  OBVIOUS
<1> HIDE DEF cfg
<1>2. CfgAt(once, key) = cfg /\ PutCfg(once, key, cfg) = once
  BY PutTwice
<1>3. cfg = [action |-> action, rules |-> CfgAt(once, key).rules]
  BY <1>1, <1>2 DEF cfg
<1> HIDE DEF once, key
<1> QED BY <1>2, <1>3 DEF UpsertRule, once, key, cfg

LEMMA AppendedSeq ==
    ASSUME NEW S, NEW s \in Seq(S), NEW x
    PROVE  LET t == Append(s, x)
           IN  /\ DOMAIN t = 1..(Len(s) + 1) /\ t[Len(s) + 1] = x
               /\ \A i \in 1..Len(s) : t[i] = s[i]
               /\ t = [i \in DOMAIN t |-> t[i]]
<1> DEFINE T == S \cup {x}
           t == Append(s, x)
<1>1. s \in Seq(T) /\ x \in T
  BY SeqMonotonic
<1>2. /\ t \in Seq(T) /\ Len(t) = Len(s) + 1
      /\ t[Len(s) + 1] = x /\ \A i \in 1..Len(s) : t[i] = s[i]
  BY <1>1, AppendProperties
<1> HIDE DEF t
<1>3. PICK m \in Nat : t \in [1..m -> T]
  BY <1>2, SeqDef
<1>4. DOMAIN t = 1..Len(t) /\ t = [i \in DOMAIN t |-> t[i]]
  BY <1>2, <1>3
<1> QED BY <1>2, <1>4 DEF t

(* So is the parameter rule builder: the rule it appended, or put in the   *)
(* place of the first one on the parameter and operator, is the one the    *)
(* next request finds and replaces, so rules never pile up.                *)
(* (upsert_param_rule)                                                     *)
THEOREM ParamRuleAgainChangesNothing ==
    ASSUME NEW doc, IsPolicy(doc), NEW scope, NEW server, NEW tool,
           NEW param, NEW op, NEW value, NEW decision
    PROVE  LET once == UpsertParamRule(doc, scope, server, tool, param, op,
                                       value, decision)
           IN  UpsertParamRule(once, scope, server, tool, param, op, value,
                               decision) = once
<1> DEFINE key == <<scope, server, tool>>
           was == CfgAt(doc, key)
           new == [param |-> param, ops |-> [o \in {op} |-> value],
                   decision |-> decision]
           Same(rules) == {i \in DOMAIN rules : /\ rules[i].param = param
                                                /\ op \in DOMAIN rules[i].ops}
           Put(rules) == IF Same(rules) = {} THEN Append(rules, new)
                         ELSE [rules EXCEPT ![FirstOf(Same(rules))] = new]
           cfg == [action |-> was.action, rules |-> Put(was.rules)]
           once == PutCfg(doc, key, cfg)
<1>1. was.rules \in Seq(Rules)
  <2>1. was \in Cfgs
    BY CfgAtType
  <2> HIDE DEF was
  <2> QED BY <2>1 DEF Cfgs
<1>2. new.param = param /\ op \in DOMAIN new.ops
  OBVIOUS
<1> HIDE DEF was, new
<1>3. Put(Put(was.rules)) = Put(was.rules)
  <2> DEFINE old == was.rules
             n == Len(old)
             put == Put(old)
  <2>1. old \in Seq(Rules) /\ n \in Nat /\ DOMAIN old = 1..n
    BY <1>1
  <2> HIDE DEF old, n
  <2>2. CASE Same(old) = {}
    <3>1. put = Append(old, new)
      BY <2>2
    <3>2. /\ DOMAIN put = 1..(n + 1) /\ put[n + 1] = new
          /\ \A i \in 1..n : put[i] = old[i]
          /\ put = [i \in DOMAIN put |-> put[i]]
      <4>1. /\ DOMAIN Append(old, new) = 1..(n + 1) /\ Append(old, new)[n + 1] = new
            /\ \A i \in 1..n : Append(old, new)[i] = old[i]
            /\ Append(old, new)
                 = [i \in DOMAIN Append(old, new) |-> Append(old, new)[i]]
        BY <2>1, AppendedSeq, Zenon DEF n
      <4> HIDE DEF put
      <4> QED BY <3>1, <4>1, Zenon
    <3> HIDE DEF put
    <3>3. Same(put) = {n + 1}
      <4>1. \A i \in 1..n : i \notin Same(put)
        BY <2>1, <2>2, <3>2
      <4>2. n + 1 \in Same(put)
        BY <1>2, <2>1, <3>2
      <4> QED BY <2>1, <3>2, <4>1, <4>2
    <3>4. FirstOf(Same(put)) = n + 1
      BY <2>1, <3>3 DEF FirstOf
    <3>5. [put EXCEPT ![n + 1] = new] = put
      BY <3>2
    <3>6. Put(put) = [put EXCEPT ![FirstOf(Same(put))] = new]
      BY <3>3
    <3> QED BY <3>4, <3>5, <3>6 DEF put, old
  <2>3. CASE Same(old) # {}
    <3> DEFINE f == FirstOf(Same(old))
    <3>1. put = [old EXCEPT ![f] = new]
      BY <2>3
    <3>2. f \in Same(old)
      <4>1. Same(old) \in SUBSET Nat
        BY <2>1
      <4> HIDE DEF Same
      <4> QED BY <2>3, <4>1, FirstIsThere
    <3> HIDE DEF f
    <3>3. /\ DOMAIN put = DOMAIN old /\ f \in DOMAIN old /\ put[f] = new
          /\ \A i \in DOMAIN old : i # f => put[i] = old[i]
          /\ put = [i \in DOMAIN put |-> put[i]]
      <4>1. f \in DOMAIN old
        BY <3>2
      <4> HIDE DEF put, Same
      <4> QED BY <3>1, <4>1
    <3> HIDE DEF put
    <3>4. Same(put) = Same(old)
      BY <1>2, <3>2, <3>3
    <3>5. [put EXCEPT ![f] = new] = put
      BY <3>3
    <3>6. Put(put) = [put EXCEPT ![FirstOf(Same(put))] = new]
      BY <2>3, <3>4
    <3> QED BY <3>4, <3>5, <3>6 DEF put, old, f
  <2> QED BY <2>2, <2>3
<1>4. cfg.action = was.action /\ cfg.rules = Put(was.rules)
  OBVIOUS
<1> HIDE DEF Put, cfg
<1>5. CfgAt(once, key) = cfg /\ PutCfg(once, key, cfg) = once
  BY PutTwice
<1>6. cfg = [action |-> CfgAt(once, key).action,
             rules |-> Put(CfgAt(once, key).rules)]
  BY <1>3, <1>4, <1>5 DEF cfg
<1>7. once = UpsertParamRule(doc, scope, server, tool, param, op, value, decision)
  BY DEF UpsertParamRule, cfg, Put, was, new
<1>8. UpsertParamRule(once, scope, server, tool, param, op, value, decision)
        = PutCfg(once, key, [action |-> CfgAt(once, key).action,
                             rules |-> Put(CfgAt(once, key).rules)])
  BY DEF UpsertParamRule, Put, new
<1> QED BY <1>5, <1>6, <1>7, <1>8

-----------------------------------------------------------------------------
(* Edits in either order.                                                  *)

LEMMA PutsCommute ==
    ASSUME NEW doc, NEW k1, NEW k2, NEW c1, NEW c2, k1 # k2
    PROVE  /\ CfgAt(PutCfg(doc, k1, c1), k2) = CfgAt(doc, k2)
           /\ CfgAt(PutCfg(doc, k2, c2), k1) = CfgAt(doc, k1)
           /\ PutCfg(PutCfg(doc, k1, c1), k2, c2)
                = PutCfg(PutCfg(doc, k2, c2), k1, c1)
<1>1. CfgAt(PutCfg(doc, k1, c1), k2) = CfgAt(doc, k2)
      /\ CfgAt(PutCfg(doc, k2, c2), k1) = CfgAt(doc, k1)
  BY DEF PutCfg, CfgAt
<1> DEFINE either == [k \in DOMAIN doc \cup {k1, k2} |->
                        IF k = k1 THEN c1 ELSE IF k = k2 THEN c2 ELSE doc[k]]
<1>2. PutCfg(PutCfg(doc, k1, c1), k2, c2) = either
  BY DEF PutCfg
<1>3. PutCfg(PutCfg(doc, k2, c2), k1, c1) = either
  BY DEF PutCfg
<1> QED BY <1>1, <1>2, <1>3

(* The later of two puts at one entry is what counts.                      *)
LEMMA PutReplaces ==
    ASSUME NEW doc, NEW key, NEW c1, NEW c2
    PROVE  PutCfg(PutCfg(doc, key, c1), key, c2) = PutCfg(doc, key, c2)
BY DEF PutCfg

(* Each builder gives the same text whether another entry's rules are      *)
(* staged before it or after it.  (upsert_rule, upsert_param_rule)         *)
THEOREM EditsOfTwoEntriesCommute ==
    ASSUME NEW doc, NEW x1, NEW s1, NEW t1, NEW x2, NEW s2, NEW t2,
           <<x1, s1, t1>> # <<x2, s2, t2>>,
           NEW a1, NEW a2,
           NEW p1, NEW o1, NEW v1, NEW d1, NEW p2, NEW o2, NEW v2, NEW d2
    PROVE  /\ UpsertRule(UpsertRule(doc, x1, s1, t1, a1), x2, s2, t2, a2)
                = UpsertRule(UpsertRule(doc, x2, s2, t2, a2), x1, s1, t1, a1)
           /\ UpsertParamRule(UpsertParamRule(doc, x1, s1, t1, p1, o1, v1, d1),
                              x2, s2, t2, p2, o2, v2, d2)
                = UpsertParamRule(UpsertParamRule(doc, x2, s2, t2, p2, o2, v2, d2),
                                  x1, s1, t1, p1, o1, v1, d1)
<1> DEFINE k1 == <<x1, s1, t1>>
           k2 == <<x2, s2, t2>>
<1>1. ASSUME NEW c1, NEW c2
      PROVE  /\ CfgAt(PutCfg(doc, k1, c1), k2) = CfgAt(doc, k2)
             /\ CfgAt(PutCfg(doc, k2, c2), k1) = CfgAt(doc, k1)
             /\ PutCfg(PutCfg(doc, k1, c1), k2, c2)
                  = PutCfg(PutCfg(doc, k2, c2), k1, c1)
  BY PutsCommute
<1>2. /\ \A d, a : UpsertRule(d, x1, s1, t1, a)
                     = PutCfg(d, k1, [action |-> a, rules |-> CfgAt(d, k1).rules])
      /\ \A d, a : UpsertRule(d, x2, s2, t2, a)
                     = PutCfg(d, k2, [action |-> a, rules |-> CfgAt(d, k2).rules])
  BY DEF UpsertRule
<1>3. /\ \A d : UpsertParamRule(d, x1, s1, t1, p1, o1, v1, d1)
                  = PutCfg(d, k1, ParamCfg(d, k1, p1, o1, v1, d1))
      /\ \A d : UpsertParamRule(d, x2, s2, t2, p2, o2, v2, d2)
                  = PutCfg(d, k2, ParamCfg(d, k2, p2, o2, v2, d2))
  BY DEF UpsertParamRule, ParamCfg
<1>4. /\ \A d : CfgAt(d, k1) = CfgAt(doc, k1) =>
                  ParamCfg(d, k1, p1, o1, v1, d1) = ParamCfg(doc, k1, p1, o1, v1, d1)
      /\ \A d : CfgAt(d, k2) = CfgAt(doc, k2) =>
                  ParamCfg(d, k2, p2, o2, v2, d2) = ParamCfg(doc, k2, p2, o2, v2, d2)
  BY Zenon DEF ParamCfg
<1> DEFINE r1 == [action |-> a1, rules |-> CfgAt(doc, k1).rules]
           r2 == [action |-> a2, rules |-> CfgAt(doc, k2).rules]
           q1 == ParamCfg(doc, k1, p1, o1, v1, d1)
           q2 == ParamCfg(doc, k2, p2, o2, v2, d2)
<1>5. /\ UpsertRule(doc, x1, s1, t1, a1) = PutCfg(doc, k1, r1)
      /\ UpsertRule(doc, x2, s2, t2, a2) = PutCfg(doc, k2, r2)
      /\ UpsertRule(PutCfg(doc, k1, r1), x2, s2, t2, a2)
           = PutCfg(PutCfg(doc, k1, r1), k2, r2)
      /\ UpsertRule(PutCfg(doc, k2, r2), x1, s1, t1, a1)
           = PutCfg(PutCfg(doc, k2, r2), k1, r1)
  <2>1. CfgAt(PutCfg(doc, k1, r1), k2) = CfgAt(doc, k2)
        /\ CfgAt(PutCfg(doc, k2, r2), k1) = CfgAt(doc, k1)
    BY <1>1, Zenon
  <2> QED BY <1>2, <2>1, Zenon
<1>6. /\ UpsertParamRule(doc, x1, s1, t1, p1, o1, v1, d1) = PutCfg(doc, k1, q1)
      /\ UpsertParamRule(doc, x2, s2, t2, p2, o2, v2, d2) = PutCfg(doc, k2, q2)
      /\ UpsertParamRule(PutCfg(doc, k1, q1), x2, s2, t2, p2, o2, v2, d2)
           = PutCfg(PutCfg(doc, k1, q1), k2, q2)
      /\ UpsertParamRule(PutCfg(doc, k2, q2), x1, s1, t1, p1, o1, v1, d1)
           = PutCfg(PutCfg(doc, k2, q2), k1, q1)
  BY <1>1, <1>3, <1>4, Zenon
<1> HIDE DEF k1, k2, r1, r2, q1, q2
<1> QED BY <1>1, <1>5, <1>6

(* The two builders may be used in either order, on one entry too: each    *)
(* keeps what the other writes, whether the entry is there or not.         *)
(* (upsert_rule, upsert_param_rule)                                        *)
THEOREM RuleAndParamRuleCommute ==
    ASSUME NEW doc, NEW x, NEW s, NEW t, NEW action,
           NEW y, NEW r, NEW u, NEW param, NEW op, NEW value, NEW decision
    PROVE  UpsertParamRule(UpsertRule(doc, x, s, t, action),
                           y, r, u, param, op, value, decision)
             = UpsertRule(UpsertParamRule(doc, y, r, u, param, op, value, decision),
                          x, s, t, action)
<1> DEFINE k1 == <<x, s, t>>
           k2 == <<y, r, u>>
           Ruled(cfg) == [action |-> action, rules |-> cfg.rules]
           Same(cfg) == {i \in DOMAIN cfg.rules : /\ cfg.rules[i].param = param
                                                  /\ op \in DOMAIN cfg.rules[i].ops}
           new == [param |-> param, ops |-> [o \in {op} |-> value],
                   decision |-> decision]
           Put(cfg) == IF Same(cfg) = {} THEN Append(cfg.rules, new)
                       ELSE [cfg.rules EXCEPT ![FirstOf(Same(cfg))] = new]
           Limited(cfg) == [action |-> cfg.action, rules |-> Put(cfg)]
<1>1. \A d : UpsertRule(d, x, s, t, action) = PutCfg(d, k1, Ruled(CfgAt(d, k1)))
  BY DEF UpsertRule
<1>2. \A d : UpsertParamRule(d, y, r, u, param, op, value, decision)
               = PutCfg(d, k2, Limited(CfgAt(d, k2)))
  BY DEF UpsertParamRule
<1>3. \A cfg : Put(Ruled(cfg)) = Put(cfg)
  <2> SUFFICES ASSUME NEW cfg PROVE Put(Ruled(cfg)) = Put(cfg)
    OBVIOUS
  <2>1. Ruled(cfg).rules = cfg.rules
    OBVIOUS
  <2> HIDE DEF Ruled
  <2>2. Same(Ruled(cfg)) = Same(cfg)
    BY <2>1
  <2> QED BY <2>1, <2>2
<1> HIDE DEF Put
<1>4. \A cfg : Limited(Ruled(cfg)) = Ruled(Limited(cfg))
  BY <1>3
<1> HIDE DEF Ruled, Limited
<1>5. CASE k1 = k2
  <2>1. UpsertRule(doc, x, s, t, action) = PutCfg(doc, k1, Ruled(CfgAt(doc, k1)))
        /\ UpsertParamRule(doc, y, r, u, param, op, value, decision)
             = PutCfg(doc, k1, Limited(CfgAt(doc, k1)))
    BY <1>1, <1>2, <1>5
  <2>2. CfgAt(PutCfg(doc, k1, Ruled(CfgAt(doc, k1))), k1) = Ruled(CfgAt(doc, k1))
        /\ CfgAt(PutCfg(doc, k1, Limited(CfgAt(doc, k1))), k1)
             = Limited(CfgAt(doc, k1))
    BY PutTwice
  <2> HIDE DEF k1, k2
  <2> QED BY <1>1, <1>2, <1>4, <1>5, <2>1, <2>2, PutReplaces
<1>6. CASE k1 # k2
  <2> HIDE DEF k1, k2
  <2> QED BY <1>1, <1>2, <1>6, PutsCommute
<1> QED BY <1>5, <1>6

(* A rule and a sync's defaults make the same of one document in either    *)
(* order, also for a tool that is just being discovered.  (A parameter     *)
(* rule does not commute: it leaves a tool yet unknown without an action,  *)
(* and the sync finds the entry there.)                                    *)
(* (upsert_rule, merge_default_actions)                                    *)
THEOREM RuleAndSyncCommute ==
    ASSUME NEW doc, NEW x, NEW s, NEW t, NEW action,
           NEW server \in Servers, NEW risks \in Discoveries
    PROVE  MergeDefaultActions(UpsertRule(doc, x, s, t, action), server, risks)
             = UpsertRule(MergeDefaultActions(doc, server, risks), x, s, t, action)
<1> DEFINE key == <<x, s, t>>
           found == {<<AllAgents, server, f>> : f \in DOMAIN risks}
           default(k) == [action |-> DefaultAction(risks[k[3]]), rules |-> << >>]
           ruled == [action |-> action, rules |-> CfgAt(doc, key).rules]
           merged == MergeDefaultActions(doc, server, risks)
           edited == UpsertRule(doc, x, s, t, action)
           either == [k \in DOMAIN doc \cup {key} \cup found |->
                        IF k = key THEN ruled
                        ELSE IF k \in DOMAIN doc THEN doc[k] ELSE default(k)]
<1>1. edited = PutCfg(doc, key, ruled)
  BY DEF UpsertRule
<1>2. merged = [k \in DOMAIN doc \cup found |->
                  IF k \in DOMAIN doc THEN doc[k] ELSE default(k)]
  BY DEF MergeDefaultActions
<1>3. CfgAt(merged, key).rules = CfgAt(doc, key).rules
  <2>1. CASE key \in DOMAIN doc
    BY <1>2, <2>1 DEF CfgAt
  <2>2. CASE key \notin DOMAIN doc
    BY <1>2, <2>2 DEF CfgAt, EmptyCfg
  <2> QED BY <2>1, <2>2
<1>4. UpsertRule(merged, x, s, t, action) = PutCfg(merged, key, ruled)
  BY <1>3 DEF UpsertRule
<1>5. MergeDefaultActions(edited, server, risks)
        = [k \in DOMAIN edited \cup found |->
             IF k \in DOMAIN edited THEN edited[k] ELSE default(k)]
  BY DEF MergeDefaultActions
<1> HIDE DEF key, found, default, ruled, merged, edited
<1>6. MergeDefaultActions(edited, server, risks) = either
  BY <1>1, <1>5 DEF PutCfg
<1>7. PutCfg(merged, key, ruled) = either
  BY <1>2 DEF PutCfg
<1> QED BY <1>4, <1>6, <1>7 DEF merged, edited

-----------------------------------------------------------------------------
(* What a trust record decides.                                            *)

(* Verifying a tool changes the decision on those calls only that are      *)
(* allowed and that no parameter rule decides, and opens them; in          *)
(* particular it never closes or holds anything.  (evaluate)               *)
THEOREM VerifyingOpensUndecidedCalls ==
    ASSUME NEW doc, NEW a, NEW s, NEW t, NEW args
    PROVE  LET before == Evaluate(doc, a, s, t, args, "Needs approval")
               after  == Evaluate(doc, a, s, t, args, "Verified")
               cfg    == EffectiveCfg(doc, a, s, t)
           IN  IF cfg.action = "allow" /\ ParamDecision(cfg, args) = "none"
               THEN before = "deny" /\ after = "allow"
               ELSE before = after
BY DEF Evaluate

=============================================================================
