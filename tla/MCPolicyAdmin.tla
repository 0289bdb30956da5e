--------------------------- MODULE MCPolicyAdmin ----------------------------
(***************************************************************************)
(* Instances of PolicyAdmin for TLC: two agents, one server, two tools and *)
(* one parameter whose values are an internal and an external recipient.   *)
(***************************************************************************)
EXTENDS PolicyAdmin

CONSTANTS a1, a2, s1, t1, t2

MCAgents  == {a1, a2}
MCServers == {s1}
MCTools   == {t1, t2}
MCParams  == {"recipient"}

(* "@co" is a rule's target, and a suffix of the internal recipient only.  *)
MCValues      == {"me@co", "x@ext", "@co"}
MCEndsWithRel == {<<v, v>> : v \in MCValues} \cup {<<"me@co", "@co">>}

MCBuilderOperators == {"endswith", "not_endswith"}
MCDiscoveries ==
    { [t \in {t1} |-> "Low"],
      [t \in {t1, t2} |-> IF t = t1 THEN "Medium" ELSE "Low"] }
MCBuilderValues    == {"@co"}

(* What is no policy is told by a key that no policy has.                  *)
MCMalformed == [k \in {<<"malformed", s1, t1>>} |-> EmptyCfg]
MCNoReply   == [k \in {<<"no reply", s1, t1>>} |-> EmptyCfg]

NoPolicy == [k \in {} |-> EmptyCfg]
Plain(action) == [action |-> action, rules |-> << >>]

(* What an admin starts from or types: the seeded empty policy; a          *)
(* wildcard deny with one agent allowed one tool; a tool allowed with a    *)
(* rule that denies external recipients; an exact empty entry and a rule   *)
(* with two operators and no decision key; a rule that allows.             *)
MCHandWritten ==
    { NoPolicy,
      [k \in {<<AllAgents, s1, Star>>, <<a1, s1, t1>>} |->
          IF k[1] = a1 THEN Plain("allow") ELSE Plain("deny")],
      [k \in {<<AllAgents, s1, t1>>} |->
          [action |-> "allow",
           rules  |-> << [param |-> "recipient",
                          ops |-> [o \in {"not_endswith"} |-> "@co"],
                          decision |-> "deny"] >>]],
      [k \in {<<AllAgents, s1, t2>>, <<AllAgents, s1, Star>>} |->
          IF k[3] = t2 THEN EmptyCfg
          ELSE [action |-> "allow",
                rules  |-> << [param |-> "recipient",
                               ops |-> [o \in {"endswith", "not_equals"} |->
                                           IF o = "endswith" THEN "@co"
                                           ELSE "me@co"],
                               decision |-> "none"] >>]],
      [k \in {<<AllAgents, s1, t1>>} |->
          [action |-> "allow",
           rules  |-> << [param |-> "recipient",
                          ops |-> [o \in {"endswith"} |-> "@co"],
                          decision |-> "allow"] >>]] }
=============================================================================
