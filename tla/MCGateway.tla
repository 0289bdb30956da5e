----------------------------- MODULE MCGateway ------------------------------
(***************************************************************************)
(* Instances of Gateway for TLC.                                           *)
(***************************************************************************)
EXTENDS Gateway

CONSTANTS a1, s1, s2, t1, t2

MCOneAgent   == {a1}
MCOneServer  == {s1}
MCTwoServers == {s1, s2}
MCOneTool    == {t1}
MCTwoTools   == {t1, t2}
MCParams     == {"recipient"}
MCValues     == {"x@ext"}
MCEndsWithRel == {<<"x@ext", "x@ext">>}

Plain(action) == [action |-> action, rules |-> << >>]

AllowAll == [k \in {<<AllAgents, s1, Star>>} |-> Plain("allow")]

(* t1 is allowed by default unless the argument is external, which denies  *)
(* it, and needs approval for a1.                                          *)
Guarded ==
    [k \in {<<AllAgents, s1, t1>>, <<a1, s1, t1>>} |->
        IF k[1] = a1 THEN Plain("require_approval")
        ELSE [action |-> "allow",
              rules  |-> << [param |-> "recipient",
                             ops |-> [o \in {"equals"} |-> "x@ext"],
                             decision |-> "deny"] >>]]

(* A rule whose decision the engine passes on and nothing knows.           *)
Typo ==
    [k \in {<<AllAgents, s1, t1>>} |->
        [action |-> "allow",
         rules  |-> << [param |-> "recipient",
                        ops |-> [o \in {"equals"} |-> "x@ext"],
                        decision |-> "unknown"] >>]]

MCDocuments   == {Guarded, AllowAll, Typo}
MCAllowAll    == {AllowAll}
MCExternal    == {[p \in MCParams |-> "x@ext"]}
MCDiscoveries == {[t \in {t1} |-> "High"]}
=============================================================================
