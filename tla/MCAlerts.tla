------------------------------ MODULE MCAlerts ------------------------------
(***************************************************************************)
(* Instances of Alerts for TLC.                                            *)
(***************************************************************************)
EXTENDS Alerts

Every(n) == [type \in WindowTypes |-> n]

Usual  == [enabled |-> Types, broken |-> FALSE,
           threshold |-> Every(2), window |-> Every(1)]
Broken == [Usual EXCEPT !.broken = TRUE]

(* Two types off, the others at the first row and for longer.              *)
Strict == [enabled |-> {"repeated_denials", "approval_flood"},
           broken |-> FALSE, threshold |-> Every(1), window |-> Every(2)]

(* Windows that count nothing, and one type that needs nothing to count.   *)
Edge == [enabled |-> Types, broken |-> FALSE,
         threshold |-> [Every(1) EXCEPT !["high_call_rate"] = 0],
         window |-> [Every(1) EXCEPT !["high_call_rate"] = 0,
                                     !["approval_flood"] = 0]]

MCSettings == {Usual, Broken, Strict, Edge}
=============================================================================
