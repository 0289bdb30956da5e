-------------------------- MODULE MCServerRegistry --------------------------
(***************************************************************************)
(* Instances of ServerRegistry for TLC.  Threads are interchangeable, and  *)
(* so are tools.                                                           *)
(***************************************************************************)
EXTENDS ServerRegistry, TLC

(* Bound: a server that is not reached by http has no credentials and is   *)
(* not trusted; nothing is ever discovered from it.                        *)
BareUnlessHttp ==
    \A d \in Threads : job[d].row.endpoint = "other"
                         => job[d].row.sealed = 0 /\ job[d].row.trust # "Trusted"

ThreadsAndTools == Permutations(Threads) \cup Permutations(Tools)
=============================================================================
