------------------------------ MODULE MCLogins ------------------------------
(***************************************************************************)
(* Instances of Logins for TLC.  Worker threads are interchangeable, in    *)
(* every property the runs check.                                          *)
(***************************************************************************)
EXTENDS Logins, FiniteSets, TLC

(* Bounds: starts are explored on all the databases, with every loss of    *)
(* output; requests on one database only, after the first password made up *)
(* has come out; one session expires or one user is suspended at a time;   *)
(* and there are three sessions and two passwords, or two and three.       *)
OneBusyDatabase ==
    (\E d \in Threads : pc[d] # "idle") =>
       /\ settings = Settings("own", "own")
       /\ \A a \in Agents : keys[a] = "no agent"
       /\ buffered = 0 /\ 1 \in known

FewEvents ==
    Cardinality(expired)
      + Cardinality({n \in Names : users[n].status = "Suspended"}) <= 1

FewSessions == issued + passwords <= 5

ThreadSymmetry == Permutations(Threads)
=============================================================================
