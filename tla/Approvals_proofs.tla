-------------------------- MODULE Approvals_proofs --------------------------
(***************************************************************************)
(* Proofs about Approvals, for any number of held calls, threads and       *)
(* restarts.                                                               *)
(***************************************************************************)
EXTENDS Approvals, FiniteSetTheorems, TLAPS

-----------------------------------------------------------------------------
(* Types.                                                                  *)

LEMMA SomeJobIsAJob == SomeJob \in Jobs
<1>1. PICK i : i \in Ids
  BY ApprovalsAssumption
<1>2. [kind |-> "approve", id |-> i] \in Jobs
  BY <1>1 DEF Jobs, Kinds
<1> QED BY <1>2 DEF SomeJob

LEMMA IdOfThread == TypeOK => \A d \in Threads : Id(d) \in Ids
BY DEF TypeOK, Jobs, Id

(* What a thread has read, before it starts and after each SELECT.         *)
LEMMA UnreadIsView == Unread \in Views
BY DEF Unread, Views

LEMMA OneTableMore ==
    ASSUME NEW v \in Views, NEW w \in Contents
    PROVE  /\ [v EXCEPT !.server = w.server] \in Views
           /\ [v EXCEPT !.policy = w.policy] \in Views
           /\ [v EXCEPT !.trust = w.trust] \in Views
BY DEF Views, Contents

(* One row more under a label and a call, and no other count changes.      *)
LEMMA OneRowMore ==
    ASSUME audit \in [{"Allowed", "Denied"} -> [Ids -> Nat]],
           NEW label \in {"Allowed", "Denied"}, NEW i \in Ids, Write(label, i)
    PROVE  /\ audit' \in [{"Allowed", "Denied"} -> [Ids -> Nat]]
           /\ \A l \in {"Allowed", "Denied"}, j \in Ids :
                 audit'[l][j] = IF l = label /\ j = i THEN audit[l][j] + 1
                                ELSE audit[l][j]
<1> DEFINE of == [audit[label] EXCEPT ![i] = audit[label][i] + 1]
<1>1. of \in [Ids -> Nat]
  OBVIOUS
<1>2. \A j \in Ids : of[j] = IF j = i THEN audit[label][j] + 1
                             ELSE audit[label][j]
  OBVIOUS
<1>3. audit' = [audit EXCEPT ![label] = of]
  BY DEF Write
<1> HIDE DEF of
<1> QED BY <1>1, <1>2, <1>3

LEMMA TypeInit == Init => TypeOK
BY SomeJobIsAJob, UnreadIsView, ApprovalsAssumption
DEF Init, TypeOK, StatusValues, PCs, NoCalls

LEMMA TypeThread ==
    ASSUME TypeOK, NEW d \in Threads, ThreadStep(d)
    PROVE  TypeOK'
<1> USE SomeJobIsAJob, UnreadIsView, IdOfThread DEF TypeOK, StatusValues, PCs
<1>1. CASE Accept(d)
  BY <1>1 DEF Accept, Step
<1>2. CASE Reject(d)
  BY <1>2 DEF Reject, Finish
<1>3. CASE DecideApprove(d)
  BY <1>3 DEF DecideApprove, Approve, Step
<1>4. CASE DecideDeny(d)
  BY <1>4, OneRowMore DEF DecideDeny, Finish
<1>5. CASE LoadServer(d) \/ LoadPolicy(d) \/ LoadTrust(d)
  <2>1. seen' \in [Threads -> Views]
    <3>1. PICK v \in Views : seen' = [seen EXCEPT ![d] = v]
      BY <1>5, OneTableMore DEF LoadServer, LoadPolicy, LoadTrust
    <3> QED BY <3>1
  <2> QED BY <1>5, <2>1 DEF LoadServer, LoadPolicy, LoadTrust, Step
<1>6. CASE Unserved(d)
  BY <1>6 DEF Unserved, Finish
<1>7. CASE Evaluate(d)
  BY <1>7 DEF Evaluate, Step
<1>8. CASE LogBlocked(d)
  BY <1>8, OneRowMore DEF LogBlocked, Finish
<1>9. CASE CallUpstream(d)
  BY <1>9 DEF CallUpstream, Execute, Step
<1>10. CASE UpstreamTimesOut(d)
  BY <1>10 DEF UpstreamTimesOut, Execute, Finish
<1>11. CASE Record(d)
  BY <1>11, OneRowMore DEF Record, Finish
<1>12. CASE Raise(d)
  BY <1>12 DEF Raise, Finish
<1> QED
  BY <1>1, <1>2, <1>3, <1>4, <1>5, <1>6, <1>7, <1>8, <1>9, <1>10, <1>11, <1>12
  DEF ThreadStep

LEMMA TypeStep == TypeOK /\ [Next]_vars => TypeOK'
<1> SUFFICES ASSUME TypeOK, [Next]_vars PROVE TypeOK'
  OBVIOUS
<1> USE DEF TypeOK, thread
<1>1. ASSUME NEW i \in Ids, Hold(i) PROVE TypeOK'
  BY <1>1 DEF Hold, StatusValues
<1>2. ASSUME NEW i \in Ids, NEW contents \in Contents, Change(i, contents)
      PROVE  TypeOK'
  BY <1>2 DEF Change
<1>3. ASSUME NEW d \in Threads, NEW kind \in Kinds, NEW i \in Ids,
             Ask(d, kind, i)
      PROVE  TypeOK'
  <2>1. [kind |-> kind, id |-> i] \in Jobs
    BY DEF Jobs
  <2> QED BY <1>3, <2>1 DEF Ask, PCs
<1>4. ASSUME NEW d \in Threads, ThreadStep(d) PROVE TypeOK'
  BY <1>4, TypeThread
<1>5. CASE Restart
  BY <1>5, SomeJobIsAJob, UnreadIsView, ApprovalsAssumption DEF Restart, PCs
<1>6. CASE UNCHANGED vars
  BY <1>6 DEF vars
<1> QED BY <1>1, <1>2, <1>3, <1>4, <1>5, <1>6 DEF Next

(* Every variable has its type, whatever the threads, deploys, failures    *)
(* and restarts do; in particular the status column never holds a value    *)
(* the console does not know.  (approval_service.py)                       *)
THEOREM TypeCorrect == Spec => []TypeOK
BY TypeInit, TypeStep, PTL DEF Spec

-----------------------------------------------------------------------------
(* What reads executed is in the trail.                                    *)

LEMMA RecordedStep ==
    TypeOK /\ ExecutedIsRecorded /\ [Next]_vars => ExecutedIsRecorded'
<1> SUFFICES ASSUME TypeOK, ExecutedIsRecorded, [Next]_vars
             PROVE  ExecutedIsRecorded'
  OBVIOUS
<1> USE IdOfThread DEF TypeOK, ExecutedIsRecorded, thread
<1>1. ASSUME NEW i \in Ids, Hold(i) PROVE ExecutedIsRecorded'
  BY <1>1 DEF Hold
<1>2. ASSUME NEW d \in Threads, ThreadStep(d) PROVE ExecutedIsRecorded'
  <2>1. CASE DecideApprove(d)
    BY <2>1 DEF DecideApprove, Approve
  <2>2. CASE DecideDeny(d)
    BY <2>2, OneRowMore DEF DecideDeny
  <2>3. CASE LogBlocked(d)
    BY <2>3, OneRowMore DEF LogBlocked
  <2>4. CASE Record(d)
    BY <2>4, OneRowMore DEF Record
  <2>5. CASE UNCHANGED <<status, audit>>
    BY <2>5
  <2>6. \/ DecideApprove(d) \/ DecideDeny(d) \/ LogBlocked(d) \/ Record(d)
        \/ UNCHANGED <<status, audit>>
    BY <1>2 DEF ThreadStep, Accept, Reject, LoadServer, LoadPolicy, LoadTrust,
       Unserved, Evaluate, CallUpstream, UpstreamTimesOut, Raise
  <2> QED BY <2>1, <2>2, <2>3, <2>4, <2>5, <2>6
<1>3. CASE UNCHANGED <<status, audit>>
  BY <1>3
<1>4. \/ \E i \in Ids : Hold(i)
      \/ \E d \in Threads : ThreadStep(d)
      \/ UNCHANGED <<status, audit>>
  BY DEF Next, Change, Ask, Restart, vars
<1> QED BY <1>1, <1>2, <1>3, <1>4

(* A row that reads executed has its Allowed row in the trail, whatever    *)
(* other decisions, failures and restarts come in between.                 *)
(* (update_executed and log in one transaction)                            *)
THEOREM ExecutionsAreRecorded == Spec => []ExecutedIsRecorded
<1>1. Init => ExecutedIsRecorded
  BY DEF Init, ExecutedIsRecorded
<1> QED BY <1>1, TypeInit, TypeStep, RecordedStep, PTL DEF Spec

-----------------------------------------------------------------------------
(* Approval does not bypass policy.                                        *)

(* Unless disturbed, what a thread has read is what the tables say; and a  *)
(* thread that calls upstream has read what lets the call through.         *)
SeenIsCurrent ==
    \A d \in Threads :
       /\ d \notin disturbed =>
            /\ pc[d] \in {"load_policy", "load_trust", "evaluate", "upstream"}
                 => seen[d].server = tables[Id(d)].server
            /\ pc[d] \in {"load_trust", "evaluate", "upstream"}
                 => seen[d].policy = tables[Id(d)].policy
            /\ pc[d] \in {"evaluate", "upstream"}
                 => seen[d].trust = tables[Id(d)].trust
       /\ pc[d] = "upstream" => seen[d].server = "up" /\ LetsThrough(seen[d])

(* A record with one field replaced.                                       *)
LEMMA OtherFieldsStay ==
    ASSUME NEW v \in Views, NEW x
    PROVE  /\ LET w == [v EXCEPT !.server = x]
              IN  w.server = x /\ w.policy = v.policy /\ w.trust = v.trust
           /\ LET w == [v EXCEPT !.policy = x]
              IN  w.policy = x /\ w.server = v.server /\ w.trust = v.trust
           /\ LET w == [v EXCEPT !.trust = x]
              IN  w.trust = x /\ w.server = v.server /\ w.policy = v.policy
BY DEF Views

LEMMA CurrentStep ==
    TypeOK /\ SeenIsCurrent /\ [Next]_vars => SeenIsCurrent'
<1> SUFFICES ASSUME TypeOK, SeenIsCurrent, [Next]_vars PROVE SeenIsCurrent'
  OBVIOUS
<1> USE IdOfThread DEF TypeOK, SeenIsCurrent, LetsThrough, Id,
        thread
<1>1. ASSUME NEW i \in Ids, Hold(i) PROVE SeenIsCurrent'
  BY <1>1 DEF Hold
<1>2. ASSUME NEW i \in Ids, NEW contents \in Contents, Change(i, contents)
      PROVE  SeenIsCurrent'
  BY <1>2 DEF Change, Decided
<1>3. ASSUME NEW d \in Threads, NEW kind \in Kinds, NEW i \in Ids,
             Ask(d, kind, i)
      PROVE  SeenIsCurrent'
  BY <1>3 DEF Ask
<1>4. ASSUME NEW d \in Threads, ThreadStep(d) PROVE SeenIsCurrent'
  <2>1. ASSUME NEW from \in PCs, Finish(d, from) PROVE SeenIsCurrent'
    BY <2>1 DEF Finish
  <2>2. CASE Accept(d)
    BY <2>2 DEF Accept, Step
  <2>3. CASE DecideApprove(d)
    BY <2>3 DEF DecideApprove, Approve, Step
  <2>4. CASE LoadServer(d)
    BY <2>4, OtherFieldsStay DEF LoadServer, Step
  <2>5. CASE LoadPolicy(d)
    BY <2>5, OtherFieldsStay DEF LoadPolicy, Step
  <2>6. CASE LoadTrust(d)
    BY <2>6, OtherFieldsStay DEF LoadTrust, Step
  <2>7. CASE Evaluate(d)
    BY <2>7 DEF Evaluate, Step
  <2>8. CASE CallUpstream(d)
    BY <2>8 DEF CallUpstream, Step
  <2> QED
    BY <1>4, <2>1, <2>2, <2>3, <2>4, <2>5, <2>6, <2>7, <2>8
    DEF ThreadStep, Reject, DecideDeny, Unserved, LogBlocked, UpstreamTimesOut,
        Record, Raise, PCs
<1>5. CASE Restart
  BY <1>5 DEF Restart
<1>6. CASE UNCHANGED vars
  BY <1>6 DEF vars
<1> QED BY <1>1, <1>2, <1>3, <1>4, <1>5, <1>6 DEF Next

(* Approval does not bypass policy: with server, policy and trust record   *)
(* unchanged since the approval was committed, a call goes upstream only   *)
(* if they let it through.  (_execute_approved)                            *)
THEOREM ApprovalsStayBound == Spec => []PolicyStillBinds
<1>1. Init => SeenIsCurrent
  BY DEF Init, SeenIsCurrent
<1>2. SeenIsCurrent => PolicyStillBinds
  BY DEF SeenIsCurrent, LetsThrough, PolicyStillBinds
<1> QED BY <1>1, <1>2, TypeInit, TypeStep, CurrentStep, PTL DEF Spec

-----------------------------------------------------------------------------
(* Executions are approved.                                                *)

(* Where a thread holds an approval it has not used.                       *)
Holding ==
    {"load_server", "load_policy", "load_trust", "evaluate", "log_blocked",
     "upstream"}

LEMMA UnusedIsHolding ==
    ASSUME TypeOK, NEW i
    PROVE  Unused(i) = {d \in Threads : pc[d] \in Holding /\ Id(d) = i}
BY DEF TypeOK, PCs, Unused, Decided, Holding

CoveredAt(i) ==
    /\ IsFiniteSet(Unused(i)) /\ IsFiniteSet(Unrecorded(i))
    /\ runs[i] + Cardinality(Unused(i)) <= approvals[i]
    /\ audit["Allowed"][i] + Cardinality(Unrecorded(i)) <= runs[i]

Covered == \A i \in Ids : CoveredAt(i)

LEMMA FewerThreads ==
    ASSUME NEW S, IsFiniteSet(S), NEW T, T \subseteq S
    PROVE  /\ IsFiniteSet(T)
           /\ Cardinality(T) \in Nat /\ Cardinality(S) \in Nat
           /\ Cardinality(T) <= Cardinality(S)
BY FS_Subset, FS_CardinalityType

LEMMA OneThreadLess ==
    ASSUME NEW S, IsFiniteSet(S), NEW d \in S, NEW T, T \subseteq S \ {d}
    PROVE  /\ IsFiniteSet(T)
           /\ Cardinality(T) \in Nat /\ Cardinality(S) \in Nat
           /\ Cardinality(T) + 1 <= Cardinality(S)
<1>1. IsFiniteSet(S \ {d}) /\ Cardinality(S \ {d}) = Cardinality(S) - 1
  BY FS_RemoveElement
<1> QED BY <1>1, FewerThreads, FS_CardinalityType

LEMMA OneThreadMore ==
    ASSUME NEW S, IsFiniteSet(S), NEW d, NEW T, T \subseteq S \cup {d}
    PROVE  /\ IsFiniteSet(T)
           /\ Cardinality(T) \in Nat /\ Cardinality(S) \in Nat
           /\ Cardinality(T) <= Cardinality(S) + 1
<1>1. /\ IsFiniteSet(S \cup {d})
      /\ Cardinality(S \cup {d}) = IF d \in S THEN Cardinality(S)
                                   ELSE Cardinality(S) + 1
  BY FS_AddElement
<1>2. Cardinality(S) \in Nat
  BY FS_CardinalityType
<1>3. Cardinality(S \cup {d}) <= Cardinality(S) + 1
  BY <1>1, <1>2
<1> QED BY <1>1, <1>2, <1>3, FewerThreads

(* A step that counts nothing and gives no thread a call to run or record. *)
LEMMA CoveredByFewer ==
    ASSUME TypeOK, Covered, UNCHANGED <<runs, approvals, audit["Allowed"]>>,
           \A i \in Ids : /\ Unused(i)' \subseteq Unused(i)
                          /\ Unrecorded(i)' \subseteq Unrecorded(i)
    PROVE  Covered'
<1> SUFFICES ASSUME NEW i \in Ids
             PROVE  CoveredAt(i)'
  BY DEF Covered
<1> DEFINE h == Unused(i)
           r == Unrecorded(i)
<1>1. /\ IsFiniteSet(h) /\ IsFiniteSet(r)
      /\ runs[i] + Cardinality(h) <= approvals[i]
      /\ audit["Allowed"][i] + Cardinality(r) <= runs[i]
  BY DEF Covered, CoveredAt
<1>2. h' \subseteq h /\ r' \subseteq r
  OBVIOUS
<1>3. runs[i] \in Nat /\ approvals[i] \in Nat /\ audit["Allowed"][i] \in Nat
  BY DEF TypeOK
<1>4. /\ runs[i]' = runs[i] /\ approvals[i]' = approvals[i]
      /\ audit["Allowed"][i]' = audit["Allowed"][i]
  OBVIOUS
<1> HIDE DEF h, r
<1>5. /\ IsFiniteSet(h') /\ Cardinality(h') <= Cardinality(h)
      /\ Cardinality(h') \in Nat /\ Cardinality(h) \in Nat
  BY <1>1, <1>2, FewerThreads
<1>6. /\ IsFiniteSet(r') /\ Cardinality(r') <= Cardinality(r)
      /\ Cardinality(r') \in Nat /\ Cardinality(r) \in Nat
  BY <1>1, <1>2, FewerThreads
<1>7. /\ runs[i]' + Cardinality(h') <= approvals[i]'
      /\ audit["Allowed"][i]' + Cardinality(r') <= runs[i]'
  BY <1>1, <1>3, <1>4, <1>5, <1>6
<1> QED BY <1>5, <1>6, <1>7 DEF h, r, CoveredAt

LEMMA CoveredThread ==
    ASSUME TypeOK, Covered, NEW d \in Threads, ThreadStep(d)
    PROVE  Covered'
<1> USE DEF TypeOK
<1> PICK j \in Ids : j = Id(d)
  BY IdOfThread
<1>1. CASE DecideApprove(d)
  <2>1. /\ UNCHANGED <<runs, audit>>
        /\ approvals' = [approvals EXCEPT ![j] = @ + 1]
        /\ pc' = [pc EXCEPT ![d] = "load_server"] /\ job' = job /\ pc[d] = "decide"
    BY <1>1 DEF DecideApprove, Approve, Step
  <2>2. \A i \in Ids : /\ Unrecorded(i)' \subseteq Unrecorded(i)
                       /\ Unused(i)' \subseteq Unused(i) \cup {d}
                       /\ i # j => Unused(i)' \subseteq Unused(i)
    BY <2>1 DEF Unrecorded, Unused, Decided, Holding, Id
  <2>3. ASSUME NEW i \in Ids, i # j PROVE CoveredAt(i)'
    BY <2>1, <2>2, <2>3, FewerThreads DEF Covered, CoveredAt
  <2>4. CoveredAt(j)'
    <3>1. /\ IsFiniteSet(Unrecorded(j)') /\ Cardinality(Unrecorded(j)') \in Nat
          /\ Cardinality(Unrecorded(j)) \in Nat
          /\ Cardinality(Unrecorded(j)') <= Cardinality(Unrecorded(j))
      BY <2>2, FewerThreads DEF Covered, CoveredAt
    <3>2. /\ IsFiniteSet(Unused(j)') /\ Cardinality(Unused(j)') \in Nat
          /\ Cardinality(Unused(j)) \in Nat
          /\ Cardinality(Unused(j)') <= Cardinality(Unused(j)) + 1
      BY <2>2, OneThreadMore DEF Covered, CoveredAt
    <3>3. /\ approvals'[j] = approvals[j] + 1 /\ runs'[j] = runs[j]
          /\ audit'["Allowed"][j] = audit["Allowed"][j]
      BY <2>1
    <3> QED BY <3>1, <3>2, <3>3 DEF Covered, CoveredAt
  <2> QED BY <2>3, <2>4 DEF Covered
<1>2. CASE CallUpstream(d)
  <2>1. /\ UNCHANGED <<approvals, audit>>
        /\ runs' = [runs EXCEPT ![j] = @ + 1]
        /\ pc' = [pc EXCEPT ![d] = "record"] /\ job' = job /\ pc[d] = "upstream"
    BY <1>2 DEF CallUpstream, Execute, Step
  <2>2. d \in Unused(j)
    BY <2>1 DEF Unused, Decided
  <2>3. \A i \in Ids : /\ Unrecorded(i)' \subseteq Unrecorded(i) \cup {d}
                       /\ i # j => Unrecorded(i)' \subseteq Unrecorded(i)
                       /\ Unused(i)' \subseteq Unused(i) \ {d}
    BY <2>1 DEF Unrecorded, Unused, Decided, Holding, Id
  <2>4. ASSUME NEW i \in Ids, i # j PROVE CoveredAt(i)'
    BY <2>1, <2>3, <2>4, FewerThreads DEF Covered, CoveredAt
  <2>5. CoveredAt(j)'
    <3>1. /\ IsFiniteSet(Unused(j)') /\ Cardinality(Unused(j)') \in Nat
          /\ Cardinality(Unused(j)) \in Nat
          /\ Cardinality(Unused(j)') + 1 <= Cardinality(Unused(j))
      BY <2>2, <2>3, OneThreadLess DEF Covered, CoveredAt
    <3>2. /\ IsFiniteSet(Unrecorded(j)') /\ Cardinality(Unrecorded(j)') \in Nat
          /\ Cardinality(Unrecorded(j)) \in Nat
          /\ Cardinality(Unrecorded(j)') <= Cardinality(Unrecorded(j)) + 1
      BY <2>3, OneThreadMore DEF Covered, CoveredAt
    <3>3. /\ runs'[j] = runs[j] + 1 /\ approvals'[j] = approvals[j]
          /\ audit'["Allowed"][j] = audit["Allowed"][j]
      BY <2>1
    <3> QED BY <3>1, <3>2, <3>3 DEF Covered, CoveredAt
  <2> QED BY <2>4, <2>5 DEF Covered
<1>3. CASE UpstreamTimesOut(d)
  <2>1. /\ UNCHANGED <<approvals, audit>>
        /\ runs' = [runs EXCEPT ![j] = @ + 1]
        /\ pc' = [pc EXCEPT ![d] = "idle"] /\ pc[d] = "upstream"
        /\ job' = [job EXCEPT ![d] = SomeJob]
    BY <1>3 DEF UpstreamTimesOut, Execute, Finish
  <2>2. d \in Unused(j)
    BY <2>1 DEF Unused, Decided
  <2>3. \A i \in Ids : /\ Unrecorded(i)' \subseteq Unrecorded(i)
                       /\ Unused(i)' \subseteq Unused(i) \ {d}
    BY <2>1 DEF Unrecorded, Unused, Decided, Holding, Id
  <2> QED
    BY <2>1, <2>2, <2>3, FewerThreads, OneThreadLess DEF Covered, CoveredAt
<1>4. CASE Record(d)
  <2>1. /\ UNCHANGED <<approvals, runs>>
        /\ Write("Allowed", j)
        /\ pc' = [pc EXCEPT ![d] = "idle"] /\ pc[d] = "record"
        /\ job' = [job EXCEPT ![d] = SomeJob]
    BY <1>4 DEF Record, Finish
  <2>2. \A i \in Ids : audit'["Allowed"][i] = IF i = j THEN audit["Allowed"][i] + 1
                                              ELSE audit["Allowed"][i]
    BY <2>1, OneRowMore
  <2>3. d \in Unrecorded(j)
    BY <2>1 DEF Unrecorded
  <2>4. \A i \in Ids : /\ Unrecorded(i)' \subseteq Unrecorded(i) \ {d}
                       /\ Unused(i)' \subseteq Unused(i)
    BY <2>1 DEF Unrecorded, Unused, Decided, Holding, Id
  <2> QED
    BY <2>1, <2>2, <2>3, <2>4, FewerThreads, OneThreadLess DEF Covered, CoveredAt
<1>5. ASSUME UNCHANGED <<runs, approvals>>,
             UNCHANGED audit \/ Write("Denied", j),
             \/ \E from \in PCs : Finish(d, from)
             \/ \E from \in PCs \ {"record"}, to \in PCs \ {"record"} :
                   Step(d, from, to) /\ (to \in Holding => from \in Holding)
      PROVE  Covered'
  <2>1. \A i \in Ids : audit'["Allowed"][i] = audit["Allowed"][i]
    BY <1>5, OneRowMore
  <2>2. UNCHANGED audit["Allowed"]
    BY <2>1, <1>5, OneRowMore
  <2>3. \A i \in Ids : /\ Unused(i)' \subseteq Unused(i)
                       /\ Unrecorded(i)' \subseteq Unrecorded(i)
    BY <1>5 DEF Finish, Step, Unused, Unrecorded, Decided, Holding, Id, PCs
  <2> QED BY <1>5, <2>2, <2>3, CoveredByFewer
<1>6. \/ DecideApprove(d) \/ CallUpstream(d) \/ UpstreamTimesOut(d) \/ Record(d)
      \/ /\ UNCHANGED <<runs, approvals>>
         /\ UNCHANGED audit \/ Write("Denied", j)
         /\ \/ \E from \in PCs : Finish(d, from)
            \/ \E from \in PCs \ {"record"}, to \in PCs \ {"record"} :
                  Step(d, from, to) /\ (to \in Holding => from \in Holding)
  BY DEF ThreadStep, Accept, Reject, DecideDeny, LoadServer, LoadPolicy,
         LoadTrust, Unserved, Evaluate, LogBlocked, Raise, PCs, Holding
<1> QED BY <1>1, <1>2, <1>3, <1>4, <1>5, <1>6

LEMMA CoveredStep == TypeOK /\ Covered /\ [Next]_vars => Covered'
<1> SUFFICES ASSUME TypeOK, Covered, [Next]_vars PROVE Covered'
  OBVIOUS
<1>1. ASSUME NEW d \in Threads, ThreadStep(d) PROVE Covered'
  BY <1>1, CoveredThread
<1>2. CASE ~ \E d \in Threads : ThreadStep(d)
  <2>1. UNCHANGED <<runs, approvals, audit["Allowed"]>>
    BY <1>2 DEF Next, Hold, Change, Ask, Restart, vars
  <2>2. \A i \in Ids : /\ Unused(i)' \subseteq Unused(i)
                       /\ Unrecorded(i)' \subseteq Unrecorded(i)
    BY <1>2 DEF Next, Hold, Change, Ask, Restart, vars, thread, Unused, Unrecorded,
       Decided, Id, TypeOK
  <2> QED BY <2>1, <2>2, CoveredByFewer
<1> QED BY <1>1, <1>2

LEMMA CoveredInit == Init => Covered
<1> SUFFICES ASSUME Init, NEW i \in Ids PROVE CoveredAt(i)
  BY DEF Covered
<1>1. Unused(i) = {} /\ Unrecorded(i) = {}
  BY DEF Init, Unused, Unrecorded, Decided
<1>2. runs[i] = 0 /\ approvals[i] = 0 /\ audit["Allowed"][i] = 0
  BY DEF Init, NoCalls
<1>3. IsFiniteSet({}) /\ Cardinality({}) = 0
  BY FS_EmptySet
<1> QED BY <1>1, <1>2, <1>3 DEF CoveredAt

(* However many threads race on a held call, and whatever fails in         *)
(* between, it runs no more often than it was approved, and the trail      *)
(* shows no more Allowed rows than executions.                             *)
(* (approve, _execute_approved)                                            *)
THEOREM ExecutionsAreApproved == Spec => []RunsAreApproved
<1>1. TypeOK /\ Covered => RunsAreApproved
  <2> SUFFICES ASSUME TypeOK, Covered, NEW i \in Ids
               PROVE  audit["Allowed"][i] <= runs[i] /\ runs[i] <= approvals[i]
    BY DEF RunsAreApproved
  <2>1. Cardinality(Unused(i)) \in Nat /\ Cardinality(Unrecorded(i)) \in Nat
    BY FS_CardinalityType DEF Covered, CoveredAt
  <2> QED BY <2>1 DEF Covered, CoveredAt, TypeOK
<1> QED BY <1>1, TypeInit, TypeStep, CoveredInit, CoveredStep, PTL DEF Spec

-----------------------------------------------------------------------------
(* With one thread, the life of a held call.                               *)

ToRun == Holding \ {"log_blocked"}

OneThread == \A d, e \in Threads : d = e

(* Where the thread is says what its call's row and its runs are.          *)
RowOf(d) ==
    /\ pc[d] = "decide" => status[Id(d)] = "pending"
    /\ pc[d] \in ToRun => status[Id(d)] = "approved" /\ runs[Id(d)] = 0
    /\ pc[d] = "record" => status[Id(d)] = "approved" /\ runs[Id(d)] = 1

InStep ==
    /\ \A i \in Ids : status[i] \in {"none", "pending", "denied"} => runs[i] = 0
    /\ \A d \in Threads : RowOf(d)

LEMMA InStepStep ==
    ASSUME OneThread
    PROVE  TypeOK /\ InStep /\ [Next]_vars => InStep'
<1> SUFFICES ASSUME TypeOK, InStep, [Next]_vars PROVE InStep'
  OBVIOUS
<1> USE DEF TypeOK, InStep, RowOf, ToRun, Holding, Id, thread
<1>1. ASSUME NEW i \in Ids, Hold(i) PROVE InStep'
  BY <1>1, IdOfThread DEF Hold
<1>2. ASSUME NEW d \in Threads, NEW kind \in Kinds, NEW i \in Ids,
             Ask(d, kind, i)
      PROVE  InStep'
  BY <1>2 DEF Ask
<1>3. ASSUME NEW d \in Threads, ThreadStep(d) PROVE InStep'
  <2> PICK i \in Ids : i = Id(d)
    BY IdOfThread
  <2>0. Threads = {d}
    BY DEF OneThread
  <2>1. ASSUME NEW from \in PCs, Finish(d, from), UNCHANGED <<status, runs>>
        PROVE  InStep'
    BY <2>1, <2>0 DEF Finish
  <2>2. CASE Accept(d)
    BY <2>2, <2>0 DEF Accept, Step
  <2>3. CASE DecideApprove(d)
    BY <2>3, <2>0 DEF DecideApprove, Approve, Step
  <2>4. CASE DecideDeny(d)
    BY <2>4, <2>0 DEF DecideDeny, Finish
  <2>5. CASE LoadServer(d) \/ LoadPolicy(d) \/ LoadTrust(d)
    BY <2>5, <2>0 DEF LoadServer, LoadPolicy, LoadTrust, Step
  <2>6. CASE Evaluate(d)
    BY <2>6, <2>0 DEF Evaluate, Step
  <2>7. CASE CallUpstream(d)
    BY <2>7, <2>0 DEF CallUpstream, Execute, Step
  <2>8. CASE UpstreamTimesOut(d)
    BY <2>8, <2>0 DEF UpstreamTimesOut, Execute, Finish
  <2>9. CASE Record(d)
    BY <2>9, <2>0 DEF Record, Finish
  <2> QED
    BY <1>3, <2>1, <2>2, <2>3, <2>4, <2>5, <2>6, <2>7, <2>8, <2>9
    DEF ThreadStep, Reject, Unserved, LogBlocked, Raise, PCs
<1>4. ASSUME NEW i \in Ids, NEW contents \in Contents, Change(i, contents)
      PROVE  InStep'
  BY <1>4 DEF Change
<1>5. CASE Restart
  BY <1>5 DEF Restart
<1>6. CASE UNCHANGED vars
  BY <1>6 DEF vars
<1> QED BY <1>1, <1>2, <1>3, <1>4, <1>5, <1>6 DEF Next

(* A step of the service is a step of the lifecycle or leaves it alone.    *)
LEMMA LifecycleStep ==
    TypeOK /\ InStep /\ [Next]_vars => [Lifecycle!Next]_(Lifecycle!lifecycle)
<1> SUFFICES ASSUME TypeOK, InStep, [Next]_vars
             PROVE  Lifecycle!Next \/ UNCHANGED <<status, runs>>
  BY DEF Lifecycle!lifecycle
<1> USE DEF Lifecycle!Next, Lifecycle!Move, InStep, RowOf, ToRun, Holding, Id
<1>1. ASSUME NEW i \in Ids, Hold(i) PROVE Lifecycle!Hold(i)
  BY <1>1 DEF Hold, Lifecycle!Hold
<1>2. ASSUME NEW d \in Threads, ThreadStep(d)
      PROVE  Lifecycle!Next \/ UNCHANGED <<status, runs>>
  <2> Id(d) \in Ids
    BY IdOfThread
  <2>1. CASE DecideApprove(d)
    BY <2>1 DEF DecideApprove, Approve, Step, Lifecycle!Approve
  <2>2. CASE DecideDeny(d)
    BY <2>2 DEF DecideDeny, Finish, Lifecycle!Deny
  <2>3. CASE CallUpstream(d) \/ UpstreamTimesOut(d)
    BY <2>3
    DEF CallUpstream, UpstreamTimesOut, Execute, Step, Finish, Lifecycle!Run
  <2>4. CASE Record(d)
    BY <2>4 DEF Record, Finish, Lifecycle!Record
  <2>5. \/ DecideApprove(d) \/ DecideDeny(d) \/ CallUpstream(d)
        \/ UpstreamTimesOut(d) \/ Record(d) \/ UNCHANGED <<status, runs>>
    BY <1>2 DEF ThreadStep, Accept, Reject, LoadServer, LoadPolicy, LoadTrust,
       Unserved, Evaluate, LogBlocked, Raise
  <2> QED BY <2>1, <2>2, <2>3, <2>4, <2>5
<1>3. \/ \E i \in Ids : Hold(i)
      \/ \E d \in Threads : ThreadStep(d)
      \/ UNCHANGED <<status, runs>>
  BY DEF Next, Change, Ask, Restart, vars
<1> QED BY <1>1, <1>2, <1>3

(* With one thread the approval service is an implementation of the life   *)
(* of a held call: decided once, run at most once and only when approved,  *)
(* executed only when run, through every failure and restart.              *)
(* (approve, deny, _execute_approved)                                      *)
THEOREM OneThreadImplementsLifecycle ==
    OneThread => (Spec => ImplementsLifecycle)
<1> SUFFICES ASSUME OneThread PROVE Spec => ImplementsLifecycle
  OBVIOUS
<1>1. Init => Lifecycle!Init /\ InStep
  BY DEF Init, Lifecycle!Init, NoCalls, InStep, RowOf, ToRun, Holding
<1>2. TypeOK /\ InStep /\ [Next]_vars => InStep'
  BY InStepStep
<1> QED
  BY <1>1, <1>2, TypeInit, TypeStep, LifecycleStep, PTL
  DEF Spec, ImplementsLifecycle, Lifecycle!Spec

(* So with one thread, and whatever fails or restarts, a held call reaches *)
(* the upstream server at most once, and one that reads denied never has.  *)
(* (approve, deny, _execute_approved)                                      *)
THEOREM OneThreadRunsOnce ==
    OneThread => (Spec => []Lifecycle!RunsOnceIfApproved)
BY OneThreadImplementsLifecycle, Lifecycle!LifeRunsOnce
DEF ImplementsLifecycle

-----------------------------------------------------------------------------
(* With any number of threads, the ledger.                                 *)

(* A row that a thread has found pending stays a row.                      *)
HeldWhenDeciding == \A d \in Threads : pc[d] = "decide" => status[Id(d)] # "none"

LEMMA HeldStep ==
    TypeOK /\ HeldWhenDeciding /\ [Next]_vars => HeldWhenDeciding'
<1> SUFFICES ASSUME TypeOK, HeldWhenDeciding, [Next]_vars
             PROVE  HeldWhenDeciding'
  OBVIOUS
<1> USE IdOfThread DEF TypeOK, HeldWhenDeciding, Id, thread
<1>1. ASSUME NEW i \in Ids, Hold(i) PROVE HeldWhenDeciding'
  BY <1>1 DEF Hold
<1>2. ASSUME NEW d \in Threads, NEW kind \in Kinds, NEW i \in Ids,
             Ask(d, kind, i)
      PROVE  HeldWhenDeciding'
  BY <1>2 DEF Ask
<1>3. ASSUME NEW d \in Threads, ThreadStep(d) PROVE HeldWhenDeciding'
  <2>1. CASE Accept(d)
    BY <2>1 DEF Accept, Step
  <2>2. CASE DecideApprove(d)
    BY <2>2 DEF DecideApprove, Approve, Step
  <2>3. CASE DecideDeny(d) \/ Record(d)
    BY <2>3 DEF DecideDeny, Record, Finish
  <2>4. ASSUME UNCHANGED status,
               \/ \E from \in PCs : Finish(d, from)
               \/ \E from \in PCs, to \in PCs \ {"decide"} : Step(d, from, to)
        PROVE  HeldWhenDeciding'
    BY <2>4 DEF Finish, Step
  <2> QED
    BY <1>3, <2>1, <2>2, <2>3, <2>4
    DEF ThreadStep, Reject, LoadServer, LoadPolicy, LoadTrust, Unserved,
        Evaluate, LogBlocked, CallUpstream, UpstreamTimesOut, Raise, PCs
<1>4. CASE UNCHANGED <<status, pc, job>>
  BY <1>4
<1>5. CASE Restart
  BY <1>5 DEF Restart
<1> QED BY <1>1, <1>2, <1>3, <1>4, <1>5 DEF Next, Change, vars

(* What the threads hold, as the ledger sees it.                           *)
Grants  == [i \in Ids |-> Cardinality(Unused(i))]
Results == [i \in Ids |-> Cardinality(Unrecorded(i))]

LEMMA GrantsAfterStep ==
    ASSUME NEW j \in Ids, NEW d,
           \A i \in Ids : IsFiniteSet(Unused(i)),
           \A i \in Ids \ {j} : Unused(i)' = Unused(i)
    PROVE  /\ Unused(j)' = Unused(j) => UNCHANGED Grants
           /\ d \notin Unused(j) /\ Unused(j)' = Unused(j) \cup {d}
                => Grants' = [Grants EXCEPT ![j] = @ + 1]
           /\ d \in Unused(j) /\ Unused(j)' = Unused(j) \ {d}
                => Grants[j] > 0 /\ Grants' = [Grants EXCEPT ![j] = @ - 1]
<1>1. IsFiniteSet(Unused(j)) /\ Cardinality(Unused(j)) \in Nat
  BY FS_CardinalityType
<1>2. \A i \in Ids \ {j} : Cardinality(Unused(i))' = Cardinality(Unused(i))
  OBVIOUS
<1>3. ASSUME d \notin Unused(j), Unused(j)' = Unused(j) \cup {d}
      PROVE  Cardinality(Unused(j))' = Cardinality(Unused(j)) + 1
  BY <1>1, <1>3, FS_AddElement
<1>4. ASSUME d \in Unused(j), Unused(j)' = Unused(j) \ {d}
      PROVE  /\ Cardinality(Unused(j))' = Cardinality(Unused(j)) - 1
             /\ Cardinality(Unused(j)) > 0
  <2>1. Cardinality(Unused(j) \ {d}) = Cardinality(Unused(j)) - 1
    BY <1>1, <1>4, FS_RemoveElement
  <2>2. Cardinality(Unused(j)) # 0
    BY <1>1, <1>4, FS_EmptySet
  <2> QED BY <1>1, <1>4, <2>1, <2>2
<1> QED BY <1>2, <1>3, <1>4 DEF Grants

LEMMA ResultsAfterStep ==
    ASSUME NEW j \in Ids, NEW d,
           \A i \in Ids : IsFiniteSet(Unrecorded(i)),
           \A i \in Ids \ {j} : Unrecorded(i)' = Unrecorded(i)
    PROVE  /\ Unrecorded(j)' = Unrecorded(j) => UNCHANGED Results
           /\ d \notin Unrecorded(j) /\ Unrecorded(j)' = Unrecorded(j) \cup {d}
                => Results' = [Results EXCEPT ![j] = @ + 1]
           /\ d \in Unrecorded(j) /\ Unrecorded(j)' = Unrecorded(j) \ {d}
                => Results[j] > 0 /\ Results' = [Results EXCEPT ![j] = @ - 1]
<1>1. IsFiniteSet(Unrecorded(j)) /\ Cardinality(Unrecorded(j)) \in Nat
  BY FS_CardinalityType
<1>2. \A i \in Ids \ {j} : Cardinality(Unrecorded(i))' = Cardinality(Unrecorded(i))
  OBVIOUS
<1>3. ASSUME d \notin Unrecorded(j), Unrecorded(j)' = Unrecorded(j) \cup {d}
      PROVE  Cardinality(Unrecorded(j))' = Cardinality(Unrecorded(j)) + 1
  BY <1>1, <1>3, FS_AddElement
<1>4. ASSUME d \in Unrecorded(j), Unrecorded(j)' = Unrecorded(j) \ {d}
      PROVE  /\ Cardinality(Unrecorded(j))' = Cardinality(Unrecorded(j)) - 1
             /\ Cardinality(Unrecorded(j)) > 0
  <2>1. Cardinality(Unrecorded(j) \ {d}) = Cardinality(Unrecorded(j)) - 1
    BY <1>1, <1>4, FS_RemoveElement
  <2>2. Cardinality(Unrecorded(j)) # 0
    BY <1>1, <1>4, FS_EmptySet
  <2> QED BY <1>1, <1>4, <2>1, <2>2
<1> QED BY <1>2, <1>3, <1>4 DEF Results

(* What a step that takes thread d from one line to another does to those  *)
(* who hold something of its call j, and to the counts.                    *)
LEMMA HoldersAfterStep ==
    ASSUME TypeOK, NEW d \in Threads, NEW from \in PCs, NEW to \in PCs,
           Step(d, from, to) \/ (Finish(d, from) /\ to = "idle"),
           NEW j \in Ids, j = Id(d)
    PROVE  /\ \A i \in Ids \ {j} : /\ Unused(i)' = Unused(i)
                                  /\ Unrecorded(i)' = Unrecorded(i)
           /\ Unused(j)' = IF to \in Holding THEN Unused(j) \cup {d}
                           ELSE Unused(j) \ {d}
           /\ Unrecorded(j)' = IF to = "record" THEN Unrecorded(j) \cup {d}
                               ELSE Unrecorded(j) \ {d}
           /\ d \in Unused(j) <=> from \in Holding
           /\ d \in Unrecorded(j) <=> from = "record"
<1> USE DEF TypeOK, Unused, Unrecorded, Decided, Holding, PCs, Id
<1>1. CASE Step(d, from, to)
  BY <1>1 DEF Step
<1>2. CASE Finish(d, from) /\ to = "idle"
  BY <1>2 DEF Finish
<1> QED BY <1>1, <1>2

LEMMA CountsAfterStep ==
    ASSUME TypeOK, Covered,
           NEW d \in Threads, NEW from \in PCs, NEW to \in PCs,
           Step(d, from, to) \/ (Finish(d, from) /\ to = "idle"),
           NEW j \in Ids, j = Id(d)
    PROVE  /\ Grants' = CASE from \notin Holding /\ to \in Holding
                              -> [Grants EXCEPT ![j] = @ + 1]
                          [] from \in Holding /\ to \notin Holding
                              -> [Grants EXCEPT ![j] = @ - 1]
                          [] OTHER -> Grants
           /\ from \in Holding /\ to \notin Holding => Grants[j] > 0
           /\ Results' = CASE from # "record" /\ to = "record"
                               -> [Results EXCEPT ![j] = @ + 1]
                           [] from = "record" /\ to # "record"
                               -> [Results EXCEPT ![j] = @ - 1]
                           [] OTHER -> Results
           /\ from = "record" /\ to # "record" => Results[j] > 0
<1>1. /\ \A i \in Ids \ {j} : /\ Unused(i)' = Unused(i)
                             /\ Unrecorded(i)' = Unrecorded(i)
      /\ Unused(j)' = IF to \in Holding THEN Unused(j) \cup {d}
                      ELSE Unused(j) \ {d}
      /\ Unrecorded(j)' = IF to = "record" THEN Unrecorded(j) \cup {d}
                          ELSE Unrecorded(j) \ {d}
      /\ d \in Unused(j) <=> from \in Holding
      /\ d \in Unrecorded(j) <=> from = "record"
  BY HoldersAfterStep
<1>2. \A i \in Ids : IsFiniteSet(Unused(i)) /\ IsFiniteSet(Unrecorded(i))
  BY DEF Covered, CoveredAt
<1>3. /\ Unused(j)' = Unused(j) => UNCHANGED Grants
      /\ d \notin Unused(j) /\ Unused(j)' = Unused(j) \cup {d}
           => Grants' = [Grants EXCEPT ![j] = @ + 1]
      /\ d \in Unused(j) /\ Unused(j)' = Unused(j) \ {d}
           => Grants[j] > 0 /\ Grants' = [Grants EXCEPT ![j] = @ - 1]
  BY <1>1, <1>2, GrantsAfterStep
<1>4. /\ Unrecorded(j)' = Unrecorded(j) => UNCHANGED Results
      /\ d \notin Unrecorded(j) /\ Unrecorded(j)' = Unrecorded(j) \cup {d}
           => Results' = [Results EXCEPT ![j] = @ + 1]
      /\ d \in Unrecorded(j) /\ Unrecorded(j)' = Unrecorded(j) \ {d}
           => Results[j] > 0 /\ Results' = [Results EXCEPT ![j] = @ - 1]
  BY <1>1, <1>2, ResultsAfterStep
<1>5. /\ from \in Holding /\ to \in Holding => Unused(j)' = Unused(j)
      /\ from \notin Holding /\ to \notin Holding => Unused(j)' = Unused(j)
      /\ from = "record" /\ to = "record" => Unrecorded(j)' = Unrecorded(j)
      /\ from # "record" /\ to # "record" => Unrecorded(j)' = Unrecorded(j)
  BY <1>1
<1>6. CASE from \in Holding
  BY <1>1, <1>3, <1>4, <1>5, <1>6
<1>7. CASE from \notin Holding
  BY <1>1, <1>3, <1>4, <1>5, <1>7
<1> QED BY <1>6, <1>7

(* Holders can only have let go.                                           *)
LEMMA LosingHolders ==
    ASSUME Covered, Covered', UNCHANGED <<status, audit, runs, approvals>>,
           \A i \in Ids : /\ Unused(i)' \subseteq Unused(i)
                          /\ Unrecorded(i)' \subseteq Unrecorded(i)
    PROVE  Ledger!Lose
<1>1. \A i \in Ids : Grants'[i] <= Grants[i] /\ Results'[i] <= Results[i]
  BY FewerThreads DEF Covered, CoveredAt, Grants, Results
<1>2. Grants' \in [Ids -> Nat] /\ Results' \in [Ids -> Nat]
  BY FS_CardinalityType DEF Covered, CoveredAt, Grants, Results
<1> QED BY <1>1, <1>2 DEF Ledger!Lose, Grants, Results

LEMMA LedgerThread ==
    ASSUME TypeOK, Covered, HeldWhenDeciding, Covered',
           NEW d \in Threads, ThreadStep(d)
    PROVE  Ledger!Next \/ UNCHANGED Ledger!ledger
<1> USE DEF Holding, PCs
<1> PICK j \in Ids : j = Id(d)
  BY IdOfThread
<1>1. CASE DecideApprove(d)
  <2>1. pc[d] = "decide" /\ Step(d, "decide", "load_server")
    BY <1>1 DEF DecideApprove, Approve, Step
  <2>2. Grants' = [Grants EXCEPT ![j] = @ + 1] /\ UNCHANGED Results
    BY <2>1, CountsAfterStep
  <2>3. Ledger!Approve(j)
    BY <1>1, <2>1, <2>2
    DEF DecideApprove, Approve, HeldWhenDeciding, Ledger!Approve, Grants, Results
  <2> QED BY <2>3 DEF Ledger!Next
<1>2. CASE DecideDeny(d)
  <2>1. pc[d] = "decide" /\ Finish(d, "decide")
    BY <1>2 DEF DecideDeny, Finish
  <2>2. UNCHANGED <<Grants, Results>>
    BY <2>1, CountsAfterStep
  <2>3. Ledger!Deny(j)
    BY <1>2, <2>1, <2>2
    DEF DecideDeny, Write, HeldWhenDeciding, Ledger!Deny, Ledger!Add, Grants,
        Results
  <2> QED BY <2>3 DEF Ledger!Next
<1>3. CASE LogBlocked(d)
  <2>1. Finish(d, "log_blocked")
    BY <1>3 DEF LogBlocked
  <2>2. /\ Grants[j] > 0 /\ Grants' = [Grants EXCEPT ![j] = @ - 1]
        /\ UNCHANGED Results
    BY <2>1, CountsAfterStep
  <2>3. Ledger!Block(j)
    BY <1>3, <2>2
    DEF LogBlocked, Write, Ledger!Block, Ledger!Use, Ledger!Add, Grants, Results
  <2> QED BY <2>3 DEF Ledger!Next
<1>4. CASE CallUpstream(d)
  <2>1. Step(d, "upstream", "record")
    BY <1>4 DEF CallUpstream
  <2>2. /\ Grants[j] > 0 /\ Grants' = [Grants EXCEPT ![j] = @ - 1]
        /\ Results' = [Results EXCEPT ![j] = @ + 1]
    BY <2>1, CountsAfterStep
  <2>3. Ledger!Run(j)
    BY <1>4, <2>2
    DEF CallUpstream, Execute, Ledger!Run, Ledger!Use, Grants, Results
  <2> QED BY <2>3 DEF Ledger!Next
<1>5. CASE UpstreamTimesOut(d)
  <2>1. Finish(d, "upstream")
    BY <1>5 DEF UpstreamTimesOut
  <2>2. /\ Grants[j] > 0 /\ Grants' = [Grants EXCEPT ![j] = @ - 1]
        /\ UNCHANGED Results
    BY <2>1, CountsAfterStep
  <2>3. Ledger!Run(j)
    BY <1>5, <2>2
    DEF UpstreamTimesOut, Execute, Ledger!Run, Ledger!Use, Grants, Results
  <2> QED BY <2>3 DEF Ledger!Next
<1>6. CASE Record(d)
  <2>1. Finish(d, "record")
    BY <1>6 DEF Record
  <2>2. /\ Results[j] > 0 /\ Results' = [Results EXCEPT ![j] = @ - 1]
        /\ UNCHANGED Grants
    BY <2>1, CountsAfterStep
  <2>3. Ledger!Record(j)
    BY <1>6, <2>2
    DEF Record, Write, Ledger!Record, Ledger!Add, Grants, Results
  <2> QED BY <2>3 DEF Ledger!Next
<1>7. ASSUME UNCHANGED <<status, audit, runs, approvals>>,
             \/ \E from \in PCs : Finish(d, from)
             \/ \E from \in PCs \ {"record"}, to \in PCs \ {"record"} :
                   Step(d, from, to) /\ (to \in Holding <=> from \in Holding)
      PROVE  Ledger!Lose
  <2>1. \A i \in Ids : /\ Unused(i)' \subseteq Unused(i)
                       /\ Unrecorded(i)' \subseteq Unrecorded(i)
    BY <1>7, HoldersAfterStep
  <2> QED BY <1>7, <2>1, LosingHolders
<1> QED
  BY <1>1, <1>2, <1>3, <1>4, <1>5, <1>6, <1>7
  DEF ThreadStep, Accept, Reject, LoadServer, LoadPolicy, LoadTrust, Unserved,
      Evaluate, Raise, Ledger!Next

LEMMA LedgerStep ==
    TypeOK /\ Covered /\ HeldWhenDeciding /\ Covered' /\ [Next]_vars
      => [Ledger!Next]_(Ledger!ledger)
<1> SUFFICES ASSUME TypeOK, Covered, HeldWhenDeciding, Covered', [Next]_vars
             PROVE  Ledger!Next \/ UNCHANGED Ledger!ledger
  OBVIOUS
<1>1. ASSUME NEW i \in Ids, Hold(i) PROVE Ledger!Next
  <2>1. \A k \in Ids : UNCHANGED Unused(k) /\ UNCHANGED Unrecorded(k)
    BY <1>1 DEF Hold, thread, Unused, Unrecorded, Decided, Id
  <2>2. UNCHANGED <<Grants, Results>>
    BY <2>1 DEF Grants, Results
  <2>3. Ledger!Hold(i)
    BY <1>1, <2>2 DEF Hold, Ledger!Hold, Grants, Results
  <2> QED BY <2>3 DEF Ledger!Next
<1>2. ASSUME NEW d \in Threads, ThreadStep(d)
      PROVE  Ledger!Next \/ UNCHANGED Ledger!ledger
  BY <1>2, LedgerThread
<1>3. CASE /\ ~ \E i \in Ids : Hold(i)
           /\ ~ \E d \in Threads : ThreadStep(d)
  <2>1. UNCHANGED <<status, audit, runs, approvals>>
    BY <1>3 DEF Next, Change, Ask, Restart, vars
  <2>2. \A i \in Ids : /\ Unused(i)' \subseteq Unused(i)
                       /\ Unrecorded(i)' \subseteq Unrecorded(i)
    BY <1>3 DEF Next, Change, Ask, Restart, vars, thread, Unused, Unrecorded,
       Decided, Id, TypeOK
  <2>3. Ledger!Lose
    BY <2>1, <2>2, LosingHolders
  <2> QED BY <2>3 DEF Ledger!Next
<1> QED BY <1>1, <1>2, <1>3

(* However many threads race on the held calls, and whatever is changed,   *)
(* fails or restarts, the service keeps to the ledger: every approval is   *)
(* used up at most once, by one execution or one Denied row, and every     *)
(* execution is recorded at most once, its row and the trail together.     *)
(* (approve, deny, _execute_approved)                                      *)
THEOREM ThreadsImplementLedger == Spec => ImplementsLedger
<1>1. Init => Ledger!Init /\ HeldWhenDeciding
  <2>1. Init => \A i \in Ids : Unused(i) = {} /\ Unrecorded(i) = {}
    BY DEF Init, Unused, Unrecorded, Decided
  <2> QED
    BY <2>1, FS_EmptySet
    DEF Init, HeldWhenDeciding, Ledger!Init, NoCalls, Ledger!NoCalls
<1> QED
  BY <1>1, TypeInit, TypeStep, CoveredInit, CoveredStep, HeldStep, LedgerStep, PTL
  DEF Spec, ImplementsLedger, Ledger!Spec

-----------------------------------------------------------------------------
(* Every request is answered.                                              *)

(* The steps a thread may still take, at most.                             *)
StepsLeft ==
    [p \in PCs |-> CASE p = "idle" -> 0
                     [] p \in {"record", "log_blocked"} -> 1
                     [] p = "upstream" -> 2
                     [] p = "evaluate" -> 3
                     [] p = "load_trust" -> 4
                     [] p = "load_policy" -> 5
                     [] p = "load_server" -> 6
                     [] p = "decide" -> 7
                     [] p = "check" -> 8]

Within(d, n) == StepsLeft[pc[d]] <= n

LEMMA StepsLeftValues ==
    /\ \A p \in PCs : StepsLeft[p] \in 0..8 /\ (StepsLeft[p] = 0 <=> p = "idle")
    /\ StepsLeft["record"] = 1 /\ StepsLeft["log_blocked"] = 1
    /\ StepsLeft["upstream"] = 2 /\ StepsLeft["evaluate"] = 3
    /\ StepsLeft["load_trust"] = 4 /\ StepsLeft["load_policy"] = 5
    /\ StepsLeft["load_server"] = 6 /\ StepsLeft["decide"] = 7
    /\ StepsLeft["check"] = 8
BY DEF StepsLeft, PCs

(* No step of approve, deny or _execute_approved goes back.                *)
LEMMA StepsAreSpent ==
    ASSUME TypeOK, NEW d \in Threads, ThreadStep(d)
    PROVE  StepsLeft[pc'[d]] < StepsLeft[pc[d]]
<1> USE StepsLeftValues DEF TypeOK, PCs
<1>1. ASSUME NEW from \in PCs \ {"idle"}, Finish(d, from)
      PROVE  StepsLeft[pc'[d]] < StepsLeft[pc[d]]
  BY <1>1 DEF Finish
<1>2. CASE Accept(d) \/ DecideApprove(d)
  BY <1>2 DEF Accept, DecideApprove, Approve, Step
<1>3. CASE LoadServer(d) \/ LoadPolicy(d) \/ LoadTrust(d)
  BY <1>3 DEF LoadServer, LoadPolicy, LoadTrust, Step
<1>4. CASE Evaluate(d) \/ CallUpstream(d)
  BY <1>4 DEF Evaluate, CallUpstream, Step
<1> QED
  BY <1>1, <1>2, <1>3, <1>4
  DEF ThreadStep, Reject, DecideDeny, Unserved, LogBlocked, UpstreamTimesOut,
      Record, Raise

(* Nobody else sends a thread back, but a restart, which ends its request. *)
LEMMA StepsAreKept ==
    ASSUME TypeOK, [Next]_vars, NEW d \in Threads, pc[d] # "idle",
           pc'[d] # "idle"
    PROVE  StepsLeft[pc'[d]] <= StepsLeft[pc[d]]
<1> USE StepsLeftValues DEF TypeOK, thread
<1>1. CASE ThreadStep(d)
  BY <1>1, StepsAreSpent, TypeStep
<1>2. CASE pc'[d] = pc[d]
  BY <1>2
<1>3. ASSUME NEW e \in Threads, ThreadStep(e), e # d PROVE pc'[d] = pc[d]
  BY <1>3 DEF ThreadStep, Accept, Reject, DecideApprove, Approve, DecideDeny, LoadServer,
     LoadPolicy, LoadTrust, Unserved, Evaluate, LogBlocked, CallUpstream,
     UpstreamTimesOut, Record, Raise, Step, Finish
<1>4. CASE ~ \E e \in Threads : ThreadStep(e)
  BY <1>4 DEF Next, Hold, Change, Ask, Restart, vars
<1> QED BY <1>1, <1>2, <1>3, <1>4

LEMMA WithinIsKept ==
    ASSUME TypeOK, [Next]_vars, NEW d \in Threads, pc[d] # "idle",
           pc'[d] # "idle", NEW n \in Nat, Within(d, n)
    PROVE  Within(d, n)'
BY StepsAreKept, TypeStep, StepsLeftValues DEF Within, TypeOK

LEMMA OneStepLess ==
    ASSUME TypeOK, TypeOK', NEW d \in Threads, ThreadStep(d),
           NEW n \in Nat, Within(d, n + 1)
    PROVE  Within(d, n)'
BY StepsAreSpent, StepsLeftValues DEF Within, TypeOK

(* Every approve or deny request gets its answer, however many threads     *)
(* race and whatever is changed, fails or restarts in between, if the      *)
(* threads that serve one go on: no path through approve, deny and         *)
(* _execute_approved comes back to where it was.  (approval_service.py)    *)
THEOREM RequestsAreServed ==
    Spec /\ (\A d \in Threads : ThreadGoesOn(d)) => EveryRequestServed
<1>1. ASSUME NEW d \in Threads
      PROVE  Spec /\ ThreadGoesOn(d) => (pc[d] # "idle" ~> pc[d] = "idle")
  <2>1. TypeOK => Within(d, 8)
    BY StepsLeftValues DEF TypeOK, Within
  <2>2. TypeOK /\ Within(d, 0) => pc[d] = "idle"
    BY StepsLeftValues DEF TypeOK, Within
  <2>3. TypeOK /\ [Next]_vars /\ ~(pc[d] = "idle") /\ ~(pc[d] = "idle")' =>
          /\ (Within(d, 1) => Within(d, 1)') /\ (Within(d, 2) => Within(d, 2)')
          /\ (Within(d, 3) => Within(d, 3)') /\ (Within(d, 4) => Within(d, 4)')
          /\ (Within(d, 5) => Within(d, 5)') /\ (Within(d, 6) => Within(d, 6)')
          /\ (Within(d, 7) => Within(d, 7)') /\ (Within(d, 8) => Within(d, 8)')
    BY WithinIsKept
  <2>4. TypeOK /\ TypeOK' /\ <<ThreadStep(d)>>_vars =>
          /\ (Within(d, 1) => Within(d, 0)') /\ (Within(d, 2) => Within(d, 1)')
          /\ (Within(d, 3) => Within(d, 2)') /\ (Within(d, 4) => Within(d, 3)')
          /\ (Within(d, 5) => Within(d, 4)') /\ (Within(d, 6) => Within(d, 5)')
          /\ (Within(d, 7) => Within(d, 6)') /\ (Within(d, 8) => Within(d, 7)')
    <3>1. ASSUME TypeOK, TypeOK', ThreadStep(d), NEW n \in Nat, Within(d, n),
                 NEW k \in Nat, n = k + 1
          PROVE  Within(d, k)'
      BY <3>1, OneStepLess
    <3> QED BY <3>1
  <2> QED BY <2>1, <2>2, <2>3, <2>4, TypeCorrect, PTL DEF Spec, ThreadGoesOn
<1> QED BY <1>1 DEF EveryRequestServed

=============================================================================
