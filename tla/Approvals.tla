----------------------------- MODULE Approvals ------------------------------
(***************************************************************************)
(* approval_service.py: users of the console approve and deny held calls   *)
(* in worker threads of their own.  A decision is three or four database   *)
(* transactions and two upstream requests, and every pair of them          *)
(* interleaves with the other threads, with deploys and syncs, and with a  *)
(* restart of the backend.                                                 *)
(*                                                                         *)
(* What _execute_approved reads in the servers, settings and trust tables  *)
(* is abstracted to what it means for the call at hand: whether the server *)
(* is there with an http endpoint; whether the policy denies the call,     *)
(* leaves it to a verified trust record (action allow, and no rule that    *)
(* fires) or lets any record through (require_approval, or a rule that     *)
(* fires and does not deny); and the trust record, "none" standing for a   *)
(* Revoked one too.                                                        *)
(***************************************************************************)
EXTENDS Naturals, FiniteSets

CONSTANTS
    Ids,        \* approval ids
    Threads,    \* worker threads that serve approve and deny requests
    MaxRestarts \* bound: restarts of the backend

ASSUME ApprovalsAssumption == MaxRestarts \in Nat /\ Ids # {}

VARIABLES
    status,    \* status[i]: the status column, "none" when there is no row
    tables,    \* tables[i]: what they say of the call now
    pc,        \* pc[d]: where thread d is
    job,       \* job[d]: the request it serves
    seen,      \* seen[d]: what it has read of them
    runs,      \* runs[i]: times the upstream server executed the call
    audit,     \* audit[label][i]: audit rows of the call, after Pending
    approvals, \* history: approvals[i] counts committed approve decisions
    disturbed, \* history: the threads whose call's tables have changed
               \* since they committed their decision
    restarts   \* restarts so far, the model's bound

thread == <<pc, job, seen, disturbed>>
vars == <<status, tables, thread, runs, audit, approvals, restarts>>

Kinds     == {"approve", "deny"}
Jobs      == [kind : Kinds, id : Ids]
Contents  == [server : {"up", "down"},
              policy : {"denies", "if_verified", "lets"},
              trust  : {"none", "Needs approval", "Verified"}]
Unread    == [server |-> "unread", policy |-> "unread", trust |-> "unread"]
Views     == [server : {"up", "down", "unread"},
              policy : {"denies", "if_verified", "lets", "unread"},
              trust  : {"none", "Needs approval", "Verified", "unread"}]
StatusValues == {"none", "pending", "approved", "executed", "denied"}
PCs == {"idle", "check", "decide", "load_server", "load_policy", "load_trust",
        "evaluate", "log_blocked", "upstream", "record"}

TypeOK ==
    /\ status \in [Ids -> StatusValues]
    /\ tables \in [Ids -> Contents]
    /\ pc \in [Threads -> PCs]
    /\ job \in [Threads -> Jobs]
    /\ seen \in [Threads -> Views]
    /\ runs \in [Ids -> Nat]
    /\ audit \in [{"Allowed", "Denied"} -> [Ids -> Nat]]
    /\ approvals \in [Ids -> Nat]
    /\ disturbed \subseteq Threads
    /\ restarts \in 0..MaxRestarts

SomeJob == CHOOSE j \in Jobs : TRUE
NoCalls == [i \in Ids |-> 0]

Init ==
    /\ status = [i \in Ids |-> "none"]
    /\ tables \in [Ids -> Contents]
    /\ pc = [d \in Threads |-> "idle"]
    /\ job = [d \in Threads |-> SomeJob]
    /\ seen = [d \in Threads |-> Unread]
    /\ runs = NoCalls
    /\ audit = [l \in {"Allowed", "Denied"} |-> NoCalls]
    /\ approvals = NoCalls
    /\ disturbed = {}
    /\ restarts = 0

Id(d) == job[d].id

(* Thread d goes on, or is done and its local variables are gone.          *)
Step(d, from, to) ==
    /\ pc[d] = from
    /\ pc' = [pc EXCEPT ![d] = to]
    /\ UNCHANGED <<job, tables, restarts>>

Finish(d, from) ==
    /\ pc[d] = from
    /\ pc' = [pc EXCEPT ![d] = "idle"]
    /\ job' = [job EXCEPT ![d] = SomeJob]
    /\ seen' = [seen EXCEPT ![d] = Unread]
    /\ disturbed' = disturbed \ {d}
    /\ UNCHANGED <<tables, restarts>>

Write(label, i) == audit' = [audit EXCEPT ![label][i] = @ + 1]

-----------------------------------------------------------------------------
(* The gateway holds a call (ApprovalRepository.create).                   *)
Hold(i) ==
    /\ status[i] = "none"
    /\ status' = [status EXCEPT ![i] = "pending"]
    /\ UNCHANGED <<tables, thread, runs, audit, approvals, restarts>>

(* POST /api/approvals/{id}/approve or /deny reaches a thread.             *)
Ask(d, kind, i) ==
    /\ pc[d] = "idle"
    /\ pc' = [pc EXCEPT ![d] = "check"]
    /\ job' = [job EXCEPT ![d] = [kind |-> kind, id |-> i]]
    /\ UNCHANGED <<status, tables, seen, disturbed, runs, audit, approvals,
                   restarts>>

(* A deploy, a sync, a server edit or a trust change.                      *)
Decided(d) == pc[d] \notin {"idle", "check", "decide"}

Change(i, contents) ==
    /\ tables' = [tables EXCEPT ![i] = contents]
    /\ disturbed' = disturbed \cup {d \in Threads : Decided(d) /\ Id(d) = i}
    /\ UNCHANGED <<status, pc, job, seen, runs, audit, approvals, restarts>>

-----------------------------------------------------------------------------
(* approve and deny.                                                       *)

(* Mutant of Accept: an approve request on an approved row is served as a  *)
(* retry.                                                                  *)
AcceptRetry(d) ==
    /\ \/ status[Id(d)] = "pending" /\ Step(d, "check", "decide")
       \/ /\ status[Id(d)] = "approved" /\ job[d].kind = "approve"
          /\ Step(d, "check", "load_server")
    /\ UNCHANGED <<status, seen, disturbed, runs, audit, approvals>>

(* The SELECT, outside any transaction.                                    *)
Accept(d) ==
    /\ Step(d, "check", "decide")
    /\ status[Id(d)] = "pending"
    /\ UNCHANGED <<status, seen, disturbed, runs, audit, approvals>>

(* 404: there is no such row, or it "is already" decided.                  *)
Reject(d) ==
    /\ Finish(d, "check")
    /\ status[Id(d)] # "pending"
    /\ UNCHANGED <<status, runs, audit, approvals>>

(* ApprovalRepository.decide, an UPDATE by id alone, and its commit.       *)
Approve(d, value) ==
    /\ job[d].kind = "approve"
    /\ Step(d, "decide", "load_server")
    /\ status' = [status EXCEPT ![Id(d)] = value]
    /\ approvals' = [approvals EXCEPT ![Id(d)] = @ + 1]
    /\ UNCHANGED <<seen, disturbed, runs, audit>>

(* Mutant of DecideApprove: the verb is written to the status column.      *)
DecideByVerb(d) == Approve(d, "approve")

DecideApprove(d) == Approve(d, "approved")

(* The UPDATE, the Denied row and the anomaly check are one transaction.   *)
DecideDeny(d) ==
    /\ job[d].kind = "deny"
    /\ Finish(d, "decide")
    /\ status' = [status EXCEPT ![Id(d)] = "denied"]
    /\ Write("Denied", Id(d))
    /\ UNCHANGED <<runs, approvals>>

-----------------------------------------------------------------------------
(* _execute_approved.                                                      *)

(* The three SELECTs, each of what is committed when it runs.              *)
LoadServer(d) ==
    /\ Step(d, "load_server", "load_policy")
    /\ seen' = [seen EXCEPT ![d].server = tables[Id(d)].server]
    /\ UNCHANGED <<status, disturbed, runs, audit, approvals>>

LoadPolicy(d) ==
    /\ Step(d, "load_policy", "load_trust")
    /\ seen' = [seen EXCEPT ![d].policy = tables[Id(d)].policy]
    /\ UNCHANGED <<status, disturbed, runs, audit, approvals>>

LoadTrust(d) ==
    /\ Step(d, "load_trust", "evaluate")
    /\ seen' = [seen EXCEPT ![d].trust = tables[Id(d)].trust]
    /\ UNCHANGED <<status, disturbed, runs, audit, approvals>>

(* No server to call: it returns without a trace.                          *)
Unserved(d) ==
    /\ Finish(d, "evaluate")
    /\ seen[d].server = "down"
    /\ UNCHANGED <<status, runs, audit, approvals>>

(* PolicyEngine.evaluate does not answer deny.                             *)
LetsThrough(view) ==
    \/ view.policy = "lets" /\ view.trust # "none"
    \/ view.policy = "if_verified" /\ view.trust = "Verified"

(* Mutant of Evaluate: an approval overrides the policy.                   *)
EvaluateTrusting(d) ==
    /\ seen[d].server = "up" /\ Step(d, "evaluate", "upstream")
    /\ UNCHANGED <<status, seen, disturbed, runs, audit, approvals>>

Evaluate(d) ==
    /\ seen[d].server = "up"
    /\ Step(d, "evaluate",
            IF LetsThrough(seen[d]) THEN "upstream" ELSE "log_blocked")
    /\ UNCHANGED <<status, seen, disturbed, runs, audit, approvals>>

(* Mutant of LogBlocked: it goes on to the call.                           *)
LogBlockedOnly(d) ==
    /\ Step(d, "log_blocked", "upstream")
    /\ Write("Denied", Id(d))
    /\ UNCHANGED <<status, seen, disturbed, runs, approvals>>

(* "Blocked by current policy after approval"; the row stays approved.     *)
LogBlocked(d) ==
    /\ Finish(d, "log_blocked")
    /\ Write("Denied", Id(d))
    /\ UNCHANGED <<status, runs, approvals>>

(* initialize and tools/call upstream.  An answer that does not arrive in  *)
(* time is an exception like any other, and is swallowed.                  *)
Execute(d) == runs' = [runs EXCEPT ![Id(d)] = @ + 1]

CallUpstream(d) ==
    /\ Step(d, "upstream", "record")
    /\ Execute(d)
    /\ UNCHANGED <<status, seen, disturbed, audit, approvals>>

UpstreamTimesOut(d) ==
    /\ Finish(d, "upstream")
    /\ Execute(d)
    /\ UNCHANGED <<status, audit, approvals>>

(* update_executed and the Allowed row, one transaction.                   *)
Record(d) ==
    /\ Finish(d, "record")
    /\ status' = [status EXCEPT ![Id(d)] = "executed"]
    /\ Write("Allowed", Id(d))
    /\ UNCHANGED <<runs, approvals>>

(* Mutant of Raise: a request that cannot have the lock starts over.       *)
RaiseRetrying(d) ==
    /\ \/ Step(d, "decide", "check") /\ UNCHANGED <<seen, disturbed>>
       \/ \E from \in {"evaluate", "log_blocked", "upstream", "record"} :
             Finish(d, from)
    /\ UNCHANGED <<status, runs, audit, approvals>>

(* An exception: the write lock is not had in time, the upstream server    *)
(* cannot be reached, the arguments or the policy do not parse.  What was  *)
(* not committed is lost; from "upstream" on the exception is swallowed.   *)
Raise(d) ==
    /\ \E from \in {"decide", "evaluate", "log_blocked", "upstream", "record"} :
          Finish(d, from)
    /\ UNCHANGED <<status, runs, audit, approvals>>

ThreadStep(d) ==
    \/ Accept(d) \/ Reject(d) \/ DecideApprove(d) \/ DecideDeny(d)
    \/ LoadServer(d) \/ LoadPolicy(d) \/ LoadTrust(d)
    \/ Unserved(d) \/ Evaluate(d) \/ LogBlocked(d)
    \/ CallUpstream(d) \/ UpstreamTimesOut(d) \/ Record(d) \/ Raise(d)

(* Threads die with the process; the tables stay.                          *)
Restart ==
    /\ restarts < MaxRestarts
    /\ restarts' = restarts + 1
    /\ pc' = [d \in Threads |-> "idle"]
    /\ job' = [d \in Threads |-> SomeJob]
    /\ seen' = [d \in Threads |-> Unread]
    /\ disturbed' = {}
    /\ UNCHANGED <<status, tables, runs, audit, approvals>>

Next ==
    \/ \E i \in Ids : Hold(i) \/ \E contents \in Contents : Change(i, contents)
    \/ \E d \in Threads, kind \in Kinds, i \in Ids : Ask(d, kind, i)
    \/ \E d \in Threads : ThreadStep(d)
    \/ Restart

Spec == Init /\ [][Next]_vars

(* A thread's own steps are calls that return or fail; no user has to ask. *)
FairSpec == Spec /\ \A d \in Threads : WF_vars(ThreadStep(d))

(* The same without ENABLED, for the proofs: a thread is idle again and    *)
(* again, or takes steps again and again.  WF_vars(ThreadStep(d)) says so  *)
(* of a thread that can go on whenever it is busy, as here.                *)
ThreadGoesOn(d) == []<>(pc[d] = "idle") \/ []<><<ThreadStep(d)>>_vars

-----------------------------------------------------------------------------
(* Properties.                                                             *)

(* A held call reaches the upstream server no more often than someone      *)
(* approved it, and the trail shows no more Allowed rows than executions.  *)
(* (approve, _execute_approved)                                            *)
RunsAreApproved ==
    \A i \in Ids : audit["Allowed"][i] <= runs[i] /\ runs[i] <= approvals[i]

(* A row that reads executed was executed upstream and has its Allowed row *)
(* in the trail.  (update_executed and log in one transaction)             *)
ExecutedIsRecorded ==
    \A i \in Ids : status[i] = "executed" => audit["Allowed"][i] > 0

(* Approval does not bypass policy: while the server, the policy and the   *)
(* trust record stay what they were when the approval was committed, the   *)
(* call goes upstream only if they let it through, whatever they said when *)
(* the call was held or the row was found pending.                         *)
(* (_execute_approved re-evaluates)                                        *)
PolicyStillBinds ==
    \A d \in Threads :
       pc[d] = "upstream" /\ d \notin disturbed
         => tables[Id(d)].server = "up" /\ LetsThrough(tables[Id(d)])

(* With one thread, and whatever fails or restarts, a held call goes       *)
(* through the life the workflow promises: decided once, run at most once. *)
Lifecycle == INSTANCE ApprovalLifecycle
    WITH Ids <- Ids, status <- status, runs <- runs
ImplementsLifecycle == Lifecycle!Spec

(* With any number of threads, every approval is used up at most once: it  *)
(* gives one execution, or one Denied row, or is lost, and an execution is *)
(* recorded at most once, in the row and the trail together.  A thread     *)
(* past its decision holds a grant until it has used it.                   *)
(* (approve, deny, _execute_approved)                                      *)
Unused(i)     == {d \in Threads : /\ Decided(d) /\ pc[d] # "record"
                                  /\ Id(d) = i}
Unrecorded(i) == {d \in Threads : pc[d] = "record" /\ Id(d) = i}

Ledger == INSTANCE ApprovalLedger
    WITH Ids <- Ids, status <- status, trail <- audit, runs <- runs,
         approvals <- approvals,
         grants <- [i \in Ids |-> Cardinality(Unused(i))],
         results <- [i \in Ids |-> Cardinality(Unrecorded(i))]
ImplementsLedger == Ledger!Spec

(* Every approve or deny request gets its answer.                          *)
EveryRequestServed == \A d \in Threads : pc[d] # "idle" ~> pc[d] = "idle"

-----------------------------------------------------------------------------
(* Statements of the code itself that it does not keep.                    *)

(* approve and deny turn away a request on a row that "is already" decided.*)
(* A decision is therefore never replaced by another one.                  *)
DecisionIsFinal ==
    [][\A i \in Ids :
         /\ status[i] = "denied" => status'[i] = "denied"
         /\ status[i] = "executed" => status'[i] = "executed"]_vars

=============================================================================
