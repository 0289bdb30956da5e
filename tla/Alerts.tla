------------------------------- MODULE Alerts -------------------------------
(***************************************************************************)
(* anomaly_service.py and alert_service.py: every writer of the audit      *)
(* trail - the gateway, the simulation of gateway_invoke_service.py, a     *)
(* denied approval - looks for anomalies in the transaction that holds its *)
(* row; the rows of an executed approval are not looked at.                *)
(*                                                                         *)
(* SQLite has one writer at a time.  The lock is taken by the INSERT of    *)
(* the row and kept to the commit, through the upstream call of an allowed *)
(* tools/call; a writer that waits for longer than five seconds gives up.  *)
(* Readers do not wait.  Minutes are counted by a clock that ticks between *)
(* any two steps.                                                          *)
(***************************************************************************)
EXTENDS Naturals, Sequences, FiniteSets

CONSTANTS
    Agents, Tools, \* a tool stands for its server and name
    Threads,       \* the gateway's event loop and worker threads
    Settings,      \* the rules an admin may save
    MaxRows,       \* bound: calls ever begun
    MaxMinutes     \* bound: ticks of the clock

WindowTypes == {"repeated_denials", "high_call_rate", "approval_flood"}
Types       == WindowTypes \cup {"new_tool_attempt"}

(* threshold: the rows within the window that raise an alert; window: the  *)
(* minutes a row counts; broken: the checks raise on the rules' shape.     *)
Rules == [enabled : SUBSET Types, broken : BOOLEAN,
          threshold : [WindowTypes -> Nat], window : [WindowTypes -> Nat]]

ASSUME AlertsAssumption ==
    /\ Settings \subseteq Rules
    /\ MaxRows \in Nat /\ MaxMinutes \in Nat
    /\ Agents # {} /\ Tools # {}
    /\ "none" \notin Threads /\ IsFiniteSet(Threads)

VARIABLES
    audit,     \* the committed rows, in order
    open,      \* open[type][a]: unacknowledged alerts of a window type
    flagged,   \* flagged[a][t]: new_tool_attempt alerts
    rules,     \* the alert_rules setting
    lock,      \* the thread that holds the write lock, or NoThread
    pc,        \* pc[d]: where thread d is
    job,       \* job[d]: its row, and the alerts it has raised
    minute,    \* the clock
    begun,     \* calls begun so far, the model's bound
    unwatched  \* history: <<agent, tool>> whose first row came while
               \* new_tool_attempt was disabled

tables == <<audit, open, flagged, rules>>
vars == <<tables, lock, pc, job, minute, begun, unwatched>>

NoThread    == "none"
Labels      == {"Allowed", "Denied", "Pending"}
Minutes     == 0..MaxMinutes
Rows        == [agent : Agents, tool : Tools, label : Labels, at : Minutes]
PCs         == {"idle", "waiting", "writing"}

(* checked: the writer calls check_with_conn after its INSERT.             *)
Jobs  == [row : Rows, checked : BOOLEAN, raised : SUBSET Types]

TypeOK ==
    /\ audit \in Seq(Rows) /\ Len(audit) <= begun
    /\ open \in [WindowTypes -> [Agents -> Nat]]
    /\ flagged \in [Agents -> [Tools -> Nat]]
    /\ rules \in Rules
    /\ lock \in Threads \cup {NoThread}
    /\ pc \in [Threads -> PCs]
    /\ job \in [Threads -> Jobs]
    /\ minute \in Minutes /\ begun \in 0..MaxRows
    /\ unwatched \subseteq Agents \X Tools

Row(a, t, label, at) == [agent |-> a, tool |-> t, label |-> label, at |-> at]

NoJob == [row |-> CHOOSE r \in Rows : r.at = 0, checked |-> FALSE,
          raised |-> {}]

Init ==
    /\ audit = <<>>
    /\ open = [type \in WindowTypes |-> [a \in Agents |-> 0]]
    /\ flagged = [a \in Agents |-> [t \in Tools |-> 0]]
    /\ rules \in Settings
    /\ lock = NoThread
    /\ pc = [d \in Threads |-> "idle"]
    /\ job = [d \in Threads |-> NoJob]
    /\ minute = 0 /\ begun = 0
    /\ unwatched = {}

-----------------------------------------------------------------------------
(* What the checks count and raise.                                        *)

(* The rows a window type counts, now that the row r has been inserted.    *)
Counts(type, row) ==
    CASE type = "repeated_denials" -> row.label = "Denied"
      [] type = "approval_flood"   -> row.label = "Pending"
      [] OTHER                     -> TRUE

(* With a window of zero the cutoff lies after every row, this one too.    *)
Recent(type, trail, a) ==
    {i \in DOMAIN trail : /\ trail[i].agent = a /\ Counts(type, trail[i])
                          /\ rules.window[type] > 0
                          /\ trail[i].at + rules.window[type] >= minute}

CallsOf(trail, a, t) ==
    {i \in DOMAIN trail : trail[i].agent = a /\ trail[i].tool = t}

(* Mutant of Reaches: more than the threshold.                             *)
ReachesPast(trail, type, a) ==
    Cardinality(Recent(type, trail, a)) > rules.threshold[type]

Reaches(trail, type, a) ==
    Cardinality(Recent(type, trail, a)) >= rules.threshold[type]

(* Mutant of Unraised: an alert is held back only while it is the same     *)
(* call's: exists_unacknowledged is forgotten.                             *)
UnraisedAlways(type, a) == TRUE

(* exists_unacknowledged says no.                                          *)
Unraised(type, a) == open[type][a] = 0

(* check_with_conn, for a row just appended to the trail.                  *)
Raised(row) ==
    LET trail == Append(audit, row)
    IN {type \in WindowTypes \cap rules.enabled :
          /\ type = "approval_flood" => row.label = "Pending"
          /\ Reaches(trail, type, row.agent)
          /\ Unraised(type, row.agent)}
       \cup
       {type \in {"new_tool_attempt"} \cap rules.enabled :
          /\ Cardinality(CallsOf(trail, row.agent, row.tool)) = 1
          /\ flagged[row.agent][row.tool] = 0}

-----------------------------------------------------------------------------
(* The writers.                                                            *)

Begin(d, a, t, label, checked) ==
    /\ pc[d] = "idle" /\ begun < MaxRows
    /\ pc' = [pc EXCEPT ![d] = "waiting"]
    /\ job' = [job EXCEPT ![d] = [row |-> Row(a, t, label, minute),
                                  checked |-> checked, raised |-> {}]]
    /\ begun' = begun + 1
    /\ UNCHANGED <<tables, lock, minute, unwatched>>

(* The row of an executed approval is an agent's second for that tool: the *)
(* Pending one is committed.                                               *)
Held(a, t) == \E i \in CallsOf(audit, a, t) : audit[i].label = "Pending"

BeginAny(d) ==
    \E a \in Agents, t \in Tools, label \in Labels :
       \/ Begin(d, a, t, label, TRUE)
       \/ label # "Pending" /\ Held(a, t) /\ Begin(d, a, t, label, FALSE)

(* The INSERT has the lock, and the checks run, on the rules as they are   *)
(* and with a cutoff of their own.                                         *)
Write(d) ==
    /\ pc[d] = "waiting" /\ lock = NoThread
    /\ job[d].checked => ~rules.broken
    /\ pc' = [pc EXCEPT ![d] = "writing"]
    /\ lock' = d
    /\ job' = [job EXCEPT ![d].raised =
                 IF job[d].checked THEN Raised(job[d].row) ELSE {}]
    /\ UNCHANGED <<tables, minute, begun, unwatched>>

Done(d) ==
    /\ pc' = [pc EXCEPT ![d] = "idle"]
    /\ job' = [job EXCEPT ![d] = NoJob]
    /\ UNCHANGED <<rules, minute, begun>>

AddAlerts(d) ==
    LET row == job[d].row
        new(type, a) == IF a = row.agent /\ type \in job[d].raised THEN 1 ELSE 0
    IN /\ open' = [type \in WindowTypes |->
                     [a \in Agents |-> open[type][a] + new(type, a)]]
       /\ flagged' = [flagged EXCEPT ![row.agent][row.tool] =
                        @ + new("new_tool_attempt", row.agent)]

(* Mutant of Commit: a second row for the outcome of the call.             *)
CommitOutcome(d) ==
    LET row == job[d].row
    IN /\ pc[d] = "writing"
       /\ Done(d)
       /\ lock' = NoThread
       /\ audit' = audit \o <<row, row>>
       /\ AddAlerts(d)
       /\ UNCHANGED unwatched

(* The commit, after the upstream call if the gateway makes one.           *)
Commit(d) ==
    LET row == job[d].row
    IN /\ pc[d] = "writing"
       /\ Done(d)
       /\ lock' = NoThread
       /\ audit' = Append(audit, row)
       /\ AddAlerts(d)
       /\ unwatched' = IF "new_tool_attempt" \notin rules.enabled
                          /\ CallsOf(audit, row.agent, row.tool) = {}
                       THEN unwatched \cup {<<row.agent, row.tool>>}
                       ELSE unwatched

(* Mutants of Rollback: the alerts are written on a connection of their    *)
(* own; the connection is not closed, and stays open.                      *)
RollbackRowOnly(d) ==
    /\ pc[d] = "writing"
    /\ Done(d)
    /\ lock' = NoThread
    /\ AddAlerts(d)
    /\ UNCHANGED <<audit, unwatched>>

RollbackUnclosed(d) ==
    \/ /\ pc[d] = "writing"
       /\ Done(d)
       /\ UNCHANGED <<audit, open, flagged, lock, unwatched>>
    \/ pc[d] = "idle" /\ lock = d /\ UNCHANGED vars

(* The upstream call or anything else fails: row and alerts are gone.      *)
Rollback(d) ==
    /\ pc[d] = "writing"
    /\ Done(d)
    /\ lock' = NoThread
    /\ UNCHANGED <<audit, open, flagged, unwatched>>

(* "database is locked": another writer has had the lock for too long.     *)
GiveUp(d) ==
    /\ pc[d] = "waiting" /\ lock # NoThread
    /\ Done(d)
    /\ UNCHANGED <<audit, open, flagged, lock, unwatched>>

(* Mutant of CheckRaises: the call is tried again, on the same rules.      *)
CheckRaisesRetrying(d) ==
    /\ pc[d] = "waiting" /\ lock = NoThread
    /\ job[d].checked /\ rules.broken
    /\ UNCHANGED vars

(* Rules of the wrong shape raise in the checks.                           *)
CheckRaises(d) ==
    /\ pc[d] = "waiting" /\ lock = NoThread
    /\ job[d].checked /\ rules.broken
    /\ Done(d)
    /\ UNCHANGED <<audit, open, flagged, lock, unwatched>>

ThreadStep(d) ==
    Write(d) \/ Commit(d) \/ Rollback(d) \/ GiveUp(d) \/ CheckRaises(d)

-----------------------------------------------------------------------------
(* alert_service.py; both need the lock.                                   *)

Acknowledge(type, a) ==
    /\ lock = NoThread /\ open[type][a] > 0
    /\ open' = [open EXCEPT ![type][a] = @ - 1]
    /\ UNCHANGED <<audit, flagged, rules, lock, pc, job, minute, begun,
                   unwatched>>

(* PUT /api/alert-rules replaces them as a whole.                          *)
UpdateRules(new) ==
    /\ lock = NoThread
    /\ rules' = new
    /\ UNCHANGED <<audit, open, flagged, lock, pc, job, minute, begun,
                   unwatched>>

Tick ==
    /\ minute < MaxMinutes
    /\ minute' = minute + 1
    /\ UNCHANGED <<tables, lock, pc, job, begun, unwatched>>

Next ==
    \/ \E d \in Threads : BeginAny(d) \/ ThreadStep(d)
    \/ \E type \in WindowTypes, a \in Agents : Acknowledge(type, a)
    \/ \E new \in Settings : UpdateRules(new)
    \/ Tick

Spec == Init /\ [][Next]_vars

(* SQLite's busy timeout and the upstream call's are finite, and a thread  *)
(* that can run is run.                                                    *)
FairSpec == Spec /\ \A d \in Threads : WF_vars(ThreadStep(d))

(* The same without ENABLED, for the proofs: a writer is idle again and    *)
(* again, or takes steps again and again.                                  *)
ThreadGoesOn(d) == []<>(pc[d] = "idle") \/ []<><<ThreadStep(d)>>_vars

-----------------------------------------------------------------------------
(* Properties.                                                             *)

(* An agent never has two unacknowledged alerts of one window type, with   *)
(* any number of writers at once.  (exists_unacknowledged inside the       *)
(* transaction that holds the write lock)                                  *)
OneOpenAlert ==
    \A type \in WindowTypes, a \in Agents : open[type][a] <= 1

(* A burst does not go unnoticed: when a checked row is committed and the  *)
(* rows its agent has within the window reach the threshold, an alert of   *)
(* that type is open, whatever was rolled back, given up or acknowledged   *)
(* before.  (check_with_conn sees the row it follows)                      *)
BurstIsNoticed ==
    [][\A d \in Threads : Commit(d) /\ job[d].checked =>
         \A type \in WindowTypes \cap rules.enabled :
            LET a == job[d].row.agent
            IN /\ type = "approval_flood" => job[d].row.label = "Pending"
               /\ Cardinality(Recent(type, audit', a)) >= rules.threshold[type]
               => open'[type][a] > 0]_vars

(* The first call an agent makes of a tool is flagged, and only that one:  *)
(* once the trail has a row there is one alert, and none before, whether   *)
(* earlier calls were rolled back or later ones were first to begin.       *)
(* (count = 1 and has_alert_for_tool)                                      *)
FirstCallsAreFlagged ==
    \A a \in Agents, t \in Tools :
       IF CallsOf(audit, a, t) = {} THEN flagged[a][t] = 0
       ELSE <<a, t>> \in unwatched \/ flagged[a][t] = 1

AsAlertBook == INSTANCE AlertBook WITH trail <- audit, clock <- minute

(* Whatever waits, rolls back or ticks between the INSERT and the commit,  *)
(* a row and its alerts are in the tables as if they had been judged and   *)
(* written in one step, against the trail the row follows and under the    *)
(* rules in force.  (check_with_conn on the caller's connection)           *)
ImplementsAlertBook == AsAlertBook!Spec

(* The write lock always comes free, whatever becomes of its holder.       *)
(* (Database.connect closes on every path)                                 *)
LockIsReleased == \A d \in Threads : lock = d ~> lock = NoThread

(* Every call ends, also one that waits for the lock.                      *)
EveryWriterEnds == \A d \in Threads : pc[d] # "idle" ~> pc[d] = "idle"

=============================================================================
