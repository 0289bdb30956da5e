----------------------------- MODULE AlertBook ------------------------------
(***************************************************************************)
(* What anomaly detection promises however many writers of the trail race: *)
(* a row and the alerts it raises appear together, in one step, and they   *)
(* are what the rules say of the trail that the row ends, each type of     *)
(* alert judged at some moment between the row's time stamp and now.  A    *)
(* call that comes to nothing leaves neither row nor alert.                *)
(***************************************************************************)
EXTENDS Naturals, Sequences, FiniteSets

CONSTANTS
    Agents, Tools, Labels,
    WindowTypes, \* the types of alert that count rows within a window
    Settings     \* the rules an admin may save

VARIABLES
    trail,   \* the rows, in order
    open,    \* open[type][a]: 1 if an alert of a window type is unacknowledged
    flagged, \* flagged[a][t]: 1 once agent a's first call of t is flagged
    rules,   \* the rules in force
    clock

book == <<trail, open, flagged, rules, clock>>

Init ==
    /\ trail = <<>>
    /\ open = [type \in WindowTypes |-> [a \in Agents |-> 0]]
    /\ flagged = [a \in Agents |-> [t \in Tools |-> 0]]
    /\ rules \in Settings
    /\ clock = 0

Rows == [agent : Agents, tool : Tools, label : Labels, at : 0..clock]

Counts(type, row) ==
    /\ type = "repeated_denials" => row.label = "Denied"
    /\ type = "approval_flood" => row.label = "Pending"

(* The agent's rows that count towards type, with the row itself.          *)
Burst(type, row, now) ==
    LET longer == Append(trail, row)
    IN {i \in DOMAIN longer :
          /\ longer[i].agent = row.agent /\ Counts(type, longer[i])
          /\ rules.window[type] > 0 /\ longer[i].at + rules.window[type] >= now}

Due(type, row, now) ==
    /\ type \in rules.enabled
    /\ type = "approval_flood" => Counts(type, row)
    /\ Cardinality(Burst(type, row, now)) >= rules.threshold[type]
    /\ open[type][row.agent] = 0

IsFirst(row) ==
    \A i \in DOMAIN trail : <<trail[i].agent, trail[i].tool>> # <<row.agent, row.tool>>

(* A row that is judged, each type at a moment of its own.                 *)
Record(row, now) ==
    /\ ~rules.broken
    /\ trail' = Append(trail, row)
    /\ open' = [type \in WindowTypes |-> [a \in Agents |->
                  IF a = row.agent /\ Due(type, row, now[type]) THEN 1
                  ELSE open[type][a]]]
    /\ flagged' = IF "new_tool_attempt" \in rules.enabled /\ IsFirst(row)
                  THEN [flagged EXCEPT ![row.agent][row.tool] = 1]
                  ELSE flagged
    /\ UNCHANGED <<rules, clock>>

(* A row that is not: never an agent's first of a tool.                    *)
RecordUnjudged(row) ==
    /\ ~IsFirst(row)
    /\ trail' = Append(trail, row)
    /\ UNCHANGED <<open, flagged, rules, clock>>

Acknowledge(type, a) ==
    /\ open[type][a] = 1
    /\ open' = [open EXCEPT ![type][a] = 0]
    /\ UNCHANGED <<trail, flagged, rules, clock>>

UpdateRules ==
    /\ rules' \in Settings
    /\ UNCHANGED <<trail, open, flagged, clock>>

Tick ==
    /\ clock' = clock + 1
    /\ UNCHANGED <<trail, open, flagged, rules>>

Next ==
    \/ \E row \in Rows : RecordUnjudged(row)
    \/ \E row \in Rows : \E now \in [WindowTypes -> row.at..clock] : Record(row, now)
    \/ \E type \in WindowTypes, a \in Agents : Acknowledge(type, a)
    \/ UpdateRules
    \/ Tick

Spec == Init /\ [][Next]_book

=============================================================================
