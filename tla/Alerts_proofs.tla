--------------------------- MODULE Alerts_proofs ---------------------------
(***************************************************************************)
(* Proofs about Alerts, for any agents, tools, thresholds and windows, and *)
(* any finite number of writers.                                           *)
(***************************************************************************)
EXTENDS Alerts, FiniteSetTheorems, TLAPS

-----------------------------------------------------------------------------
(* The inductive invariant.                                                *)

(* Whoever writes holds the lock.                                          *)
Locked == \A d \in Threads : pc[d] = "writing" => lock = d

(* A call leaves at most one row.                                          *)
Busy == {d \in Threads : pc[d] # "idle"}
RowPerCall == Len(audit) + Cardinality(Busy) <= begun

IsFirst(row) == CallsOf(audit, row.agent, row.tool) = {}

(* What a writer has found is still so, as long as it writes.              *)
Findings(d) ==
    LET row == job[d].row
    IN /\ \A type \in job[d].raised \cap WindowTypes : open[type][row.agent] = 0
       /\ "new_tool_attempt" \in job[d].raised <=>
            /\ job[d].checked /\ "new_tool_attempt" \in rules.enabled
            /\ IsFirst(row) /\ flagged[row.agent][row.tool] = 0
       /\ job[d].checked =>
            \A type \in WindowTypes \cap rules.enabled :
               /\ type = "approval_flood" => row.label = "Pending"
               /\ Reaches(Append(audit, row), type, row.agent)
               => type \in job[d].raised \/ open[type][row.agent] > 0

Found == \A d \in Threads : pc[d] = "writing" => Findings(d)

(* An unchecked row is never an agent's first of a tool.                   *)
UncheckedAreLater ==
    \A d \in Threads : pc[d] # "idle" /\ ~job[d].checked => ~IsFirst(job[d].row)

IInv ==
    /\ TypeOK /\ Locked /\ RowPerCall /\ Found /\ UncheckedAreLater
    /\ OneOpenAlert /\ FirstCallsAreFlagged

-----------------------------------------------------------------------------
(* Trails.                                                                 *)

LEMMA RowsOfTrail ==
    ASSUME NEW trail \in Seq(Rows), NEW type, NEW a, NEW t
    PROVE  /\ IsFiniteSet(Recent(type, trail, a))
           /\ IsFiniteSet(CallsOf(trail, a, t))
<1>1. DOMAIN trail = 1..Len(trail) /\ Len(trail) \in Nat
  OBVIOUS
<1>2. IsFiniteSet(DOMAIN trail)
  BY <1>1, FS_Interval
<1>3. Recent(type, trail, a) \in SUBSET DOMAIN trail
      /\ CallsOf(trail, a, t) \in SUBSET DOMAIN trail
  BY DEF Recent, CallsOf
<1> QED BY <1>2, <1>3, FS_Subset

LEMMA CallsOfAppend ==
    ASSUME NEW trail \in Seq(Rows), NEW row \in Rows, NEW a, NEW t
    PROVE  CallsOf(Append(trail, row), a, t) =
              IF row.agent = a /\ row.tool = t
              THEN CallsOf(trail, a, t) \cup {Len(trail) + 1}
              ELSE CallsOf(trail, a, t)
<1> DEFINE longer == Append(trail, row)
<1>1. /\ DOMAIN trail = 1..Len(trail) /\ DOMAIN longer = 1..(Len(trail) + 1)
      /\ Len(trail) \in Nat
      /\ longer[Len(trail) + 1] = row
      /\ \A i \in 1..Len(trail) : longer[i] = trail[i]
  OBVIOUS
<1> HIDE DEF longer
<1>2. \A i : i \in 1..(Len(trail) + 1) <=> i \in 1..Len(trail) \/ i = Len(trail) + 1
  BY <1>1
<1>3. \A i \in 1..Len(trail) : i # Len(trail) + 1
  BY <1>1
<1>4. CallsOf(longer, a, t) =
        {i \in 1..(Len(trail) + 1) : longer[i].agent = a /\ longer[i].tool = t}
  BY <1>1 DEF CallsOf
<1>5. CallsOf(trail, a, t) =
        {i \in 1..Len(trail) : trail[i].agent = a /\ trail[i].tool = t}
  BY <1>1 DEF CallsOf
<1>6. CallsOf(longer, a, t) = IF row.agent = a /\ row.tool = t
                              THEN CallsOf(trail, a, t) \cup {Len(trail) + 1}
                              ELSE CallsOf(trail, a, t)
  BY <1>1, <1>2, <1>3, <1>4, <1>5
<1> QED BY <1>6 DEF longer

(* A row is an agent's first of a tool exactly if there was none before.   *)
LEMMA FirstIsOne ==
    ASSUME NEW trail \in Seq(Rows), NEW row \in Rows
    PROVE  Cardinality(CallsOf(Append(trail, row), row.agent, row.tool)) = 1
             <=> CallsOf(trail, row.agent, row.tool) = {}
<1> DEFINE C == CallsOf(trail, row.agent, row.tool)
           k == Len(trail) + 1
<1>1. CallsOf(Append(trail, row), row.agent, row.tool) = C \cup {k}
  BY CallsOfAppend
<1>2. IsFiniteSet(C)
  BY RowsOfTrail
<1>3. k \notin C
  BY DEF CallsOf
<1> HIDE DEF C, k
<1>4. Cardinality(C \cup {k}) = Cardinality(C) + 1
  BY <1>2, <1>3, FS_AddElement
<1>5. Cardinality(C) \in Nat
  BY <1>2, FS_CardinalityType
<1>6. Cardinality(C) = 0 <=> C = {}
  BY <1>2, FS_EmptySet
<1>7. Cardinality(C \cup {k}) = 1 <=> C = {}
  BY <1>4, <1>5, <1>6
<1> QED BY <1>1, <1>7 DEF C

(* The clock only takes rows out of the window.                            *)
LEMMA WindowShrinks ==
    ASSUME NEW trail \in Seq(Rows), NEW type \in WindowTypes, NEW a,
           minute \in Nat, minute' \in Nat, minute <= minute',
           rules \in Rules, UNCHANGED rules,
           Reaches(trail, type, a)'
    PROVE  Reaches(trail, type, a)
<1>1. Recent(type, trail, a)' \in SUBSET Recent(type, trail, a)
  <2> SUFFICES ASSUME NEW i \in DOMAIN trail,
                      trail[i].at + rules.window[type] >= minute'
               PROVE  trail[i].at + rules.window[type] >= minute
    BY DEF Recent
  <2>1. trail[i] \in Rows
    OBVIOUS
  <2>2. trail[i].at \in Nat
    BY <2>1, AlertsAssumption DEF Rows, Minutes
  <2> QED BY <2>2 DEF Rules
<1>2. IsFiniteSet(Recent(type, trail, a))
  BY RowsOfTrail
<1>3. /\ Cardinality(Recent(type, trail, a)')
           <= Cardinality(Recent(type, trail, a))
      /\ IsFiniteSet(Recent(type, trail, a)')
  BY <1>1, <1>2, FS_Subset
<1>4. Cardinality(Recent(type, trail, a)') \in Nat
      /\ Cardinality(Recent(type, trail, a)) \in Nat
  BY <1>2, <1>3, FS_CardinalityType
<1> QED BY <1>3, <1>4 DEF Reaches, Rules

-----------------------------------------------------------------------------
(* The initial states.                                                     *)

LEMMA NoJobType == NoJob \in Jobs
<1>1. PICK a \in Agents, t \in Tools : TRUE
  BY AlertsAssumption
<1>2. [agent |-> a, tool |-> t, label |-> "Allowed", at |-> 0] \in Rows
  BY AlertsAssumption DEF Rows, Labels, Minutes
<1>3. \E r \in Rows : r.at = 0
  BY <1>2
<1>4. (CHOOSE r \in Rows : r.at = 0) \in Rows
  BY <1>3
<1> QED BY <1>4 DEF NoJob, Jobs

LEMMA InvInit == Init => IInv
<1> SUFFICES ASSUME Init PROVE IInv
  OBVIOUS
<1>1. TypeOK
  BY NoJobType, AlertsAssumption DEF Init, TypeOK, PCs, Minutes
<1>2. Locked /\ Found /\ UncheckedAreLater
  BY DEF Init, Locked, Found, UncheckedAreLater
<1>3. RowPerCall
  <2>1. Busy = {}
    BY DEF Init, Busy
  <2> QED BY <2>1, FS_EmptySet DEF Init, RowPerCall
<1>4. OneOpenAlert
  BY DEF Init, OneOpenAlert
<1>5. FirstCallsAreFlagged
  BY DEF Init, FirstCallsAreFlagged, CallsOf
<1> QED BY <1>1, <1>2, <1>3, <1>4, <1>5 DEF IInv

-----------------------------------------------------------------------------
(* Steps.                                                                  *)

LEMMA BusyIsFinite ==
    /\ IsFiniteSet(Busy) /\ IsFiniteSet(Busy')
    /\ Cardinality(Busy) \in Nat /\ Cardinality(Busy') \in Nat
<1>1. Busy \in SUBSET Threads /\ Busy' \in SUBSET Threads
  BY DEF Busy
<1> QED BY <1>1, FS_Subset, FS_CardinalityType, AlertsAssumption

LEMMA JobType ==
    ASSUME TypeOK, NEW d \in Threads
    PROVE  /\ job[d] \in Jobs /\ job[d].row \in Rows
           /\ job[d].row.agent \in Agents /\ job[d].row.tool \in Tools
           /\ job[d].raised \subseteq Types /\ job[d].checked \in BOOLEAN
<1>1. job[d] \in Jobs
  BY DEF TypeOK
<1>2. job[d].row \in Rows /\ job[d].raised \subseteq Types
      /\ job[d].checked \in BOOLEAN
  BY <1>1 DEF Jobs
<1> QED BY <1>1, <1>2 DEF Rows

LEMMA DoneFacts ==
    ASSUME TypeOK, NEW d \in Threads, Done(d)
    PROVE  /\ pc' \in [Threads -> PCs] /\ job' \in [Threads -> Jobs]
           /\ pc'[d] = "idle"
           /\ \A c \in Threads \ {d} : pc'[c] = pc[c] /\ job'[c] = job[c]
           /\ Busy' = Busy \ {d}
<1>1. /\ pc' \in [Threads -> PCs] /\ job' \in [Threads -> Jobs]
      /\ pc'[d] = "idle"
      /\ \A c \in Threads \ {d} : pc'[c] = pc[c] /\ job'[c] = job[c]
  BY NoJobType DEF Done, TypeOK, PCs
<1> QED BY <1>1 DEF Busy

(* What a writer found stays so while nothing it looked at changes.        *)
LEMMA ReachesStays ==
    ASSUME UNCHANGED <<audit, rules, minute>>, NEW d,
           job'[d].row = job[d].row, NEW type
    PROVE  LET row == job[d].row
           IN Reaches(Append(audit, row), type, row.agent)'
                = Reaches(Append(audit, row), type, row.agent)
<1> DEFINE row == job[d].row
           trail == Append(audit, row)
<1>1. trail' = trail /\ row' = row /\ minute' = minute /\ rules' = rules
  OBVIOUS
<1> HIDE DEF trail
<1>2. Recent(type, trail, row.agent)' = Recent(type, trail, row.agent)
  BY <1>1, Zenon DEF Recent
<1> QED BY <1>1, <1>2 DEF Reaches, trail

LEMMA FindingsStay ==
    ASSUME NEW d, UNCHANGED <<audit, open, flagged, rules, minute>>,
           job'[d].row = job[d].row, job'[d].raised = job[d].raised,
           job'[d].checked = job[d].checked, Findings(d)
    PROVE  Findings(d)'
<1>1. IsFirst(job[d].row)' = IsFirst(job[d].row)
  BY DEF IsFirst, CallsOf
<1> QED BY <1>1, ReachesStays DEF Findings

(* A call that comes to nothing.                                           *)
LEMMA ComesToNothing ==
    ASSUME IInv, NEW d \in Threads, Done(d), pc[d] # "idle",
           UNCHANGED <<audit, open, flagged, unwatched>>,
           \/ lock' = lock /\ pc[d] # "writing"
           \/ lock' = NoThread /\ lock = d
    PROVE  IInv'
<1>1. TypeOK'
  BY DoneFacts DEF IInv, TypeOK, Done, NoThread
<1>2. Locked'
  BY DoneFacts DEF IInv, Locked
<1>3. RowPerCall'
  <2>1. Busy' = Busy \ {d} /\ begun' = begun /\ audit' = audit
    BY DoneFacts DEF IInv, Done
  <2>2. Cardinality(Busy') <= Cardinality(Busy)
    BY <2>1, BusyIsFinite, FS_Subset
  <2>3. Len(audit) \in Nat /\ begun \in Nat
    BY AlertsAssumption DEF IInv, TypeOK
  <2> QED BY <2>1, <2>2, <2>3, BusyIsFinite DEF IInv, RowPerCall
<1>4. Found'
  <2> SUFFICES ASSUME NEW c \in Threads, pc'[c] = "writing" PROVE Findings(c)'
    BY DEF Found
  <2>1. pc[c] = "writing" /\ job'[c] = job[c]
    BY DoneFacts DEF IInv
  <2> QED BY <2>1, FindingsStay DEF IInv, Found, Done
<1>5. UncheckedAreLater'
  BY DoneFacts DEF IInv, UncheckedAreLater, IsFirst, CallsOf
<1>6. OneOpenAlert' /\ FirstCallsAreFlagged'
  BY DEF IInv, OneOpenAlert, FirstCallsAreFlagged, CallsOf
<1> QED BY <1>1, <1>2, <1>3, <1>4, <1>5, <1>6 DEF IInv

LEMMA NothingStep ==
    ASSUME IInv, NEW d \in Threads, Rollback(d) \/ GiveUp(d) \/ CheckRaises(d)
    PROVE  IInv'
BY ComesToNothing DEF Rollback, GiveUp, CheckRaises, IInv, Locked

LEMMA BeginStep ==
    ASSUME IInv, NEW d \in Threads, NEW a \in Agents, NEW t \in Tools,
           NEW label \in Labels, NEW checked \in BOOLEAN,
           Begin(d, a, t, label, checked), checked \/ Held(a, t)
    PROVE  IInv'
<1> DEFINE j == [row |-> Row(a, t, label, minute), checked |-> checked,
                 raised |-> {}]
<1>1. /\ j \in Jobs /\ j.checked = checked
      /\ j.row.agent = a /\ j.row.tool = t
  BY DEF Jobs, Rows, Row, IInv, TypeOK
<1>2. /\ pc[d] = "idle" /\ pc' = [pc EXCEPT ![d] = "waiting"]
      /\ job' = [job EXCEPT ![d] = j]
      /\ begun < MaxRows /\ begun' = begun + 1
      /\ UNCHANGED <<audit, open, flagged, rules, lock, minute, unwatched>>
  BY DEF Begin, tables
<1> HIDE DEF j
<1>3. /\ pc'[d] = "waiting" /\ job'[d] = j
      /\ \A c \in Threads \ {d} : pc'[c] = pc[c] /\ job'[c] = job[c]
      /\ pc' \in [Threads -> PCs] /\ job' \in [Threads -> Jobs]
  BY <1>1, <1>2 DEF IInv, TypeOK, PCs
<1>4. begun \in Nat /\ begun' \in 0..MaxRows /\ Len(audit) \in Nat
  BY <1>2, AlertsAssumption DEF IInv, TypeOK
<1>5. TypeOK'
  BY <1>2, <1>3, <1>4 DEF IInv, TypeOK
<1>6. Locked'
  BY <1>2, <1>3 DEF IInv, Locked
<1>7. RowPerCall'
  <2>1. Busy' = Busy \cup {d} /\ d \notin Busy
    BY <1>2, <1>3 DEF Busy
  <2>2. Cardinality(Busy') = Cardinality(Busy) + 1
    BY <2>1, BusyIsFinite, FS_AddElement
  <2> QED BY <1>2, <1>4, <2>2, BusyIsFinite DEF IInv, RowPerCall
<1>8. Found'
  <2> SUFFICES ASSUME NEW c \in Threads, pc'[c] = "writing" PROVE Findings(c)'
    BY DEF Found
  <2>1. pc[c] = "writing" /\ job'[c] = job[c]
    BY <1>3
  <2> QED BY <1>2, <2>1, FindingsStay DEF IInv, Found
<1>9. UncheckedAreLater'
  <2>1. Held(a, t) => ~IsFirst(j.row)
    BY <1>1 DEF Held, IsFirst
  <2> QED BY <1>1, <1>2, <1>3, <2>1 DEF IInv, UncheckedAreLater, IsFirst, CallsOf
<1>10. OneOpenAlert' /\ FirstCallsAreFlagged'
  BY <1>2 DEF IInv, OneOpenAlert, FirstCallsAreFlagged, CallsOf
<1> QED BY <1>5, <1>6, <1>7, <1>8, <1>9, <1>10 DEF IInv

LEMMA WriteStep ==
    ASSUME IInv, NEW d \in Threads, Write(d)
    PROVE  IInv'
<1> DEFINE row == job[d].row
           new == IF job[d].checked THEN Raised(row) ELSE {}
<1>1. /\ row \in Rows /\ row.agent \in Agents /\ row.tool \in Tools
      /\ job[d] \in Jobs /\ audit \in Seq(Rows)
  BY JobType DEF IInv, TypeOK
<1>2. /\ pc[d] = "waiting" /\ lock = NoThread /\ lock' = d
      /\ pc' = [pc EXCEPT ![d] = "writing"]
      /\ job' = [job EXCEPT ![d].raised = new]
      /\ UNCHANGED <<audit, open, flagged, rules, minute, begun, unwatched>>
  BY DEF Write, tables
<1>3. new \subseteq Types
  BY DEF Raised, Types
<1>4. "new_tool_attempt" \in new <=>
        /\ job[d].checked /\ "new_tool_attempt" \in rules.enabled
        /\ IsFirst(row) /\ flagged[row.agent][row.tool] = 0
  BY <1>1, FirstIsOne DEF Raised, IsFirst, WindowTypes
<1>5. \A type \in WindowTypes :
        type \in new <=>
          /\ job[d].checked /\ type \in rules.enabled
          /\ type = "approval_flood" => row.label = "Pending"
          /\ Reaches(Append(audit, row), type, row.agent)
          /\ open[type][row.agent] = 0
  BY DEF Raised, WindowTypes, Unraised
<1> HIDE DEF new
<1>6. /\ pc'[d] = "writing" /\ pc' \in [Threads -> PCs]
      /\ job' \in [Threads -> Jobs]
      /\ job'[d].row = row /\ job'[d].checked = job[d].checked
      /\ job'[d].raised = new
      /\ \A c \in Threads \ {d} : pc'[c] = pc[c] /\ job'[c] = job[c]
  BY <1>1, <1>2, <1>3 DEF IInv, TypeOK, PCs, Jobs
<1>7. TypeOK'
  BY <1>2, <1>6 DEF IInv, TypeOK
<1>8. \A c \in Threads : pc[c] # "writing"
  BY <1>2, AlertsAssumption DEF IInv, Locked, NoThread
<1>9. Locked'
  BY <1>2, <1>6, <1>8 DEF Locked
<1>10. RowPerCall'
  <2>1. Busy' = Busy
    BY <1>2, <1>6 DEF Busy
  <2> QED BY <1>2, <2>1 DEF IInv, RowPerCall
<1>11. \A type \in WindowTypes : open[type][row.agent] \in Nat
  BY <1>1 DEF IInv, TypeOK
<1>12. Findings(d)'
  <2>1. \A type \in WindowTypes : Reaches(Append(audit, job[d].row), type,
                                          job[d].row.agent)'
                                  = Reaches(Append(audit, row), type, row.agent)
    BY <1>2, <1>6, ReachesStays
  <2>2. IsFirst(job[d].row)' = IsFirst(row)
    BY <1>2, <1>6 DEF IsFirst, CallsOf
  <2> QED BY <1>2, <1>4, <1>5, <1>6, <1>11, <2>1, <2>2 DEF Findings
<1>13. Found'
  BY <1>6, <1>8, <1>12 DEF Found
<1>14. UncheckedAreLater'
  BY <1>2, <1>6 DEF IInv, UncheckedAreLater, IsFirst, CallsOf
<1>15. OneOpenAlert' /\ FirstCallsAreFlagged'
  BY <1>2 DEF IInv, OneOpenAlert, FirstCallsAreFlagged, CallsOf
<1> QED BY <1>7, <1>9, <1>10, <1>13, <1>14, <1>15 DEF IInv

(* What the commit adds to the alerts.                                     *)
LEMMA AlertsAdded ==
    ASSUME IInv, NEW d \in Threads, AddAlerts(d)
    PROVE  LET row == job[d].row
           IN /\ open' \in [WindowTypes -> [Agents -> Nat]]
              /\ flagged' \in [Agents -> [Tools -> Nat]]
              /\ \A type \in WindowTypes, a \in Agents :
                    open'[type][a] = IF a = row.agent /\ type \in job[d].raised
                                     THEN open[type][a] + 1 ELSE open[type][a]
              /\ \A a \in Agents, t \in Tools :
                    flagged'[a][t] = IF a = row.agent /\ t = row.tool
                                        /\ "new_tool_attempt" \in job[d].raised
                                     THEN flagged[a][t] + 1 ELSE flagged[a][t]
<1> DEFINE row == job[d].row
           more(type) == IF type \in job[d].raised THEN 1 ELSE 0
<1>1. row.agent \in Agents /\ row.tool \in Tools
  BY JobType DEF IInv
<1>2. /\ open \in [WindowTypes -> [Agents -> Nat]]
      /\ flagged \in [Agents -> [Tools -> Nat]]
  BY DEF IInv, TypeOK
<1>3. \A type \in WindowTypes, a \in Agents :
         open'[type][a] = IF a = row.agent /\ type \in job[d].raised
                          THEN open[type][a] + 1 ELSE open[type][a]
  BY <1>2 DEF AddAlerts
<1>4. open' = [type \in WindowTypes |-> [a \in Agents |->
                 open[type][a] + IF a = row.agent /\ type \in job[d].raised
                                 THEN 1 ELSE 0]]
  BY DEF AddAlerts
<1>5. open' \in [WindowTypes -> [Agents -> Nat]]
  BY <1>2, <1>4
<1>6. flagged' = [flagged EXCEPT ![row.agent][row.tool] =
                    @ + more("new_tool_attempt")]
  BY DEF AddAlerts
<1>7. more("new_tool_attempt") \in Nat
  OBVIOUS
<1>8. flagged' \in [Agents -> [Tools -> Nat]]
  BY <1>1, <1>2, <1>6, <1>7
<1>9. \A a \in Agents, t \in Tools :
         flagged'[a][t] = IF a = row.agent /\ t = row.tool
                             /\ "new_tool_attempt" \in job[d].raised
                          THEN flagged[a][t] + 1 ELSE flagged[a][t]
  BY <1>1, <1>2, <1>6
<1> QED BY <1>3, <1>5, <1>8, <1>9

LEMMA CommitStep ==
    ASSUME IInv, NEW d \in Threads, Commit(d)
    PROVE  IInv'
<1> DEFINE row == job[d].row
<1>1. /\ row \in Rows /\ row.agent \in Agents /\ row.tool \in Tools
      /\ audit \in Seq(Rows) /\ Len(audit) \in Nat /\ begun \in Nat
      /\ job[d].checked \in BOOLEAN
  BY JobType, AlertsAssumption DEF IInv, TypeOK
<1>2. /\ pc[d] = "writing" /\ Done(d) /\ lock' = NoThread
      /\ audit' = Append(audit, row) /\ AddAlerts(d)
      /\ UNCHANGED <<rules, minute, begun>>
  BY DEF Commit, Done
<1>3. unwatched' = IF "new_tool_attempt" \notin rules.enabled /\ IsFirst(row)
                   THEN unwatched \cup {<<row.agent, row.tool>>}
                   ELSE unwatched
  BY DEF Commit, IsFirst
<1>4. lock = d /\ Findings(d)
  BY <1>2 DEF IInv, Locked, Found
<1>5. \A c \in Threads \ {d} : pc'[c] = pc[c] /\ job'[c] = job[c]
                               /\ pc[c] # "writing"
  BY <1>2, <1>4, DoneFacts DEF IInv, Locked
<1>6. \A c \in Threads : pc'[c] # "writing"
  BY <1>2, <1>5, DoneFacts DEF IInv
<1>7. Locked' /\ Found'
  BY <1>6 DEF Locked, Found
<1>8. RowPerCall'
  <2>1. Busy' = Busy \ {d} /\ d \in Busy
    BY <1>2, DoneFacts DEF IInv, Busy
  <2>2. Cardinality(Busy') = Cardinality(Busy) - 1
    BY <2>1, BusyIsFinite, FS_RemoveElement
  <2>3. Len(audit') = Len(audit) + 1
    BY <1>1, <1>2
  <2> QED BY <1>1, <1>2, <2>2, <2>3, BusyIsFinite DEF IInv, RowPerCall
<1>9. TypeOK'
  <2>1. audit' \in Seq(Rows) /\ Len(audit') \in Nat
    BY <1>1, <1>2
  <2>2. Len(audit') <= begun'
    BY <1>1, <1>2, <1>8, <2>1, BusyIsFinite DEF RowPerCall
  <2>3. unwatched' \subseteq Agents \X Tools
    BY <1>1, <1>3 DEF IInv, TypeOK
  <2>4. open' \in [WindowTypes -> [Agents -> Nat]]
        /\ flagged' \in [Agents -> [Tools -> Nat]]
    BY <1>2, AlertsAdded
  <2>5. lock' \in Threads \cup {NoThread} /\ minute' \in Minutes
        /\ begun' \in 0..MaxRows /\ rules' = rules
    BY <1>2 DEF IInv, TypeOK
  <2> QED BY <1>2, <2>1, <2>2, <2>3, <2>4, <2>5, DoneFacts DEF IInv, TypeOK
<1>10. \A a \in Agents, t \in Tools :
         CallsOf(audit', a, t) = IF a = row.agent /\ t = row.tool
                                 THEN CallsOf(audit, a, t) \cup {Len(audit) + 1}
                                 ELSE CallsOf(audit, a, t)
  <2>1. \A a, t : CallsOf(Append(audit, row), a, t) =
                    IF row.agent = a /\ row.tool = t
                    THEN CallsOf(audit, a, t) \cup {Len(audit) + 1}
                    ELSE CallsOf(audit, a, t)
    BY <1>1, CallsOfAppend
  <2>2. \A a, t : CallsOf(audit', a, t) = CallsOf(Append(audit, row), a, t)
    BY <1>2, Zenon
  <2> QED BY <2>1, <2>2, Zenon
<1>11. UncheckedAreLater'
  <2> SUFFICES ASSUME NEW c \in Threads, pc'[c] # "idle", ~job'[c].checked
               PROVE  ~IsFirst(job[c].row)' /\ job'[c].row = job[c].row
    BY DEF UncheckedAreLater, IsFirst, CallsOf
  <2>1. c # d /\ pc'[c] = pc[c] /\ job'[c] = job[c]
    BY <1>2, <1>5, DoneFacts DEF IInv
  <2>2. ~IsFirst(job[c].row)
    BY <2>1 DEF IInv, UncheckedAreLater
  <2>3. job[c].row.agent \in Agents /\ job[c].row.tool \in Tools
    BY JobType DEF IInv
  <2> QED BY <1>10, <2>1, <2>2, <2>3 DEF IsFirst
<1>12. OneOpenAlert'
  <2> SUFFICES ASSUME NEW type \in WindowTypes, NEW a \in Agents
               PROVE  open'[type][a] <= 1
    BY DEF OneOpenAlert, WindowTypes
  <2>1. open[type][a] \in Nat /\ open[type][a] <= 1
    BY DEF IInv, TypeOK, OneOpenAlert
  <2>2. a = row.agent /\ type \in job[d].raised => open[type][a] = 0
    BY <1>4 DEF Findings
  <2>3. open'[type][a] = IF a = row.agent /\ type \in job[d].raised
                         THEN open[type][a] + 1 ELSE open[type][a]
    BY <1>2, AlertsAdded
  <2> QED BY <2>1, <2>2, <2>3
<1>13. FirstCallsAreFlagged'
  <2> SUFFICES ASSUME NEW a \in Agents, NEW t \in Tools
               PROVE  IF CallsOf(audit', a, t) = {} THEN flagged'[a][t] = 0
                      ELSE <<a, t>> \in unwatched' \/ flagged'[a][t] = 1
    BY DEF FirstCallsAreFlagged, CallsOf
  <2>1. IF CallsOf(audit, a, t) = {} THEN flagged[a][t] = 0
        ELSE <<a, t>> \in unwatched \/ flagged[a][t] = 1
    BY DEF IInv, FirstCallsAreFlagged
  <2>2. flagged'[a][t] = IF a = row.agent /\ t = row.tool
                            /\ "new_tool_attempt" \in job[d].raised
                         THEN flagged[a][t] + 1 ELSE flagged[a][t]
    BY <1>2, AlertsAdded
  <2>3. CASE a # row.agent \/ t # row.tool
    BY <1>3, <1>10, <2>1, <2>2, <2>3
  <2>4. CASE a = row.agent /\ t = row.tool
    <3>1. CallsOf(audit', a, t) # {}
      BY <1>10, <2>4
    <3>2. IsFirst(row) => job[d].checked
      BY <1>2 DEF IInv, UncheckedAreLater
    <3>3. "new_tool_attempt" \in job[d].raised <=>
            /\ job[d].checked /\ "new_tool_attempt" \in rules.enabled
            /\ IsFirst(row) /\ flagged[a][t] = 0
      BY <1>4, <2>4 DEF Findings
    <3>4. CASE IsFirst(row)
      BY <1>3, <2>1, <2>2, <2>4, <3>1, <3>2, <3>3, <3>4 DEF IsFirst
    <3>5. CASE ~IsFirst(row)
      BY <1>3, <2>1, <2>2, <2>4, <3>1, <3>3, <3>5 DEF IsFirst
    <3> QED BY <3>4, <3>5
  <2> QED BY <2>3, <2>4
<1> QED BY <1>7, <1>8, <1>9, <1>11, <1>12, <1>13 DEF IInv

(* The console's writes find no writer.                                    *)
LEMMA NobodyWrites ==
    ASSUME IInv, lock = NoThread
    PROVE  \A d \in Threads : pc[d] # "writing"
BY AlertsAssumption DEF IInv, Locked, NoThread

LEMMA AcknowledgeStep ==
    ASSUME IInv, NEW type \in WindowTypes, NEW a \in Agents, Acknowledge(type, a)
    PROVE  IInv'
<1>1. /\ lock = NoThread /\ open[type][a] > 0
      /\ open' = [open EXCEPT ![type][a] = @ - 1]
      /\ UNCHANGED <<audit, flagged, rules, lock, pc, job, minute, begun,
                     unwatched>>
  BY DEF Acknowledge
<1>2. /\ open \in [WindowTypes -> [Agents -> Nat]]
      /\ open[type][a] \in Nat /\ open[type][a] - 1 \in Nat
  BY <1>1 DEF IInv, TypeOK
<1>3. /\ open' \in [WindowTypes -> [Agents -> Nat]]
      /\ \A y \in WindowTypes, b \in Agents :
           open'[y][b] = IF y = type /\ b = a THEN open[y][b] - 1 ELSE open[y][b]
  BY <1>1, <1>2
<1>4. TypeOK'
  BY <1>1, <1>3 DEF IInv, TypeOK
<1>5. Locked' /\ Found' /\ UncheckedAreLater'
  BY <1>1, NobodyWrites DEF IInv, Locked, Found, UncheckedAreLater, IsFirst, CallsOf
<1>6. RowPerCall'
  BY <1>1 DEF IInv, RowPerCall, Busy
<1>7. OneOpenAlert'
  BY <1>2, <1>3 DEF IInv, OneOpenAlert
<1>8. FirstCallsAreFlagged'
  BY <1>1 DEF IInv, FirstCallsAreFlagged, CallsOf
<1> QED BY <1>4, <1>5, <1>6, <1>7, <1>8 DEF IInv

LEMMA UpdateRulesStep ==
    ASSUME IInv, NEW new \in Settings, UpdateRules(new)
    PROVE  IInv'
<1>1. /\ lock = NoThread /\ rules' = new
      /\ UNCHANGED <<audit, open, flagged, lock, pc, job, minute, begun,
                     unwatched>>
  BY DEF UpdateRules
<1>2. TypeOK'
  BY <1>1, AlertsAssumption DEF IInv, TypeOK
<1>3. Locked' /\ Found' /\ UncheckedAreLater'
  BY <1>1, NobodyWrites DEF IInv, Locked, Found, UncheckedAreLater, IsFirst, CallsOf
<1>4. RowPerCall'
  BY <1>1 DEF IInv, RowPerCall, Busy
<1>5. OneOpenAlert' /\ FirstCallsAreFlagged'
  BY <1>1 DEF IInv, OneOpenAlert, FirstCallsAreFlagged, CallsOf
<1> QED BY <1>2, <1>3, <1>4, <1>5 DEF IInv

LEMMA TickStep ==
    ASSUME IInv, Tick
    PROVE  IInv'
<1>1. /\ minute' = minute + 1 /\ minute < MaxMinutes
      /\ UNCHANGED <<audit, open, flagged, rules, lock, pc, job, begun, unwatched>>
  BY DEF Tick, tables
<1>2. minute \in Nat /\ minute' \in Minutes /\ minute' \in Nat /\ minute <= minute'
  BY <1>1, AlertsAssumption DEF IInv, TypeOK, Minutes
<1>3. TypeOK'
  BY <1>1, <1>2 DEF IInv, TypeOK
<1>4. Locked' /\ UncheckedAreLater'
  BY <1>1 DEF IInv, Locked, UncheckedAreLater, IsFirst, CallsOf
<1>5. RowPerCall'
  BY <1>1 DEF IInv, RowPerCall, Busy
<1>6. Found'
  <2> SUFFICES ASSUME NEW d \in Threads, pc[d] = "writing" PROVE Findings(d)'
    BY <1>1 DEF Found
  <2>1. Findings(d) /\ job[d].row \in Rows /\ audit \in Seq(Rows)
    BY JobType DEF IInv, Found, TypeOK
  <2>2. PICK row \in Rows : row = job[d].row
    BY <2>1
  <2>3. PICK trail \in Seq(Rows) : trail = Append(audit, row)
    <3>1. Append(audit, row) \in Seq(Rows)
      BY <2>1
    <3> QED BY <3>1
  <2>4. \A type \in WindowTypes :
           Reaches(trail, type, row.agent)' => Reaches(trail, type, row.agent)
    BY <1>1, <1>2, WindowShrinks DEF IInv, TypeOK
  <2>5. \A type \in WindowTypes :
                  Reaches(Append(audit, job[d].row), type, job[d].row.agent)'
                    = Reaches(trail, type, row.agent)'
    BY <1>1, <2>2, <2>3, Zenon DEF Reaches, Recent
  <2>6. \A type \in WindowTypes :
                  Reaches(Append(audit, job[d].row), type, job[d].row.agent)'
                  => Reaches(Append(audit, job[d].row), type, job[d].row.agent)
    BY <2>2, <2>3, <2>4, <2>5
  <2>7. IsFirst(job[d].row)' = IsFirst(job[d].row)
    BY <1>1 DEF IsFirst, CallsOf
  <2> QED BY <1>1, <2>1, <2>6, <2>7 DEF Findings
<1>7. OneOpenAlert' /\ FirstCallsAreFlagged'
  BY <1>1 DEF IInv, OneOpenAlert, FirstCallsAreFlagged, CallsOf
<1> QED BY <1>3, <1>4, <1>5, <1>6, <1>7 DEF IInv

LEMMA StutterStep == IInv /\ UNCHANGED vars => IInv'
<1> SUFFICES ASSUME IInv, UNCHANGED vars PROVE IInv'
  OBVIOUS
<1>1. UNCHANGED <<audit, open, flagged, rules, lock, pc, job, minute, begun, unwatched>>
  BY DEF vars, tables
<1>2. TypeOK' /\ Locked' /\ UncheckedAreLater'
  BY <1>1 DEF IInv, TypeOK, Locked, UncheckedAreLater, IsFirst, CallsOf
<1>3. RowPerCall'
  BY <1>1 DEF IInv, RowPerCall, Busy
<1>4. Found'
  BY <1>1, FindingsStay DEF IInv, Found
<1>5. OneOpenAlert' /\ FirstCallsAreFlagged'
  BY <1>1 DEF IInv, OneOpenAlert, FirstCallsAreFlagged, CallsOf
<1> QED BY <1>2, <1>3, <1>4, <1>5 DEF IInv

LEMMA InvStep == IInv /\ [Next]_vars => IInv'
<1> SUFFICES ASSUME IInv, Next PROVE IInv'
  BY StutterStep
<1>1. ASSUME NEW d \in Threads, BeginAny(d) PROVE IInv'
  BY <1>1, BeginStep DEF BeginAny
<1>2. ASSUME NEW d \in Threads, ThreadStep(d) PROVE IInv'
  BY <1>2, WriteStep, CommitStep, NothingStep DEF ThreadStep
<1> QED BY <1>1, <1>2, AcknowledgeStep, UpdateRulesStep, TickStep DEF Next

LEMMA Invariant == Spec => []IInv
BY InvInit, InvStep, PTL DEF Spec

-----------------------------------------------------------------------------
(* The tables keep their types, and a call leaves at most one row of the   *)
(* audit trail.  (anomaly_service.py, alert_service.py)                    *)
THEOREM TypeCorrect == Spec => []TypeOK
<1>1. IInv => TypeOK
  BY DEF IInv
<1> QED BY <1>1, Invariant, PTL

(* One unacknowledged alert of a window type and agent at a time, with any *)
(* number of writers.  (exists_unacknowledged)                             *)
THEOREM OneAlertAtATime == Spec => []OneOpenAlert
<1>1. IInv => OneOpenAlert
  BY DEF IInv
<1> QED BY <1>1, Invariant, PTL

(* An agent's first call of a tool is flagged once, and only once there is *)
(* a row of it.  (_check_new_tool)                                         *)
THEOREM FirstCallIsFlagged == Spec => []FirstCallsAreFlagged
<1>1. IInv => FirstCallsAreFlagged
  BY DEF IInv
<1> QED BY <1>1, Invariant, PTL

LEMMA BurstStep ==
    ASSUME IInv, [Next]_vars, NEW d \in Threads, Commit(d), job[d].checked,
           NEW type \in WindowTypes \cap rules.enabled,
           type = "approval_flood" => job[d].row.label = "Pending",
           Cardinality(Recent(type, audit', job[d].row.agent))
             >= rules.threshold[type]
    PROVE  open'[type][job[d].row.agent] > 0
<1> DEFINE row == job[d].row
<1>1. /\ audit' = Append(audit, row) /\ AddAlerts(d)
      /\ Findings(d) /\ row.agent \in Agents
  BY JobType DEF Commit, IInv, Found
<1>2. Reaches(Append(audit, row), type, row.agent)
  BY <1>1 DEF Reaches
<1>3. type \in job[d].raised \/ open[type][row.agent] > 0
  BY <1>1, <1>2 DEF Findings
<1>4. open[type][row.agent] \in Nat
  BY <1>1 DEF IInv, TypeOK
<1>5. open'[type][row.agent] = IF type \in job[d].raised
                               THEN open[type][row.agent] + 1
                               ELSE open[type][row.agent]
  BY <1>1, AlertsAdded
<1> QED BY <1>3, <1>4, <1>5

(* When a row that was looked at is committed and its agent's rows reach   *)
(* the threshold, an alert is open.  (check_with_conn)                     *)
THEOREM BurstsAreNoticed == Spec => BurstIsNoticed
<1>1. IInv /\ [Next]_vars =>
        [\A d \in Threads : Commit(d) /\ job[d].checked =>
           \A type \in WindowTypes \cap rules.enabled :
              LET a == job[d].row.agent
              IN /\ type = "approval_flood" => job[d].row.label = "Pending"
                 /\ Cardinality(Recent(type, audit', a)) >= rules.threshold[type]
                 => open'[type][a] > 0]_vars
  BY BurstStep
<1> QED BY <1>1, Invariant, PTL DEF Spec, BurstIsNoticed

-----------------------------------------------------------------------------
(* Every call ends, and gives the lock back.                               *)

(* Whoever holds the lock writes.                                          *)
HolderWrites == \A d \in Threads : lock = d => pc[d] = "writing"

LEMMA HolderStep == IInv /\ HolderWrites /\ [Next]_vars => HolderWrites'
<1> SUFFICES ASSUME IInv, HolderWrites, [Next]_vars PROVE HolderWrites'
  OBVIOUS
<1> USE AlertsAssumption DEF IInv, TypeOK, Locked, HolderWrites, NoThread
<1>1. ASSUME NEW d \in Threads, BeginAny(d) PROVE HolderWrites'
  BY <1>1 DEF BeginAny, Begin
<1>2. ASSUME NEW d \in Threads, Write(d) PROVE HolderWrites'
  BY <1>2 DEF Write
<1>3. ASSUME NEW d \in Threads,
             Commit(d) \/ Rollback(d) \/ GiveUp(d) \/ CheckRaises(d)
      PROVE  HolderWrites'
  BY <1>3, DoneFacts DEF Commit, Rollback, GiveUp, CheckRaises
<1>4. CASE UNCHANGED <<lock, pc>>
  BY <1>4
<1> QED
  BY <1>1, <1>2, <1>3, <1>4
  DEF Next, ThreadStep, Acknowledge, UpdateRules, Tick, vars

LEMMA Holders == Spec => []HolderWrites
<1>1. Init => HolderWrites
  BY AlertsAssumption DEF Init, HolderWrites, NoThread
<1> QED BY <1>1, Invariant, HolderStep, PTL DEF Spec

(* A step of the thread brings its call nearer to its end.                 *)
LEMMA OwnSteps ==
    ASSUME IInv, NEW d \in Threads, ThreadStep(d)
    PROVE  /\ pc[d] = "writing" => pc'[d] = "idle" /\ lock' = NoThread
           /\ pc[d] # "idle" => pc'[d] \in {"writing", "idle"}
<1>1. CASE Write(d)
  BY <1>1 DEF Write, IInv, TypeOK
<1>2. CASE Commit(d) \/ Rollback(d)
  BY <1>2, DoneFacts DEF Commit, Rollback, IInv
<1>3. CASE GiveUp(d) \/ CheckRaises(d)
  BY <1>3, DoneFacts DEF GiveUp, CheckRaises, IInv
<1> QED BY <1>1, <1>2, <1>3 DEF ThreadStep

(* Nobody else moves a writer or takes its lock.                           *)
LEMMA OtherSteps ==
    ASSUME IInv, HolderWrites, [Next]_vars, NEW d \in Threads, pc[d] = "writing"
    PROVE  pc'[d] \in {"writing", "idle"} /\ lock' \in {d, NoThread}
<1> USE AlertsAssumption DEF IInv, TypeOK, Locked, HolderWrites, NoThread
<1>1. CASE ThreadStep(d)
  BY <1>1, OwnSteps
<1>2. ASSUME NEW e \in Threads, e # d, ThreadStep(e) \/ BeginAny(e)
      PROVE  pc'[d] = pc[d] /\ lock' \in {d, NoThread}
  BY <1>2 DEF ThreadStep, BeginAny, Begin, Write, Commit, Rollback, GiveUp,
     CheckRaises, Done
<1>3. CASE BeginAny(d)
  BY <1>3 DEF BeginAny, Begin
<1>4. CASE UNCHANGED <<lock, pc>>
  BY <1>4
<1> QED
  BY <1>1, <1>2, <1>3, <1>4 DEF Next, Acknowledge, UpdateRules, Tick, vars

(* Every call ends, whether it gets the lock, waits for another one's      *)
(* upstream call or finds the rules broken, if the threads go on.          *)
(* (Database.connect, AuditRepository.log)                                 *)
THEOREM WritersEnd ==
    Spec /\ (\A d \in Threads : ThreadGoesOn(d)) => EveryWriterEnds
<1>1. ASSUME NEW d \in Threads
      PROVE  Spec /\ ThreadGoesOn(d) => (pc[d] # "idle" ~> pc[d] = "idle")
  <2>1. IInv /\ HolderWrites /\ [Next]_vars /\ pc[d] = "writing"
          => (pc[d] = "writing")' \/ (pc[d] = "idle")'
    BY OtherSteps
  <2>2. IInv /\ <<ThreadStep(d)>>_vars /\ ~(pc[d] = "idle")
          => (pc[d] = "writing")' \/ (pc[d] = "idle")'
    BY OwnSteps
  <2>3. IInv /\ <<ThreadStep(d)>>_vars /\ pc[d] = "writing"
          => (pc[d] = "idle")'
    BY OwnSteps
  <2> QED BY <2>1, <2>2, <2>3, Invariant, Holders, PTL DEF Spec, ThreadGoesOn
<1> QED BY <1>1 DEF EveryWriterEnds

(* The write lock comes free again, whatever becomes of the call that      *)
(* holds it, if the threads go on.  (Database.connect)                     *)
THEOREM LocksAreReleased ==
    Spec /\ (\A d \in Threads : ThreadGoesOn(d)) => LockIsReleased
<1>1. ASSUME NEW d \in Threads
      PROVE  Spec /\ ThreadGoesOn(d) => (lock = d ~> lock = NoThread)
  <2>1. HolderWrites => (lock = d => pc[d] = "writing" /\ ~(pc[d] = "idle"))
    BY DEF HolderWrites
  <2>2. IInv /\ HolderWrites /\ [Next]_vars /\ lock = d
          => (lock = d)' \/ (lock = NoThread)'
    BY OtherSteps DEF HolderWrites
  <2>3. IInv /\ HolderWrites /\ <<ThreadStep(d)>>_vars /\ lock = d
          => (lock = NoThread)'
    BY OwnSteps DEF HolderWrites
  <2> QED BY <2>1, <2>2, <2>3, Invariant, Holders, PTL DEF Spec, ThreadGoesOn
<1> QED BY <1>1 DEF LockIsReleased

-----------------------------------------------------------------------------
(* A row and its alerts are one step of AlertBook.                         *)

(* What a writer has raised was due at some moment since its time stamp,   *)
(* on the tables as they still are.                                        *)
Judged(d) ==
    LET row == job[d].row
    IN IF job[d].checked
       THEN /\ ~rules.broken
            /\ \E m \in row.at..minute : \A type \in WindowTypes :
                  type \in job[d].raised <=> AsAlertBook!Due(type, row, m)
       ELSE job[d].raised = {}

Moments ==
    /\ \A d \in Threads : pc[d] # "idle" => job[d].row.at <= minute
    /\ \A d \in Threads : pc[d] = "writing" => Judged(d)

LEMMA MinuteTypes ==
    ASSUME TypeOK
    PROVE  minute \in Nat /\ \A row \in Rows : row.at \in Nat
BY AlertsAssumption DEF TypeOK, Minutes, Rows

(* The checks find due what AlertBook finds due now.                       *)
LEMMA DueNow ==
    ASSUME NEW row, NEW type \in WindowTypes
    PROVE  AsAlertBook!Due(type, row, minute) <=>
             /\ type \in rules.enabled
             /\ type = "approval_flood" => row.label = "Pending"
             /\ Reaches(Append(audit, row), type, row.agent)
             /\ Unraised(type, row.agent)
<1> DEFINE longer == Append(audit, row)
<1>1. \A r : Counts(type, r) <=> AsAlertBook!Counts(type, r)
  BY DEF Counts, AsAlertBook!Counts, WindowTypes
<1>2. AsAlertBook!Burst(type, row, minute) = Recent(type, longer, row.agent)
  BY <1>1 DEF AsAlertBook!Burst, Recent
<1>3. \A S : AsAlertBook!Cardinality(S) = Cardinality(S)
  BY Zenon DEF Cardinality, AsAlertBook!Cardinality
<1>4. AsAlertBook!Due(type, row, minute) <=>
        /\ type \in rules.enabled
        /\ type = "approval_flood" => AsAlertBook!Counts(type, row)
        /\ Cardinality(Recent(type, longer, row.agent)) >= rules.threshold[type]
        /\ open[type][row.agent] = 0
  BY <1>2, <1>3 DEF AsAlertBook!Due
<1>5. type = "approval_flood" =>
        (AsAlertBook!Counts(type, row) <=> row.label = "Pending")
  BY DEF AsAlertBook!Counts
<1> HIDE DEF longer
<1>6. AsAlertBook!Due(type, row, minute) <=>
        /\ type \in rules.enabled
        /\ type = "approval_flood" => row.label = "Pending"
        /\ Reaches(longer, type, row.agent) /\ Unraised(type, row.agent)
  BY <1>4, <1>5 DEF Reaches, Unraised
<1> QED BY <1>6 DEF longer

LEMMA DueStays ==
    ASSUME UNCHANGED <<audit, open, rules>>, NEW type, NEW row, NEW m
    PROVE  AsAlertBook!Due(type, row, m)' <=> AsAlertBook!Due(type, row, m)
BY DEF AsAlertBook!Due, AsAlertBook!Burst, AsAlertBook!Counts

(* As long as a thread writes nothing it looked at changes.                *)
LEMMA WriterIsAlone ==
    ASSUME IInv, [Next]_vars, NEW d \in Threads,
           pc[d] = "writing", pc'[d] = "writing"
    PROVE  UNCHANGED <<audit, open, flagged, rules>> /\ job'[d] = job[d]
<1> USE AlertsAssumption DEF IInv, TypeOK, Locked, NoThread
<1>1. lock = d
  OBVIOUS
<1>2. ASSUME NEW e \in Threads, ThreadStep(e)
      PROVE  UNCHANGED <<audit, open, flagged, rules>> /\ job'[d] = job[d]
  <2>1. CASE e = d
    BY <1>2, <2>1, OwnSteps
  <2>2. CASE e # d
    <3>1. GiveUp(e)
      BY <1>1, <1>2, <2>2
      DEF ThreadStep, Write, Commit, Rollback, CheckRaises
    <3> QED BY <2>2, <3>1 DEF GiveUp, Done
  <2> QED BY <2>1, <2>2
<1>3. ASSUME NEW e \in Threads, BeginAny(e)
      PROVE  UNCHANGED <<audit, open, flagged, rules>> /\ job'[d] = job[d]
  BY <1>3 DEF BeginAny, Begin, tables
<1>4. CASE Tick \/ UNCHANGED vars
  BY <1>4 DEF Tick, vars, tables
<1> QED BY <1>1, <1>2, <1>3, <1>4 DEF Next, Acknowledge, UpdateRules

LEMMA ClockGoesOn ==
    ASSUME TypeOK, [Next]_vars
    PROVE  minute' \in {minute, minute + 1} /\ minute <= minute'
<1>1. minute' \in {minute, minute + 1}
  BY DEF Next, BeginAny, Begin, ThreadStep, Write, Commit, Rollback, GiveUp,
     CheckRaises, Done, Acknowledge, UpdateRules, Tick, vars
<1> QED BY <1>1, MinuteTypes

LEMMA MomentsStep == IInv /\ Moments /\ [Next]_vars => Moments'
<1> SUFFICES ASSUME IInv, Moments, [Next]_vars PROVE Moments'
  OBVIOUS
<1>1. /\ minute \in Nat /\ minute' \in Nat /\ minute <= minute'
      /\ \A row \in Rows : row.at \in Nat
  BY ClockGoesOn, MinuteTypes DEF IInv
<1>2. ASSUME NEW d \in Threads, pc'[d] # "idle"
      PROVE  job'[d].row.at <= minute'
  <2>1. CASE pc[d] # "idle" /\ job'[d].row = job[d].row
    <3>1. job[d].row \in Rows
      BY JobType DEF IInv
    <3> QED BY <1>1, <2>1, <3>1 DEF Moments
  <2>2. CASE BeginAny(d)
    <3>1. job'[d].row.at = minute /\ minute' = minute
      BY <2>2 DEF BeginAny, Begin, Row, IInv, TypeOK
    <3> QED BY <1>1, <3>1
  <2>3. BeginAny(d) \/ (pc[d] # "idle" /\ job'[d].row = job[d].row)
    <3>1. ASSUME NEW e \in Threads, Write(e)
          PROVE  pc[d] # "idle" /\ job'[d].row = job[d].row
      BY <1>2, <3>1 DEF Write, IInv, TypeOK, Jobs
    <3>2. ASSUME NEW e \in Threads,
                 Commit(e) \/ Rollback(e) \/ GiveUp(e) \/ CheckRaises(e)
          PROVE  pc[d] # "idle" /\ job'[d].row = job[d].row
      BY <1>2, <3>2, DoneFacts DEF Commit, Rollback, GiveUp, CheckRaises, IInv
    <3>3. ASSUME NEW e \in Threads, BeginAny(e), e # d
          PROVE  pc[d] # "idle" /\ job'[d].row = job[d].row
      BY <1>2, <3>3 DEF BeginAny, Begin, IInv, TypeOK
    <3>4. CASE UNCHANGED <<pc, job>>
      BY <1>2, <3>4
    <3>5. \/ \E e \in Threads : BeginAny(e) \/ ThreadStep(e)
          \/ UNCHANGED <<pc, job>>
      BY DEF Next, Acknowledge, UpdateRules, Tick, vars
    <3> QED BY <3>1, <3>2, <3>3, <3>4, <3>5 DEF ThreadStep
  <2> QED BY <2>1, <2>2, <2>3
<1>3. ASSUME NEW d \in Threads, pc'[d] = "writing"
      PROVE  Judged(d)'
  <2> DEFINE row == job[d].row
  <2>1. row \in Rows
    BY JobType DEF IInv
  <2>2. CASE pc[d] = "writing"
    <3>1. UNCHANGED <<audit, open, rules>> /\ job'[d] = job[d]
      BY <1>3, <2>2, WriterIsAlone
    <3>2. \A m \in row.at..minute : m \in row.at..minute'
      BY <1>1, <2>1
    <3>3. Judged(d)
      BY <2>2 DEF Moments
    <3>4. \A type, m : AsAlertBook!Due(type, row, m)'
                         <=> AsAlertBook!Due(type, row, m)
      BY <3>1, DueStays
    <3> QED BY <3>1, <3>2, <3>3, <3>4 DEF Judged
  <2>3. CASE pc[d] # "writing"
    <3>1. Write(d)
      <4>1. ASSUME NEW e \in Threads,
                   Commit(e) \/ Rollback(e) \/ GiveUp(e) \/ CheckRaises(e)
            PROVE  FALSE
        BY <1>3, <2>3, <4>1, DoneFacts
        DEF Commit, Rollback, GiveUp, CheckRaises, IInv
      <4>2. ASSUME NEW e \in Threads, Write(e), e # d PROVE FALSE
        BY <1>3, <2>3, <4>2 DEF Write, IInv, TypeOK
      <4>3. ASSUME NEW e \in Threads, BeginAny(e) PROVE FALSE
        BY <1>3, <2>3, <4>3 DEF BeginAny, Begin, IInv, TypeOK
      <4> QED
        BY <1>3, <2>3, <4>1, <4>2, <4>3
        DEF Next, ThreadStep, Acknowledge, UpdateRules, Tick, vars
    <3>2. /\ UNCHANGED <<audit, open, rules, minute>>
          /\ job'[d].row = row /\ job'[d].checked = job[d].checked
          /\ job'[d].raised = IF job[d].checked THEN Raised(row) ELSE {}
          /\ job[d].checked => ~rules.broken
      BY <3>1 DEF Write, tables, IInv, TypeOK, Jobs
    <3>3. row.at \in Nat /\ row.at <= minute
      BY <1>1, <2>1, <3>1 DEF Write, Moments
    <3>4. \A type \in WindowTypes :
             type \in Raised(row) <=> AsAlertBook!Due(type, row, minute)
      BY DueNow DEF Raised, WindowTypes
    <3>5. \A type : AsAlertBook!Due(type, row, minute)'
                      <=> AsAlertBook!Due(type, row, minute)
      BY <3>2, DueStays
    <3> QED BY <1>1, <3>2, <3>3, <3>4, <3>5 DEF Judged
  <2> QED BY <2>2, <2>3
<1> QED BY <1>2, <1>3 DEF Moments

LEMMA JudgedThen == Spec => []Moments
<1>1. Init => Moments
  BY DEF Init, Moments
<1> QED BY <1>1, Invariant, MomentsStep, PTL DEF Spec

-----------------------------------------------------------------------------
(* Each step is one of AlertBook or leaves the book alone.                 *)

LEMMA FirstOfBook ==
    ASSUME NEW row PROVE IsFirst(row) <=> AsAlertBook!IsFirst(row)
BY DEF IsFirst, CallsOf, AsAlertBook!IsFirst

LEMMA CommitRecords ==
    ASSUME IInv, Moments, NEW d \in Threads, Commit(d)
    PROVE  AsAlertBook!Next
<1> DEFINE row == job[d].row
           new(type) == IF type \in job[d].raised THEN 1 ELSE 0
<1>1. /\ row \in Rows /\ row.agent \in Agents /\ row.tool \in Tools
      /\ job[d].checked \in BOOLEAN /\ row.at \in Nat /\ minute \in Nat
      /\ open \in [WindowTypes -> [Agents -> Nat]]
      /\ flagged \in [Agents -> [Tools -> Nat]]
  BY JobType, MinuteTypes DEF IInv, TypeOK
<1>2. /\ pc[d] = "writing" /\ audit' = Append(audit, row)
      /\ UNCHANGED <<rules, minute>>
      /\ open' = [type \in WindowTypes |-> [a \in Agents |->
                    open[type][a] + IF a = row.agent /\ type \in job[d].raised
                                    THEN 1 ELSE 0]]
      /\ flagged' = [flagged EXCEPT ![row.agent][row.tool] =
                       @ + new("new_tool_attempt")]
  BY DEF Commit, Done, AddAlerts
<1>3. Findings(d) /\ Judged(d) /\ row.at <= minute
  BY <1>2 DEF IInv, Found, Moments
<1>4. row \in AsAlertBook!Rows
  BY <1>1, <1>3 DEF Rows, AsAlertBook!Rows
<1>5. flagged' = IF "new_tool_attempt" \in job[d].raised
                 THEN [flagged EXCEPT ![row.agent][row.tool] = 1]
                 ELSE flagged
  <2>1. "new_tool_attempt" \in job[d].raised => flagged[row.agent][row.tool] = 0
    BY <1>3 DEF Findings
  <2>2. flagged' \in [Agents -> [Tools -> Nat]]
        /\ \A a \in Agents, t \in Tools :
              flagged'[a][t] = IF a = row.agent /\ t = row.tool
                                  /\ "new_tool_attempt" \in job[d].raised
                               THEN flagged[a][t] + 1 ELSE flagged[a][t]
    BY AlertsAdded DEF Commit
  <2> DEFINE once == [flagged EXCEPT ![row.agent][row.tool] = 1]
  <2>3. CASE "new_tool_attempt" \in job[d].raised
    <3>1. once \in [Agents -> [Tools -> Nat]]
      BY <1>1
    <3>2. \A a \in Agents, t \in Tools :
             once[a][t] = IF a = row.agent /\ t = row.tool THEN 1 ELSE flagged[a][t]
      BY <1>1
    <3> HIDE DEF once
    <3>3. \A a \in Agents, t \in Tools : flagged'[a][t] = once[a][t]
      BY <1>1, <2>1, <2>2, <2>3, <3>2
    <3>4. \A a \in Agents : flagged'[a] = once[a]
      BY <2>2, <3>1, <3>3
    <3>5. flagged' = once
      BY <2>2, <3>1, <3>4
    <3> QED BY <2>3, <3>5 DEF once
  <2>4. CASE "new_tool_attempt" \notin job[d].raised
    <3>1. \A a \in Agents : flagged'[a] = flagged[a]
      BY <1>1, <2>2, <2>4
    <3>2. flagged' = flagged
      BY <1>1, <2>2, <3>1
    <3> QED BY <2>4, <3>2
  <2> QED BY <2>3, <2>4
<1>6. CASE ~job[d].checked
  <2>1. job[d].raised = {} /\ ~IsFirst(row)
    BY <1>2, <1>3, <1>6 DEF Judged, IInv, UncheckedAreLater
  <2>2. open' = open
    BY <1>1, <1>2, <2>1
  <2>3. flagged' = flagged
    BY <1>5, <2>1
  <2>4. AsAlertBook!RecordUnjudged(row)
    BY <1>2, <2>1, <2>2, <2>3, FirstOfBook DEF AsAlertBook!RecordUnjudged
  <2> QED BY <1>4, <2>4 DEF AsAlertBook!Next
<1>7. CASE job[d].checked
  <2>1. PICK m \in row.at..minute : \A type \in WindowTypes :
                type \in job[d].raised <=> AsAlertBook!Due(type, row, m)
    BY <1>3, <1>7 DEF Judged
  <2> DEFINE now == [type \in WindowTypes |-> m]
  <2>2. now \in [WindowTypes -> row.at..minute]
    OBVIOUS
  <2>3. open' = [type \in WindowTypes |-> [a \in Agents |->
                   IF a = row.agent /\ AsAlertBook!Due(type, row, now[type])
                   THEN 1 ELSE open[type][a]]]
    <3>1. \A type \in WindowTypes, a \in Agents :
             open[type][a] + (IF a = row.agent /\ type \in job[d].raised
                              THEN 1 ELSE 0)
               = IF a = row.agent /\ type \in job[d].raised THEN 1
                 ELSE open[type][a]
      BY <1>1, <1>3 DEF Findings
    <3>2. open' = [type \in WindowTypes |-> [a \in Agents |->
                     IF a = row.agent /\ type \in job[d].raised THEN 1
                     ELSE open[type][a]]]
      BY <1>2, <3>1
    <3> QED BY <2>1, <3>2
  <2>4. "new_tool_attempt" \in job[d].raised <=>
          "new_tool_attempt" \in rules.enabled /\ AsAlertBook!IsFirst(row)
    <3>1. IsFirst(row) => flagged[row.agent][row.tool] = 0
      BY <1>1 DEF IInv, FirstCallsAreFlagged, IsFirst
    <3> QED BY <1>3, <1>7, <3>1, FirstOfBook DEF Findings
  <2>5. ~rules.broken
    BY <1>3, <1>7 DEF Judged
  <2> HIDE DEF now
  <2>6. AsAlertBook!Record(row, now)
    BY <1>2, <1>5, <2>3, <2>4, <2>5 DEF AsAlertBook!Record
  <2> QED BY <1>4, <2>2, <2>6 DEF AsAlertBook!Next
<1> QED BY <1>1, <1>6, <1>7

LEMMA StepIsBooked ==
    ASSUME IInv, Moments, [Next]_vars
    PROVE  AsAlertBook!Next \/ UNCHANGED AsAlertBook!book
<1>1. ASSUME NEW d \in Threads, BeginAny(d) \/ Write(d)
      PROVE  UNCHANGED AsAlertBook!book
  BY <1>1 DEF BeginAny, Begin, Write, tables, AsAlertBook!book
<1>2. ASSUME NEW d \in Threads, Rollback(d) \/ GiveUp(d) \/ CheckRaises(d)
      PROVE  UNCHANGED AsAlertBook!book
  BY <1>2 DEF Rollback, GiveUp, CheckRaises, Done, AsAlertBook!book
<1>3. ASSUME NEW type \in WindowTypes, NEW a \in Agents, Acknowledge(type, a)
      PROVE  AsAlertBook!Next
  <2>1. open[type][a] = 1
    BY <1>3 DEF Acknowledge, IInv, TypeOK, OneOpenAlert
  <2>2. open' = [open EXCEPT ![type][a] = 0]
    BY <1>3, <2>1 DEF Acknowledge
  <2>3. AsAlertBook!Acknowledge(type, a)
    BY <1>3, <2>1, <2>2 DEF Acknowledge, AsAlertBook!Acknowledge
  <2> QED BY <2>3 DEF AsAlertBook!Next
<1>4. ASSUME NEW new \in Settings, UpdateRules(new)
      PROVE  AsAlertBook!Next
  BY <1>4 DEF UpdateRules, AsAlertBook!UpdateRules, AsAlertBook!Next
<1>5. CASE Tick
  BY <1>5 DEF Tick, tables, AsAlertBook!Tick, AsAlertBook!Next
<1>6. CASE UNCHANGED vars
  BY <1>6 DEF vars, tables, AsAlertBook!book
<1> QED
  BY <1>1, <1>2, <1>3, <1>4, <1>5, <1>6, CommitRecords DEF Next, ThreadStep

(* A row and its alerts appear in one step, and are what the rules say of  *)
(* the trail at that point, with any number of writers and whatever waits, *)
(* fails or ticks in between.  (check_with_conn)                           *)
THEOREM AlertsAreABook == Spec => ImplementsAlertBook
<1>1. Init => AsAlertBook!Init
  BY DEF Init, AsAlertBook!Init
<1>2. IInv /\ Moments /\ [Next]_vars => [AsAlertBook!Next]_(AsAlertBook!book)
  BY StepIsBooked
<1> QED
  BY <1>1, <1>2, Invariant, JudgedThen, PTL
  DEF Spec, ImplementsAlertBook, AsAlertBook!Spec

=============================================================================
