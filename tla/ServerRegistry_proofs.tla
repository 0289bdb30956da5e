----------------------- MODULE ServerRegistry_proofs -----------------------
(***************************************************************************)
(* Proofs about ServerRegistry, for any number of servers, tools, threads  *)
(* and starts of the backend.                                              *)
(***************************************************************************)
EXTENDS ServerRegistry, TLAPS

-----------------------------------------------------------------------------
(* Types.                                                                  *)

LEMMA RequestIsAJob ==
    ASSUME NEW op \in Ops, NEW s \in Slugs, NEW row \in Rows \cup {NoServer}
    PROVE  Request(op, s, row) \in Jobs
BY DEF Request, Jobs

LEMMA NoJobIsAJob == NoJob \in Jobs
<1>1. PICK s \in Slugs : NoJob = Request("sync", s, NoServer)
  BY RegistryAssumption DEF NoJob
<1> QED BY <1>1, RequestIsAJob DEF Ops

LEMMA KeyIsAKey == TypeOK => Key \in Keys
BY RegistryAssumption DEF TypeOK, Key, Keys

LEMMA NoServerIsNoRow == NoServer \notin Rows
BY DEF NoServer, Rows

LEMMA GradeIsAGrade ==
    \A trusted : Grade(trusted) \in Grades /\ Grade(trusted) # "none"
BY DEF Grade, Grades

LEMMA TypeInit == Init => TypeOK
BY NoJobIsAJob, RegistryAssumption DEF Init, TypeOK, PCs, Grades

(* Every step of a thread goes through Step or Finish.                     *)
LEMMA TypeOfStep ==
    ASSUME TypeOK, NEW d \in Threads, NEW from \in PCs, NEW to \in PCs,
           NEW j \in Jobs, Step(d, from, to, j)
    PROVE  /\ pc' \in [Threads -> PCs] /\ job' \in [Threads -> Jobs]
           /\ secretKey' \in BOOLEAN /\ process' \in 1..MaxProcesses
BY DEF TypeOK, Step

LEMMA TypeOfFinish ==
    ASSUME TypeOK, NEW d \in Threads, NEW from \in PCs, Finish(d, from)
    PROVE  /\ pc' \in [Threads -> PCs] /\ job' \in [Threads -> Jobs]
           /\ secretKey' \in BOOLEAN /\ process' \in 1..MaxProcesses
BY TypeOfStep, NoJobIsAJob DEF Finish, PCs

LEMMA RowChangesTypes ==
    ASSUME TypeOK, NEW d \in Threads, NEW s \in Slugs, RowChanges(d, s)
    PROVE  disturbed' \subseteq Threads /\ regraded' \subseteq Slugs
           /\ found' \in [Slugs -> SUBSET Tools]
BY DEF TypeOK, RowChanges

LEMMA TypeThread ==
    ASSUME TypeOK, NEW d \in Threads, ThreadStep(d)
    PROVE  TypeOK'
<1>0. job[d] \in Jobs /\ Slug(d) \in Slugs /\ job[d].tools \subseteq Tools
      /\ job[d].row \in Rows \cup {NoServer} /\ job[d].op \in Ops
  BY DEF TypeOK, Jobs, Slug
<1> DEFINE Threaded ==
      /\ pc' \in [Threads -> PCs] /\ job' \in [Threads -> Jobs]
      /\ secretKey' \in BOOLEAN /\ process' \in 1..MaxProcesses
<1>1. CASE Check(d)
  <2>1. "check" \in PCs /\ AfterCheck[job[d].op] \in PCs
    BY <1>0 DEF PCs, AfterCheck, Ops
  <2>2. Threaded
    BY <1>0, <1>1, <2>1, TypeOfStep DEF Check
  <2> QED BY <1>1, <2>2 DEF Check, TypeOK, registry, history
<1>2. CASE Reject(d) \/ NothingToSync(d) \/ SaveNothing(d)
  <2>1. Threaded
    BY <1>2, TypeOfFinish DEF Reject, NothingToSync, SaveNothing, PCs
  <2> QED BY <1>2, <2>1
          DEF Reject, NothingToSync, SaveNothing, TypeOK, registry, history
<1>3. CASE Save(d)
  <2>1. Threaded
    BY <1>3, TypeOfFinish DEF Save, PCs
  <2>2. servers' \in [Slugs -> Rows \cup {NoServer}]
    BY <1>0, <1>3 DEF Save, TypeOK
  <2> QED BY <1>0, <1>3, <2>1, <2>2, RowChangesTypes DEF Save, TypeOK
<1>4. CASE ListTools(d)
  <2>1. [job[d] EXCEPT !.tools = tools[Slug(d)]] \in Jobs
    BY <1>0 DEF Jobs, TypeOK
  <2>2. Threaded
    BY <1>4, <2>1, TypeOfStep DEF ListTools, PCs
  <2> QED BY <1>4, <2>2 DEF ListTools, TypeOK, registry, history
<1>5. CASE Delete(d)
  <2>1. Threaded
    BY <1>5, TypeOfFinish DEF Delete, DeleteServer, PCs
  <2>2. /\ servers' \in [Slugs -> Rows \cup {NoServer}]
        /\ tools' \in [Slugs -> SUBSET Tools]
        /\ haunted' \subseteq Slugs
    BY <1>0, <1>5 DEF Delete, DeleteServer, TypeOK
  <2>3. trust' \in [Slugs -> [Tools -> Grades]]
    BY <1>0, <1>5 DEF Delete, Without, TypeOK, Grades
  <2> QED BY <1>0, <1>5, <2>1, <2>2, <2>3, RowChangesTypes
          DEF Delete, DeleteServer, TypeOK
<1>6. CASE ReadServer(d)
  <2>1. [job[d] EXCEPT !.row = servers[Slug(d)]] \in Jobs
    BY <1>0 DEF Jobs, TypeOK
  <2>2. Threaded
    BY <1>6, <2>1, TypeOfStep DEF ReadServer, PCs
  <2> QED BY <1>6, <2>2 DEF ReadServer, TypeOK, registry, history
<1>7. ASSUME NEW names \in SUBSET Tools, Discover(d, names)
      PROVE  TypeOK'
  <2>1. [job[d] EXCEPT !.tools = names,
                       !.authenticated = Readable(job[d].row)] \in Jobs
    BY <1>0 DEF Jobs, Readable
  <2>2. Threaded
    BY <1>7, <2>1, TypeOfStep DEF Discover, PCs
  <2> QED BY <1>7, <2>2 DEF Discover, TypeOK, registry, history
<1>8. CASE Register(d)
  <2>1. Threaded
    BY <1>8, TypeOfFinish DEF Register, RegisterAs, PCs
  <2>2. Graded(d) \in [Slugs -> [Tools -> Grades]]
    BY <1>0, GradeIsAGrade DEF Graded, TypeOK
  <2>3. /\ tools' \in [Slugs -> SUBSET Tools] /\ found' \in [Slugs -> SUBSET Tools]
        /\ disturbed' \subseteq Threads /\ servers' = servers
        /\ trust' = Graded(d)
    BY <1>0, <1>8 DEF Register, RegisterAs, TypeOK
  <2>4. regraded' \subseteq Slugs /\ haunted' \subseteq Slugs
    BY <1>0, <1>8 DEF Register, RegisterAs, TypeOK
  <2> QED BY <2>1, <2>2, <2>3, <2>4 DEF TypeOK
<1>9. CASE Fail(d)
  <2>1. Threaded
    BY <1>9, TypeOfFinish DEF Fail
  <2> QED BY <1>9, <2>1 DEF Fail, TypeOK, registry
<1> QED BY <1>1, <1>2, <1>3, <1>4, <1>5, <1>6, <1>7, <1>8, <1>9 DEF ThreadStep

LEMMA TypeAsk ==
    ASSUME TypeOK, NEW d \in Threads, AskAny(d)
    PROVE  TypeOK'
<1>1. PICK op \in Ops, s \in Slugs, row \in Rows \cup {NoServer} :
        Ask(d, op, s, row)
  BY DEF AskAny, Ops
<1>2. /\ pc' \in [Threads -> PCs] /\ job' \in [Threads -> Jobs]
      /\ secretKey' \in BOOLEAN /\ process' \in 1..MaxProcesses
  BY <1>1, RequestIsAJob, TypeOfStep DEF Ask, PCs
<1> QED BY <1>1, <1>2 DEF Ask, TypeOK, registry, history

LEMMA TypeStep == TypeOK /\ [Next]_vars => TypeOK'
<1> SUFFICES ASSUME TypeOK, [Next]_vars PROVE TypeOK'
  OBVIOUS
<1>1. CASE Restart
  BY <1>1, NoJobIsAJob, RegistryAssumption
  DEF Restart, TypeOK, PCs, registry
<1>2. CASE UNCHANGED vars
  BY <1>2 DEF vars, TypeOK, registry, history
<1> QED BY <1>1, <1>2, TypeAsk, TypeThread DEF Next

(* Every variable has its type: a trust record has one of the statuses the *)
(* sync writes, whatever requests, failures and restarts do.               *)
(* (server_service.py)                                                     *)
THEOREM TypeCorrect == Spec => []TypeOK
BY TypeInit, TypeStep, PTL DEF Spec

-----------------------------------------------------------------------------
(* Tools and their trust records.                                          *)

(* Which tables a step can change.                                         *)
LEMMA WhoWrites ==
    ASSUME [Next]_vars
    PROVE  \/ UNCHANGED <<servers, tools, trust, found>>
           \/ \E d \in Threads : Save(d) \/ Delete(d) \/ Register(d)
<1>1. ASSUME NEW d \in Threads, ThreadStep(d)
      PROVE  \/ UNCHANGED <<servers, tools, trust, found>>
             \/ Save(d) \/ Delete(d) \/ Register(d)
  BY <1>1 DEF ThreadStep, Check, Reject, SaveNothing, ListTools, ReadServer,
              NothingToSync, Discover, Fail, registry, history
<1>2. ASSUME NEW d \in Threads, AskAny(d)
      PROVE  UNCHANGED <<servers, tools, trust, found>>
  BY <1>2 DEF AskAny, Ask, registry, history
<1>3. CASE Restart \/ UNCHANGED vars
  BY <1>3 DEF Restart, vars, registry, history
<1> QED BY <1>1, <1>2, <1>3 DEF Next

(* What a sync writes: the tools it discovered, each with a trust record.  *)
LEMMA RegisterWrites ==
    ASSUME TypeOK, NEW d \in Threads, Register(d)
    PROVE  LET s == Slug(d)
           IN  /\ s \in Slugs /\ job[d].tools \subseteq Tools
               /\ servers' = servers
               /\ \A r \in Slugs :
                     tools'[r] = IF r = s THEN job[d].tools ELSE tools[r]
               /\ \A r \in Slugs :
                     found'[r] = IF r = s THEN job[d].tools ELSE found[r]
               /\ \A r \in Slugs, t \in Tools :
                     trust'[r][t] = IF r = s /\ t \in job[d].tools
                                    THEN Grade(job[d].row.trust)
                                    ELSE trust[r][t]
<1>1. Slug(d) \in Slugs /\ job[d].tools \subseteq Tools
  BY DEF TypeOK, Jobs, Slug
<1> QED BY <1>1 DEF Register, RegisterAs, Graded, TypeOK

(* What a delete leaves: no tool of the server, the rest as it was.        *)
LEMMA DeleteWrites ==
    ASSUME TypeOK, NEW d \in Threads, Delete(d)
    PROVE  LET s == Slug(d)
           IN  /\ s \in Slugs
               /\ \A r \in Slugs :
                     /\ servers'[r] = IF r = s THEN NoServer ELSE servers[r]
                     /\ tools'[r] = IF r = s THEN {} ELSE tools[r]
                     /\ r # s => trust'[r] = trust[r]
               /\ found' = found
<1>1. Slug(d) \in Slugs
  BY DEF TypeOK, Jobs, Slug
<1> QED BY <1>1 DEF Delete, DeleteServer, RowChanges, Without, TypeOK

LEMMA TrustStep == TypeOK /\ ToolsHaveTrust /\ [Next]_vars => ToolsHaveTrust'
<1> SUFFICES ASSUME TypeOK, ToolsHaveTrust, [Next]_vars PROVE ToolsHaveTrust'
  OBVIOUS
<1>1. CASE UNCHANGED <<servers, tools, trust, found>>
  BY <1>1 DEF ToolsHaveTrust
<1>2. ASSUME NEW d \in Threads, Save(d) PROVE ToolsHaveTrust'
  BY <1>2 DEF Save, ToolsHaveTrust
<1>3. ASSUME NEW d \in Threads, Delete(d) PROVE ToolsHaveTrust'
  BY <1>3, DeleteWrites DEF ToolsHaveTrust
<1>4. ASSUME NEW d \in Threads, Register(d) PROVE ToolsHaveTrust'
  <2> SUFFICES ASSUME NEW s \in Slugs, NEW t \in tools'[s]
               PROVE  trust'[s][t] # "none"
    BY DEF ToolsHaveTrust
  <2>1. t \in Tools
    BY <1>4, RegisterWrites DEF TypeOK
  <2> QED BY <1>4, <2>1, RegisterWrites, GradeIsAGrade DEF ToolsHaveTrust
<1> QED BY <1>1, <1>2, <1>3, <1>4, WhoWrites

(* No tool is ever without a trust record, however many syncs, deletes and *)
(* updates overlap.  (delete, _sync_real_tools)                            *)
THEOREM ToolsAreGraded == Spec => []ToolsHaveTrust
<1>1. Init => ToolsHaveTrust
  BY DEF Init, ToolsHaveTrust
<1> QED BY <1>1, TrustStep, TypeCorrect, PTL DEF Spec

LEMMA DiscoveryStep ==
    TypeOK /\ ToolsAreOneDiscovery /\ [Next]_vars => ToolsAreOneDiscovery'
<1> SUFFICES ASSUME TypeOK, ToolsAreOneDiscovery, [Next]_vars
             PROVE  ToolsAreOneDiscovery'
  OBVIOUS
<1> USE DEF ToolsAreOneDiscovery
<1>1. CASE UNCHANGED <<servers, tools, trust, found>>
  BY <1>1
<1>2. ASSUME NEW d \in Threads, Save(d) PROVE ToolsAreOneDiscovery'
  BY <1>2 DEF Save, RowChanges
<1>3. ASSUME NEW d \in Threads, Delete(d) PROVE ToolsAreOneDiscovery'
  BY <1>3, DeleteWrites
<1>4. ASSUME NEW d \in Threads, Register(d) PROVE ToolsAreOneDiscovery'
  BY <1>4, RegisterWrites
<1> QED BY <1>1, <1>2, <1>3, <1>4, WhoWrites

(* The tools of a server are the result of one discovery, never a mixture. *)
(* (_sync_real_tools deletes and inserts in one transaction)               *)
THEOREM OneDiscoveryAtATime == Spec => []ToolsAreOneDiscovery
<1>1. Init => ToolsAreOneDiscovery
  BY DEF Init, ToolsAreOneDiscovery
<1> QED BY <1>1, DiscoveryStep, TypeCorrect, PTL DEF Spec

-----------------------------------------------------------------------------
(* Syncs and the row they have read.                                       *)

(* A sync under whose feet nothing has changed holds the row of its        *)
(* server; a create or update holds a row to save.                         *)
HoldsRow ==
    \A d \in Threads :
       /\ Syncing(d) /\ d \notin disturbed
            => job[d].row = servers[Slug(d)] /\ There(d)
       /\ pc[d] # "idle" /\ job[d].op \in {"create", "update"}
            => job[d].row \in Rows
       /\ pc[d] = "list" => job[d].op = "delete"

LEMMA HoldsRowInit == Init => HoldsRow
BY DEF Init, HoldsRow, Syncing

(* A thread that goes idle, and the rest of its step.                      *)
LEMMA FinishHoldsRow ==
    ASSUME TypeOK, HoldsRow, NEW d \in Threads, NEW from \in PCs,
           Finish(d, from), UNCHANGED servers,
           \A c \in Threads : c # d => (c \in disturbed <=> c \in disturbed')
    PROVE  HoldsRow'
<1>1. pc'[d] = "idle"
  BY DEF Finish, Step, TypeOK
<1>2. \A c \in Threads : c # d => pc'[c] = pc[c] /\ job'[c] = job[c]
  BY DEF Finish, Step, TypeOK
<1> QED BY <1>1, <1>2 DEF HoldsRow, Syncing, Slug, There

LEMMA StepHoldsRow ==
    ASSUME TypeOK, HoldsRow, NEW d \in Threads, NEW from, NEW to, NEW j,
           Step(d, from, to, j), UNCHANGED <<servers, disturbed>>,
           j.op = "sync" /\ to \in {"discover", "write"} =>
             \/ j.row = servers[j.slug] /\ servers[j.slug] # NoServer
             \/ d \in disturbed,
           j.op \in {"create", "update"} => j.row \in Rows,
           to = "list" => j.op = "delete"
    PROVE  HoldsRow'
<1>1. pc'[d] = to /\ job'[d] = j
  BY DEF Step, TypeOK
<1>2. \A c \in Threads : c # d => pc'[c] = pc[c] /\ job'[c] = job[c]
  BY DEF Step, TypeOK
<1> QED BY <1>1, <1>2 DEF HoldsRow, Syncing, Slug, There

(* The row of a server changes: its syncs are disturbed.                   *)
LEMMA RowChangesHoldsRow ==
    ASSUME TypeOK, HoldsRow, NEW d \in Threads, Finish(d, "write"),
           RowChanges(d, Slug(d)),
           \A s \in Slugs : s # Slug(d) => servers'[s] = servers[s]
    PROVE  HoldsRow'
<1>1. pc'[d] = "idle"
  BY DEF Finish, Step, TypeOK
<1> SUFFICES ASSUME NEW c \in Threads, c # d
             PROVE  /\ Syncing(c)' /\ c \notin disturbed'
                         => job'[c].row = servers'[Slug(c)'] /\ There(c)'
                    /\ pc'[c] # "idle" /\ job'[c].op \in {"create", "update"}
                         => job'[c].row \in Rows
                    /\ pc'[c] = "list" => job'[c].op = "delete"
  BY <1>1 DEF HoldsRow, Syncing
<1>2. pc'[c] = pc[c] /\ job'[c] = job[c]
  BY DEF Finish, Step, TypeOK
<1>3. Slug(c) \in Slugs
  BY DEF TypeOK, Jobs, Slug
<1>4. ASSUME Syncing(c), c \notin disturbed'
      PROVE  c \notin disturbed /\ Slug(c) # Slug(d)
  BY <1>4 DEF RowChanges, Syncing
<1> QED BY <1>2, <1>3, <1>4 DEF HoldsRow, Syncing, Slug, There

LEMMA HoldsRowStep == TypeOK /\ HoldsRow /\ [Next]_vars => HoldsRow'
<1> SUFFICES ASSUME TypeOK, HoldsRow, [Next]_vars PROVE HoldsRow'
  OBVIOUS
<1>1. ASSUME NEW d \in Threads, AskAny(d) PROVE HoldsRow'
  <2>1. PICK op \in Ops, s \in Slugs, row \in Rows \cup {NoServer} :
          /\ Ask(d, op, s, row)
          /\ op \in {"create", "update"} => row \in Rows
    BY <1>1 DEF AskAny, Ops
  <2> QED BY <2>1, StepHoldsRow DEF Ask, Request, registry, history
<1>2. ASSUME NEW d \in Threads, Check(d) PROVE HoldsRow'
  <2>1. /\ job[d].op = "sync" => AfterCheck[job[d].op] = "read"
        /\ AfterCheck[job[d].op] = "list" => job[d].op = "delete"
    BY DEF AfterCheck, TypeOK, Jobs, Ops
  <2>2. job[d].op \in {"create", "update"} => job[d].row \in Rows
    BY <1>2 DEF Check, Step, HoldsRow
  <2> QED BY <1>2, <2>1, <2>2, StepHoldsRow DEF Check, registry, history
<1>3. ASSUME NEW d \in Threads,
             Reject(d) \/ NothingToSync(d) \/ SaveNothing(d)
      PROVE  HoldsRow'
  BY <1>3, FinishHoldsRow
  DEF Reject, NothingToSync, SaveNothing, registry, history, PCs
<1>4. ASSUME NEW d \in Threads, Save(d) PROVE HoldsRow'
  BY <1>4, RowChangesHoldsRow DEF Save, TypeOK
<1>5. ASSUME NEW d \in Threads, ListTools(d) PROVE HoldsRow'
  <2> DEFINE j == [job[d] EXCEPT !.tools = tools[Slug(d)]]
  <2>1. j.op = job[d].op /\ j.row = job[d].row
    BY DEF TypeOK, Jobs
  <2>2. job[d].op \in {"create", "update"} => job[d].row \in Rows
    BY <1>5 DEF ListTools, Step, HoldsRow
  <2>3. Step(d, "list", "write", j) /\ UNCHANGED <<servers, disturbed>>
    BY <1>5 DEF ListTools, registry, history
  <2>4. j.op = "delete"
    BY <1>5, <2>1 DEF ListTools, Step, HoldsRow
  <2> HIDE DEF j
  <2> QED BY <2>1, <2>2, <2>3, <2>4, StepHoldsRow
<1>6. ASSUME NEW d \in Threads, Delete(d) PROVE HoldsRow'
  BY <1>6, DeleteWrites, RowChangesHoldsRow DEF Delete, DeleteServer
<1>7. ASSUME NEW d \in Threads, ReadServer(d) PROVE HoldsRow'
  <2> DEFINE j == [job[d] EXCEPT !.row = servers[Slug(d)]]
  <2>1. j.slug = Slug(d) /\ j.row = servers[Slug(d)] /\ servers[Slug(d)] # NoServer
    BY <1>7 DEF ReadServer, There, Slug, TypeOK, Jobs
  <2>2. servers[Slug(d)] \in Rows
    BY <2>1 DEF TypeOK, Jobs, Slug
  <2>3. Step(d, "read", "discover", j) /\ UNCHANGED <<servers, disturbed>>
    BY <1>7 DEF ReadServer, registry, history
  <2> HIDE DEF j
  <2> QED BY <2>1, <2>2, <2>3, StepHoldsRow
<1>8. ASSUME NEW d \in Threads, NEW names \in SUBSET Tools, Discover(d, names)
      PROVE  HoldsRow'
  <2> DEFINE j == [job[d] EXCEPT !.tools = names,
                                 !.authenticated = Readable(job[d].row)]
  <2>1. j.op = job[d].op /\ j.row = job[d].row /\ j.slug = Slug(d)
    BY DEF TypeOK, Jobs, Slug
  <2>2. Step(d, "discover", "write", j) /\ UNCHANGED <<servers, disturbed>>
    BY <1>8 DEF Discover, registry, history
  <2>3. pc[d] = "discover"
    BY <1>8 DEF Discover, Step
  <2> HIDE DEF j
  <2> QED BY <2>1, <2>2, <2>3, StepHoldsRow DEF HoldsRow, Syncing, There
<1>9. ASSUME NEW d \in Threads, Register(d) PROVE HoldsRow'
  BY <1>9, FinishHoldsRow DEF Register, RegisterAs, PCs
<1>10. ASSUME NEW d \in Threads, Fail(d) PROVE HoldsRow'
  BY <1>10, FinishHoldsRow DEF Fail, registry
<1>11. CASE Restart
  BY <1>11 DEF Restart, HoldsRow, Syncing
<1>12. CASE UNCHANGED vars
  BY <1>12 DEF vars, registry, history, HoldsRow, Syncing, Slug, There
<1> QED
  BY <1>1, <1>2, <1>3, <1>4, <1>5, <1>6, <1>7, <1>8, <1>9, <1>10, <1>11, <1>12
  DEF Next, ThreadStep

-----------------------------------------------------------------------------
(* Grades and ghosts.                                                      *)

LEMMA GradesStep ==
    TypeOK /\ HoldsRow /\ GradesFollowServer /\ [Next]_vars
       => GradesFollowServer'
<1> SUFFICES ASSUME TypeOK, HoldsRow, GradesFollowServer, [Next]_vars
             PROVE  GradesFollowServer'
  OBVIOUS
<1>1. CASE /\ UNCHANGED <<servers, tools, trust, found>>
           /\ regraded' = regraded
  BY <1>1 DEF GradesFollowServer
<1>2. ASSUME NEW d \in Threads, Save(d) PROVE GradesFollowServer'
  <2>1. Slug(d) \in Slugs
    BY DEF TypeOK, Jobs, Slug
  <2> QED BY <1>2, <2>1 DEF Save, RowChanges, GradesFollowServer, TypeOK
<1>3. ASSUME NEW d \in Threads, Delete(d) PROVE GradesFollowServer'
  <2> SUFFICES ASSUME NEW s \in Slugs \ regraded', NEW t \in tools'[s]
               PROVE  trust'[s][t] = Grade(servers'[s].trust)
    BY DEF GradesFollowServer, Grade
  <2>1. s # Slug(d) /\ s \notin regraded
    BY <1>3 DEF Delete, DeleteServer, RowChanges
  <2>2. UNCHANGED <<servers[s], tools[s], trust[s]>>
    BY <1>3, <2>1, DeleteWrites
  <2> QED BY <2>1, <2>2 DEF GradesFollowServer, Grade
<1>4. ASSUME NEW d \in Threads, Register(d) PROVE GradesFollowServer'
  <2> SUFFICES ASSUME NEW s \in Slugs \ regraded', NEW t \in tools'[s]
               PROVE  trust'[s][t] = Grade(servers'[s].trust)
    BY DEF GradesFollowServer, Grade
  <2>1. t \in Tools
    BY <1>4, RegisterWrites DEF TypeOK
  <2>2. CASE s = Slug(d)
    <3>1. d \notin disturbed
      BY <1>4, <2>2 DEF Register, RegisterAs
    <3>2. job[d].row = servers[s]
      BY <1>4, <2>2, <3>1
      DEF HoldsRow, Syncing, Register, RegisterAs, Finish, Step
    <3> QED BY <1>4, <2>1, <2>2, <3>2, RegisterWrites
  <2>3. CASE s # Slug(d)
    <3>1. s \notin regraded
      BY <1>4, <2>3 DEF Register, RegisterAs
    <3>2. UNCHANGED <<servers[s], tools[s], trust[s][t]>>
      BY <1>4, <2>1, <2>3, RegisterWrites
    <3> QED BY <3>1, <3>2 DEF GradesFollowServer, Grade
  <2> QED BY <2>2, <2>3
<1>5. ASSUME NEW d \in Threads, ThreadStep(d)
      PROVE  \/ UNCHANGED <<servers, tools, trust, found>> /\ regraded' = regraded
             \/ Save(d) \/ Delete(d) \/ Register(d)
  BY <1>5 DEF ThreadStep, Check, Reject, SaveNothing, ListTools, ReadServer,
              NothingToSync, Discover, Fail, registry, history
<1>6. ASSUME NEW d \in Threads, AskAny(d)
      PROVE  UNCHANGED <<servers, tools, trust, found>> /\ regraded' = regraded
  BY <1>6 DEF AskAny, Ask, registry, history
<1>7. CASE Restart \/ UNCHANGED vars
  BY <1>1, <1>7 DEF Restart, vars, registry, history
<1> QED BY <1>1, <1>2, <1>3, <1>4, <1>5, <1>6, <1>7 DEF Next

(* A tool is Verified exactly if its server is Trusted, unless the         *)
(* server's row has changed since the last sync read it.                   *)
(* (_sync_real_tools)                                                      *)
THEOREM GradesAreTheServers == Spec => []GradesFollowServer
<1>1. Init => GradesFollowServer
  BY DEF Init, GradesFollowServer
<1> QED BY <1>1, GradesStep, HoldsRowInit, HoldsRowStep, TypeCorrect, PTL DEF Spec

LEMMA GhostsStep ==
    TypeOK /\ HoldsRow /\ GhostsNeedARace /\ [Next]_vars => GhostsNeedARace'
<1> SUFFICES ASSUME TypeOK, HoldsRow, GhostsNeedARace, [Next]_vars
             PROVE  GhostsNeedARace'
  OBVIOUS
<1>1. CASE UNCHANGED <<servers, tools, trust, found>> /\ haunted' = haunted
  BY <1>1 DEF GhostsNeedARace
<1>2. ASSUME NEW d \in Threads, Save(d) PROVE GhostsNeedARace'
  <2>1. Slug(d) \in Slugs
    BY DEF TypeOK, Jobs, Slug
  <2>2. job[d].row # NoServer
    BY <1>2, NoServerIsNoRow DEF Save, Finish, Step, HoldsRow
  <2> QED BY <1>2, <2>1, <2>2 DEF Save, GhostsNeedARace, TypeOK
<1>3. ASSUME NEW d \in Threads, Delete(d) PROVE GhostsNeedARace'
  <2>1. haunted' = haunted \ {Slug(d)}
    BY <1>3 DEF Delete, DeleteServer
  <2> QED BY <1>3, <2>1, DeleteWrites DEF GhostsNeedARace
<1>4. ASSUME NEW d \in Threads, Register(d) PROVE GhostsNeedARace'
  <2> SUFFICES ASSUME NEW s \in Slugs \ haunted', servers[s] = NoServer
               PROVE  tools'[s] = {}
    BY <1>4, RegisterWrites DEF GhostsNeedARace
  <2>1. s \notin haunted
    BY <1>4 DEF Register, RegisterAs
  <2>2. s # Slug(d)
    BY <1>4 DEF Register, RegisterAs, Finish, Step, HoldsRow, Syncing, There
  <2> QED BY <1>4, <2>1, <2>2, RegisterWrites DEF GhostsNeedARace
<1>5. ASSUME NEW d \in Threads, ThreadStep(d)
      PROVE  \/ UNCHANGED <<servers, tools, trust, found>> /\ haunted' = haunted
             \/ Save(d) \/ Delete(d) \/ Register(d)
  BY <1>5 DEF ThreadStep, Check, Reject, SaveNothing, ListTools, ReadServer,
              NothingToSync, Discover, Fail, registry, history
<1>6. ASSUME NEW d \in Threads, AskAny(d)
      PROVE  UNCHANGED <<servers, tools, trust, found>> /\ haunted' = haunted
  BY <1>6 DEF AskAny, Ask, registry, history
<1>7. CASE Restart \/ UNCHANGED vars
  BY <1>1, <1>7 DEF Restart, vars, registry, history
<1> QED BY <1>1, <1>2, <1>3, <1>4, <1>5, <1>6, <1>7 DEF Next

(* A server that is gone leaves tools behind only through a sync whose     *)
(* row changed while it talked to the upstream server.  (delete, sync)     *)
THEOREM NoGhostWithoutARace == Spec => []GhostsNeedARace
<1>1. Init => GhostsNeedARace
  BY DEF Init, GhostsNeedARace
<1> QED BY <1>1, GhostsStep, HoldsRowInit, HoldsRowStep, TypeCorrect, PTL DEF Spec

-----------------------------------------------------------------------------
(* Credentials.                                                            *)

(* With FALCON_SECRET_KEY, nothing was ever sealed with another key.       *)
OneKey ==
    secretKey =>
       /\ \A s \in Slugs : servers[s].sealed \in {0, 1}
       /\ \A d \in Threads : job[d].row.sealed \in {0, 1}

LEMMA OneKeyInit == Init => OneKey
<1>1. NoJob.row.sealed = 0 /\ NoServer.sealed = 0
  BY DEF NoJob, Request, NoServer
<1> SUFFICES ASSUME Init
             PROVE  /\ \A s \in Slugs : servers[s].sealed \in {0, 1}
                    /\ \A d \in Threads : job[d].row.sealed \in {0, 1}
  BY DEF OneKey
<1> HIDE DEF NoJob, NoServer
<1> QED BY <1>1 DEF Init

LEMMA OneKeyJob ==
    ASSUME TypeOK, OneKey, NEW d \in Threads, NEW from, NEW to, NEW j,
           Step(d, from, to, j), secretKey => j.row.sealed \in {0, 1}
    PROVE  secretKey' => \A c \in Threads : job'[c].row.sealed \in {0, 1}
BY DEF TypeOK, OneKey, Step

LEMMA OneKeyFinish ==
    ASSUME TypeOK, OneKey, NEW d \in Threads, NEW from, Finish(d, from)
    PROVE  secretKey' => \A c \in Threads : job'[c].row.sealed \in {0, 1}
<1>1. NoJob.row.sealed = 0
  BY DEF NoJob, Request, NoServer
<1> HIDE DEF NoJob
<1> QED BY <1>1, OneKeyJob DEF Finish

LEMMA OneKeyStep == TypeOK /\ OneKey /\ [Next]_vars => OneKey'
<1> SUFFICES ASSUME TypeOK, OneKey, [Next]_vars PROVE OneKey'
  OBVIOUS
<1> DEFINE Jobbed == secretKey' => \A c \in Threads : job'[c].row.sealed \in {0, 1}
<1>0. \A d \in Threads : Slug(d) \in Slugs
  BY DEF TypeOK, Jobs, Slug
<1>1. ASSUME NEW d \in Threads, AskAny(d) PROVE OneKey'
  <2>1. PICK op \in Ops, s \in Slugs, row \in Rows \cup {NoServer} :
          Ask(d, op, s, row) /\ row.sealed \in {0, Key}
    BY <1>1 DEF AskAny, Ops, NoServer
  <2>2. secretKey => Request(op, s, row).row.sealed \in {0, 1}
    BY <2>1 DEF Request, Key
  <2>3. Jobbed
    BY <2>1, <2>2, OneKeyJob DEF Ask
  <2> QED BY <2>1, <2>3 DEF OneKey, Ask, Step, registry
<1>2. ASSUME NEW d \in Threads, NEW j, NEW from, NEW to,
             Step(d, from, to, j), UNCHANGED servers,
             secretKey => j.row.sealed \in {0, 1}
      PROVE  OneKey'
  BY <1>2, OneKeyJob DEF OneKey, Step
<1>3. ASSUME NEW d \in Threads, NEW from, Finish(d, from), UNCHANGED servers
      PROVE  OneKey'
  BY <1>3, OneKeyFinish DEF OneKey, Finish, Step
<1>4. ASSUME NEW d \in Threads, Check(d) PROVE OneKey'
  BY <1>2, <1>4 DEF Check, registry, OneKey
<1>5. ASSUME NEW d \in Threads,
             \/ Reject(d) \/ NothingToSync(d) \/ SaveNothing(d)
             \/ Register(d) \/ Fail(d)
      PROVE  OneKey'
  BY <1>3, <1>5 DEF Reject, NothingToSync, SaveNothing, Register, RegisterAs,
                    Fail, registry
<1>6. ASSUME NEW d \in Threads, Save(d) PROVE OneKey'
  <2>1. Jobbed
    BY <1>6, OneKeyFinish DEF Save
  <2> QED BY <1>0, <1>6, <2>1 DEF Save, OneKey, TypeOK, Finish, Step
<1>7. ASSUME NEW d \in Threads, Delete(d) PROVE OneKey'
  <2>1. Jobbed
    BY <1>7, OneKeyFinish DEF Delete, DeleteServer
  <2>2. NoServer.sealed = 0
    BY DEF NoServer
  <2> QED BY <1>7, <2>1, <2>2, DeleteWrites
          DEF Delete, DeleteServer, OneKey, Finish, Step
<1>8. ASSUME NEW d \in Threads, ListTools(d) PROVE OneKey'
  <2> DEFINE j == [job[d] EXCEPT !.tools = tools[Slug(d)]]
  <2>1. j.row = job[d].row
    BY DEF TypeOK, Jobs
  <2>2. Step(d, "list", "write", j) /\ UNCHANGED servers
    BY <1>8 DEF ListTools, registry
  <2> HIDE DEF j
  <2> QED BY <1>2, <2>1, <2>2 DEF OneKey
<1>9. ASSUME NEW d \in Threads, ReadServer(d) PROVE OneKey'
  <2> DEFINE j == [job[d] EXCEPT !.row = servers[Slug(d)]]
  <2>1. j.row = servers[Slug(d)]
    BY DEF TypeOK, Jobs
  <2>2. Step(d, "read", "discover", j) /\ UNCHANGED servers
    BY <1>9 DEF ReadServer, registry
  <2> HIDE DEF j
  <2> QED BY <1>0, <1>2, <2>1, <2>2 DEF OneKey
<1>10. ASSUME NEW d \in Threads, NEW names \in SUBSET Tools, Discover(d, names)
       PROVE  OneKey'
  <2> DEFINE j == [job[d] EXCEPT !.tools = names,
                                 !.authenticated = Readable(job[d].row)]
  <2>1. j.row = job[d].row
    BY DEF TypeOK, Jobs
  <2>2. Step(d, "discover", "write", j) /\ UNCHANGED servers
    BY <1>10 DEF Discover, registry
  <2> HIDE DEF j
  <2> QED BY <1>2, <2>1, <2>2 DEF OneKey
<1>11. CASE Restart
  <2>1. NoJob.row.sealed = 0
    BY DEF NoJob, Request, NoServer
  <2> HIDE DEF NoJob
  <2> QED BY <1>11, <2>1 DEF Restart, OneKey, registry
<1>12. CASE UNCHANGED vars
  BY <1>12 DEF vars, registry, OneKey
<1> QED
  BY <1>1, <1>4, <1>5, <1>6, <1>7, <1>8, <1>9, <1>10, <1>11, <1>12
  DEF Next, ThreadStep

LEMMA SentStep ==
    TypeOK /\ OneKey /\ HoldsRow /\ CredentialsAreSent /\ [Next]_vars
       => CredentialsAreSent'
<1> SUFFICES ASSUME TypeOK, OneKey, HoldsRow, CredentialsAreSent, [Next]_vars
             PROVE  CredentialsAreSent'
  OBVIOUS
<1>1. CASE Restart
  BY <1>1 DEF Restart, CredentialsAreSent
<1>2. CASE UNCHANGED vars
  BY <1>2 DEF vars, CredentialsAreSent
<1>3. ASSUME NEW d \in Threads, NEW from, NEW to, NEW j, Step(d, from, to, j),
             /\ to = "write" /\ j.op = "sync" /\ j.row.sealed # 0
             /\ secretKey \/ j.row.sealed = process
             => j.authenticated
      PROVE  CredentialsAreSent'
  <2> SUFFICES ASSUME NEW c \in Threads
               PROVE  /\ pc'[c] = "write" /\ job'[c].op = "sync"
                      /\ job'[c].row.sealed # 0
                      /\ secretKey' \/ job'[c].row.sealed = process'
                      => job'[c].authenticated
    BY DEF CredentialsAreSent
  <2>1. secretKey' = secretKey /\ process' = process
    BY <1>3 DEF Step
  <2>2. CASE c = d
    <3>1. pc'[c] = to /\ job'[c] = j
      BY <1>3, <2>2 DEF Step, TypeOK
    <3> QED BY <1>3, <2>1, <3>1
  <2>3. CASE c # d
    <3>1. pc'[c] = pc[c] /\ job'[c] = job[c]
      BY <1>3, <2>3 DEF Step, TypeOK
    <3> QED BY <2>1, <3>1 DEF CredentialsAreSent
  <2> QED BY <2>2, <2>3
<1>4. ASSUME NEW d \in Threads, AskAny(d) PROVE CredentialsAreSent'
  <2>1. PICK op, s, row : Step(d, "idle", "check", Request(op, s, row))
    BY <1>4 DEF AskAny, Ask
  <2> QED BY <1>3, <2>1
<1>5. ASSUME NEW d \in Threads, NEW from, Finish(d, from)
      PROVE  CredentialsAreSent'
  BY <1>3, <1>5 DEF Finish
<1>6. ASSUME NEW d \in Threads, Check(d) PROVE CredentialsAreSent'
  <2>1. job[d].op = "sync" => AfterCheck[job[d].op] = "read"
    BY DEF AfterCheck
  <2> QED BY <1>3, <1>6, <2>1 DEF Check
<1>7. ASSUME NEW d \in Threads, ListTools(d) PROVE CredentialsAreSent'
  <2> DEFINE j == [job[d] EXCEPT !.tools = tools[Slug(d)]]
  <2>1. Step(d, "list", "write", j)
    BY <1>7 DEF ListTools
  <2>2. j.op = "delete"
    BY <1>7 DEF ListTools, Step, HoldsRow, TypeOK, Jobs
  <2> HIDE DEF j
  <2> QED BY <1>3, <2>1, <2>2
<1>8. ASSUME NEW d \in Threads, ReadServer(d) PROVE CredentialsAreSent'
  <2> DEFINE j == [job[d] EXCEPT !.row = servers[Slug(d)]]
  <2>1. Step(d, "read", "discover", j)
    BY <1>8 DEF ReadServer
  <2> HIDE DEF j
  <2> QED BY <1>3, <2>1
<1>9. ASSUME NEW d \in Threads, NEW names \in SUBSET Tools, Discover(d, names)
      PROVE  CredentialsAreSent'
  <2> DEFINE j == [job[d] EXCEPT !.tools = names,
                                 !.authenticated = Readable(job[d].row)]
  <2>1. Step(d, "discover", "write", j)
    BY <1>9 DEF Discover
  <2>2. j.row = job[d].row /\ j.authenticated = Readable(job[d].row)
    BY DEF TypeOK, Jobs
  <2> HIDE DEF j
  <2>3. secretKey => job[d].row.sealed \in {0, 1}
    BY DEF OneKey
  <2>4. /\ job[d].row.sealed # 0
        /\ secretKey \/ job[d].row.sealed = process
        => job[d].row.sealed = Key
    BY <2>3 DEF Key
  <2> QED BY <1>3, <2>1, <2>2, <2>4 DEF Readable
<1> QED
  BY <1>1, <1>2, <1>4, <1>5, <1>6, <1>7, <1>8, <1>9
  DEF Next, ThreadStep, Reject, NothingToSync, SaveNothing, Save, Delete,
      DeleteServer, Register, RegisterAs, Fail

(* Credentials that can be read are sent with every discovery: under       *)
(* FALCON_SECRET_KEY always, without it until the next restart.            *)
(* (_auth_headers, _get_fernet)                                            *)
THEOREM DiscoveriesAreAuthenticated == Spec => []CredentialsAreSent
<1>1. Init => CredentialsAreSent
  BY DEF Init, CredentialsAreSent
<1> QED BY <1>1, SentStep, OneKeyInit, OneKeyStep, HoldsRowInit, HoldsRowStep,
           TypeCorrect, PTL DEF Spec

-----------------------------------------------------------------------------
(* The catalogue.                                                          *)

Reading == {ReadBy(d) : d \in {c \in Threads : Syncing(c)}}

(* A request that holds no row, or goes on holding the same.               *)
LEMMA ReadingKept ==
    ASSUME NEW d \in Threads,
           \A c \in Threads \ {d} : pc'[c] = pc[c] /\ job'[c] = job[c],
           Syncing(d)' <=> Syncing(d),
           Syncing(d) => ReadBy(d)' = ReadBy(d)
    PROVE  Reading' = Reading
<1>1. \A c \in Threads : /\ Syncing(c)' <=> Syncing(c)
                         /\ Syncing(c) => ReadBy(c)' = ReadBy(c)
  BY DEF Syncing, ReadBy, Slug
<1> QED BY <1>1 DEF Reading

(* A request that ends, and a sync that reads.                             *)
LEMMA ReadingEnds ==
    ASSUME NEW d \in Threads,
           \A c \in Threads \ {d} : pc'[c] = pc[c] /\ job'[c] = job[c],
           ~Syncing(d)'
    PROVE  Reading' = Reading \ {ReadBy(d)}
<1>1. \A c \in Threads \ {d} : /\ Syncing(c)' <=> Syncing(c)
                               /\ ReadBy(c)' = ReadBy(c)
                               /\ ReadBy(c) # ReadBy(d)
  BY DEF Syncing, ReadBy, Slug
<1> QED BY <1>1 DEF Reading

LEMMA ReadingBegins ==
    ASSUME NEW d \in Threads,
           \A c \in Threads \ {d} : pc'[c] = pc[c] /\ job'[c] = job[c],
           ~Syncing(d), Syncing(d)'
    PROVE  Reading' = Reading \cup {ReadBy(d)'}
<1>1. \A c \in Threads \ {d} : /\ Syncing(c)' <=> Syncing(c)
                               /\ ReadBy(c)' = ReadBy(c)
  BY DEF Syncing, ReadBy, Slug
<1> QED BY <1>1 DEF Reading

LEMMA OthersStay ==
    ASSUME TypeOK, NEW d \in Threads, NEW from, NEW to, NEW j, Step(d, from, to, j)
    PROVE  /\ \A c \in Threads \ {d} : pc'[c] = pc[c] /\ job'[c] = job[c]
           /\ pc[d] = from /\ pc'[d] = to /\ job'[d] = j
BY DEF Step, TypeOK

LEMMA FinishEnds ==
    ASSUME TypeOK, NEW d \in Threads, NEW from, Finish(d, from)
    PROVE  /\ Reading' = Reading \ {ReadBy(d)}
           /\ ~Syncing(d) => Reading' = Reading
           /\ pc[d] = from
<1>1. /\ \A c \in Threads \ {d} : pc'[c] = pc[c] /\ job'[c] = job[c]
      /\ pc[d] = from /\ ~Syncing(d)'
  BY OthersStay DEF Finish, Syncing
<1> QED BY <1>1, ReadingEnds, ReadingKept

(* A step that changes nothing but where its thread is.                    *)
LEMMA QuietStep ==
    ASSUME TypeOK, NEW d \in Threads, NEW from, NEW to, NEW j,
           Step(d, from, to, j), UNCHANGED registry,
           (j.op = "sync" /\ to \in {"discover", "write"}) <=> Syncing(d),
           Syncing(d) => j.slug = Slug(d) /\ j.row = job[d].row
    PROVE  UNCHANGED <<registry, Reading>>
<1>1. /\ \A c \in Threads \ {d} : pc'[c] = pc[c] /\ job'[c] = job[c]
      /\ pc[d] = from /\ pc'[d] = to /\ job'[d] = j
  BY OthersStay
<1>2. Syncing(d)' <=> Syncing(d)
  BY <1>1 DEF Syncing
<1>3. Syncing(d) => ReadBy(d)' = ReadBy(d)
  BY <1>1 DEF ReadBy, Slug
<1> QED BY <1>1, <1>2, <1>3, ReadingKept

LEMMA LeaveIsNext ==
    ASSUME UNCHANGED registry, Reading' \subseteq Reading
    PROVE  AsCatalogue!Next
BY DEF AsCatalogue!Next, AsCatalogue!Leave, registry, Reading

LEMMA SaveSaves ==
    ASSUME TypeOK, HoldsRow, NEW d \in Threads, Save(d)
    PROVE  AsCatalogue!Next
<1>1. Slug(d) \in Slugs
  BY DEF TypeOK, Jobs, Slug
<1>2. ~Syncing(d) /\ job[d].op \in {"create", "update"} /\ pc[d] = "write"
  BY FinishEnds DEF Save, Syncing
<1>3. job[d].row \in Rows /\ Reading' = Reading
  BY <1>2, FinishEnds DEF Save, HoldsRow
<1>4. AsCatalogue!Save(Slug(d), job[d].row)
  BY <1>3 DEF AsCatalogue!Save, Save, Reading
<1> QED BY <1>1, <1>3, <1>4 DEF AsCatalogue!Next

LEMMA DeleteDeletes ==
    ASSUME TypeOK, NEW d \in Threads, Delete(d)
    PROVE  AsCatalogue!Next
<1>1. Slug(d) \in Slugs /\ job[d].tools \in SUBSET Tools
  BY DEF TypeOK, Jobs, Slug
<1>2. Reading' = Reading
  BY FinishEnds DEF Delete, DeleteServer, Syncing
<1>3. AsCatalogue!Delete(Slug(d), job[d].tools)
  BY <1>2 DEF AsCatalogue!Delete, Delete, DeleteServer, Without, Reading
<1> QED BY <1>1, <1>3 DEF AsCatalogue!Next

LEMMA ReadReads ==
    ASSUME TypeOK, NEW d \in Threads, ReadServer(d), job[d].op = "sync"
    PROVE  AsCatalogue!Next
<1> DEFINE s == Slug(d)
           j == [job[d] EXCEPT !.row = servers[s]]
<1>1. s \in Slugs /\ j.op = "sync" /\ j.slug = s /\ j.row = servers[s]
  BY DEF TypeOK, Jobs, Slug
<1>2. Step(d, "read", "discover", j) /\ servers[s] # NoServer
      /\ UNCHANGED registry
  BY DEF ReadServer, There
<1> HIDE DEF j
<1>3. /\ \A c \in Threads \ {d} : pc'[c] = pc[c] /\ job'[c] = job[c]
      /\ pc[d] = "read" /\ pc'[d] = "discover" /\ job'[d] = j
  BY <1>2, OthersStay
<1>4. ~Syncing(d) /\ Syncing(d)' /\ ReadBy(d)' = [by |-> d, slug |-> s, row |-> servers[s]]
  BY <1>1, <1>3 DEF Syncing, ReadBy, Slug
<1>5. Reading' = Reading \cup {[by |-> d, slug |-> s, row |-> servers[s]]}
  BY <1>3, <1>4, ReadingBegins
<1>6. \A read \in Reading : read.by # d
  BY <1>4 DEF Reading, ReadBy
<1>7. AsCatalogue!Read(d, s)
  BY <1>2, <1>5, <1>6 DEF AsCatalogue!Read, Reading, registry
<1> QED BY <1>1, <1>7 DEF AsCatalogue!Next

LEMMA RegisterRegisters ==
    ASSUME TypeOK, NEW d \in Threads, Register(d)
    PROVE  AsCatalogue!Next
<1> DEFINE read == ReadBy(d)
           names == job[d].tools
<1>1. pc[d] = "write" /\ job[d].op = "sync" /\ names \in SUBSET Tools
  BY FinishEnds DEF Register, RegisterAs, TypeOK, Jobs
<1>2. read \in Reading /\ read.slug = Slug(d) /\ read.row = job[d].row
  BY <1>1 DEF Reading, Syncing, ReadBy
<1>3. Reading' = Reading \ {read}
  BY FinishEnds DEF Register, RegisterAs
<1>4. \A row : Grade(row.trust) = AsCatalogue!Earned(row)
  BY DEF Grade, AsCatalogue!Earned
<1>5. trust' = [trust EXCEPT ![read.slug] =
                  [t \in Tools |-> IF t \in names THEN AsCatalogue!Earned(read.row)
                                   ELSE @[t]]]
  BY <1>2, <1>4 DEF Register, RegisterAs, Graded
<1>6. tools' = [tools EXCEPT ![read.slug] = names] /\ servers' = servers
  BY <1>2 DEF Register, RegisterAs
<1>7. AsCatalogue!Register(read, names)
  BY <1>3, <1>5, <1>6 DEF AsCatalogue!Register, Reading
<1> QED BY <1>1, <1>2, <1>7 DEF AsCatalogue!Next, Reading

LEMMA ThreadCatalogues ==
    ASSUME TypeOK, HoldsRow, NEW d \in Threads, ThreadStep(d)
    PROVE  AsCatalogue!Next
<1>1. ASSUME UNCHANGED registry, NEW from, Finish(d, from)
      PROVE  AsCatalogue!Next
  BY <1>1, FinishEnds, LeaveIsNext
<1>2. ASSUME UNCHANGED <<registry, Reading>> PROVE AsCatalogue!Next
  BY <1>2, LeaveIsNext
<1>3. CASE Check(d)
  <2>1. /\ AfterCheck[job[d].op] \notin {"discover"}
        /\ AfterCheck[job[d].op] = "write" => job[d].op # "sync"
        /\ Step(d, "check", AfterCheck[job[d].op], job[d])
    BY <1>3 DEF Check, AfterCheck, TypeOK, Jobs, Ops
  <2>2. ~Syncing(d)
    BY <2>1 DEF Step, Syncing
  <2> QED BY <1>2, <1>3, <2>1, <2>2, QuietStep DEF Check
<1>4. CASE Reject(d) \/ NothingToSync(d) \/ SaveNothing(d) \/ Fail(d)
  BY <1>1, <1>4 DEF Reject, NothingToSync, SaveNothing, Fail
<1>5. CASE ListTools(d)
  <2> DEFINE j == [job[d] EXCEPT !.tools = tools[Slug(d)]]
  <2>1. j.op = "delete" /\ ~Syncing(d)
    BY <1>5 DEF ListTools, Step, HoldsRow, Syncing, TypeOK, Jobs
  <2>2. Step(d, "list", "write", j) /\ UNCHANGED registry
    BY <1>5 DEF ListTools
  <2> HIDE DEF j
  <2> QED BY <1>2, <2>1, <2>2, QuietStep
<1>6. CASE ReadServer(d) /\ job[d].op # "sync"
  <2> DEFINE j == [job[d] EXCEPT !.row = servers[Slug(d)]]
  <2>1. j.op # "sync" /\ ~Syncing(d)
    BY <1>6 DEF Syncing, TypeOK, Jobs
  <2>2. Step(d, "read", "discover", j) /\ UNCHANGED registry
    BY <1>6 DEF ReadServer
  <2> HIDE DEF j
  <2> QED BY <1>2, <2>1, <2>2, QuietStep
<1>7. ASSUME NEW names \in SUBSET Tools, Discover(d, names)
      PROVE  AsCatalogue!Next
  <2> DEFINE j == [job[d] EXCEPT !.tools = names,
                                 !.authenticated = Readable(job[d].row)]
  <2>1. j.op = job[d].op /\ j.row = job[d].row /\ j.slug = Slug(d)
    BY DEF TypeOK, Jobs, Slug
  <2>2. Step(d, "discover", "write", j) /\ UNCHANGED registry
    BY <1>7 DEF Discover
  <2>3. Syncing(d) <=> j.op = "sync"
    BY <2>1, <2>2 DEF Step, Syncing
  <2> HIDE DEF j
  <2> QED BY <1>2, <2>1, <2>2, <2>3, QuietStep
<1> QED
  BY <1>3, <1>4, <1>5, <1>6, <1>7, SaveSaves, DeleteDeletes, ReadReads,
     RegisterRegisters
  DEF ThreadStep

LEMMA StepCatalogues ==
    ASSUME TypeOK, HoldsRow, Next
    PROVE  AsCatalogue!Next
<1>1. ASSUME NEW d \in Threads, AskAny(d) PROVE AsCatalogue!Next
  <2>1. PICK op, s, row : Step(d, "idle", "check", Request(op, s, row))
    BY <1>1 DEF AskAny, Ask
  <2>2. UNCHANGED registry /\ ~Syncing(d)
    BY <1>1, <2>1 DEF AskAny, Ask, Step, Syncing
  <2> QED BY <2>1, <2>2, QuietStep, LeaveIsNext
<1>2. CASE Restart
  <2>1. Reading' = {}
    BY <1>2 DEF Restart, Reading, Syncing
  <2> QED BY <1>2, <2>1, LeaveIsNext DEF Restart
<1> QED BY <1>1, <1>2, ThreadCatalogues DEF Next

(* Every interleaving of creates, updates, deletes and syncs, with every   *)
(* failure and restart, does to the tables what some order of whole        *)
(* requests does, each sync registering by a row it did read.              *)
(* (server_service.py)                                                     *)
THEOREM RegistryIsACatalogue == Spec => ImplementsCatalogue
<1>1. Init => AsCatalogue!Init
  BY DEF Init, AsCatalogue!Init, Syncing
<1>2. UNCHANGED vars => UNCHANGED AsCatalogue!catalogue
  BY DEF vars, registry, AsCatalogue!catalogue, ReadBy, Syncing, Slug
<1>3. TypeOK /\ HoldsRow /\ [Next]_vars
        => [AsCatalogue!Next]_(AsCatalogue!catalogue)
  BY <1>2, StepCatalogues
<1> QED BY <1>1, <1>3, HoldsRowInit, HoldsRowStep, TypeCorrect, PTL
        DEF Spec, ImplementsCatalogue, AsCatalogue!Spec

-----------------------------------------------------------------------------
(* Every request ends.                                                     *)

(* The steps a thread may still take, at most.                             *)
StepsLeft ==
    [p \in PCs |-> CASE p = "idle" -> 0
                     [] p = "write" -> 1
                     [] p \in {"list", "discover"} -> 2
                     [] p = "read" -> 3
                     [] p = "check" -> 4]

Within(d, n) == StepsLeft[pc[d]] <= n

LEMMA StepsLeftValues ==
    /\ \A p \in PCs : StepsLeft[p] \in 0..4 /\ (StepsLeft[p] = 0 <=> p = "idle")
    /\ StepsLeft["write"] = 1 /\ StepsLeft["read"] = 3 /\ StepsLeft["check"] = 4
    /\ StepsLeft["list"] = 2 /\ StepsLeft["discover"] = 2
BY DEF StepsLeft, PCs

(* No step of a request goes back.                                         *)
LEMMA StepsAreSpent ==
    ASSUME TypeOK, NEW d \in Threads, ThreadStep(d)
    PROVE  StepsLeft[pc'[d]] < StepsLeft[pc[d]]
<1> USE StepsLeftValues
<1>1. ASSUME NEW from \in PCs \ {"idle"}, Finish(d, from)
      PROVE  StepsLeft[pc'[d]] < StepsLeft[pc[d]]
  <2>1. pc[d] = from /\ pc'[d] = "idle"
    BY <1>1, OthersStay DEF Finish
  <2> QED BY <2>1 DEF PCs
<1>2. CASE Check(d)
  <2>1. AfterCheck[job[d].op] \in {"write", "list", "read"}
    BY DEF AfterCheck, TypeOK, Jobs, Ops
  <2>2. pc[d] = "check" /\ pc'[d] = AfterCheck[job[d].op]
    BY <1>2, OthersStay DEF Check
  <2> QED BY <2>1, <2>2
<1>3. CASE ListTools(d)
  BY <1>3, OthersStay DEF ListTools
<1>4. CASE ReadServer(d) \/ \E names \in SUBSET Tools : Discover(d, names)
  <2>1. \/ \E j : Step(d, "read", "discover", j)
        \/ \E j : Step(d, "discover", "write", j)
    BY <1>4 DEF ReadServer, Discover
  <2> QED BY <2>1, OthersStay
<1> QED
  BY <1>1, <1>2, <1>3, <1>4
  DEF ThreadStep, Reject, Save, SaveNothing, Delete, DeleteServer,
      NothingToSync, Register, RegisterAs, Fail, PCs

(* Nobody else sends a thread back, but a restart, which ends its request. *)
LEMMA StepsAreKept ==
    ASSUME TypeOK, [Next]_vars, NEW d \in Threads, pc[d] # "idle",
           pc'[d] # "idle"
    PROVE  StepsLeft[pc'[d]] <= StepsLeft[pc[d]]
<1>1. CASE ThreadStep(d)
  BY <1>1, StepsAreSpent, StepsLeftValues, TypeStep DEF TypeOK
<1>2. CASE pc'[d] = pc[d]
  BY <1>2, StepsLeftValues DEF TypeOK
<1>3. ASSUME NEW e \in Threads, ThreadStep(e) \/ AskAny(e), e # d
      PROVE  pc'[d] = pc[d]
  <2>1. \E from, to, j : Step(e, from, to, j)
    BY <1>3 DEF ThreadStep, AskAny, Ask, Check, Reject, Save, SaveNothing,
       ListTools, Delete, DeleteServer, ReadServer, NothingToSync, Discover,
       Register, RegisterAs, Fail, Finish
  <2> QED BY <1>3, <2>1, OthersStay
<1>4. CASE Restart \/ AskAny(d) \/ UNCHANGED vars
  BY <1>2, <1>4 DEF Restart, AskAny, Ask, Step, vars
<1> QED BY <1>1, <1>2, <1>3, <1>4 DEF Next

LEMMA WithinIsKept ==
    ASSUME TypeOK, [Next]_vars, NEW d \in Threads, pc[d] # "idle",
           pc'[d] # "idle", NEW n \in Nat, Within(d, n)
    PROVE  Within(d, n)'
BY StepsAreKept, TypeStep, StepsLeftValues DEF Within, TypeOK

LEMMA OneStepLess ==
    ASSUME TypeOK, TypeOK', NEW d \in Threads, ThreadStep(d),
           NEW n \in Nat, NEW k \in Nat, n = k + 1, Within(d, n)
    PROVE  Within(d, k)'
BY StepsAreSpent, StepsLeftValues DEF Within, TypeOK

(* Every create, update, delete and sync gets its answer, whatever others  *)
(* do to its server meanwhile, if the thread that serves it goes on: no    *)
(* path through them comes back to where it was.  (server_service.py)      *)
THEOREM RequestsEnd ==
    Spec /\ (\A d \in Threads : ThreadGoesOn(d)) => EveryRequestEnds
<1>1. ASSUME NEW d \in Threads
      PROVE  Spec /\ ThreadGoesOn(d) => (pc[d] # "idle" ~> pc[d] = "idle")
  <2>1. TypeOK => Within(d, 4)
    BY StepsLeftValues DEF TypeOK, Within
  <2>2. TypeOK /\ Within(d, 0) => pc[d] = "idle"
    BY StepsLeftValues DEF TypeOK, Within
  <2>3. TypeOK /\ [Next]_vars /\ ~(pc[d] = "idle") /\ ~(pc[d] = "idle")' =>
          /\ (Within(d, 1) => Within(d, 1)') /\ (Within(d, 2) => Within(d, 2)')
          /\ (Within(d, 3) => Within(d, 3)') /\ (Within(d, 4) => Within(d, 4)')
    BY WithinIsKept
  <2>4. TypeOK /\ TypeOK' /\ <<ThreadStep(d)>>_vars =>
          /\ (Within(d, 1) => Within(d, 0)') /\ (Within(d, 2) => Within(d, 1)')
          /\ (Within(d, 3) => Within(d, 2)') /\ (Within(d, 4) => Within(d, 3)')
    BY OneStepLess
  <2> QED BY <2>1, <2>2, <2>3, <2>4, TypeCorrect, PTL DEF Spec, ThreadGoesOn
<1> QED BY <1>1 DEF EveryRequestEnds

=============================================================================
