--------------------------- MODULE Logins_proofs ---------------------------
(***************************************************************************)
(* Proofs about Startup and Logins, for any users, agents, threads, and    *)
(* numbers of passwords and sessions.                                      *)
(***************************************************************************)
EXTENDS Logins, TLAPS

-----------------------------------------------------------------------------
(* The inductive invariant.                                                *)

(* No request is served by a process that is not up.                       *)
DownIsIdle == boot # "up" => \A d \in Threads : pc[d] = "idle"

(* What a start has done by the time it gets so far.                       *)
Booted ==
    /\ boot = "filled" => tables = Tables /\ columns = Late
    /\ boot = "filled" /\ NoUsers =>
         passwords # 0 /\ passwords \in known \cup {buffered}
    /\ boot \in {"off", "booting"} \/ (boot = "filled" /\ ~NoUsers)
         => buffered = 0
    /\ users["admin"] = NoUser => NoUsers

(* What is known of the request d serves, where d is.                      *)
Serving(d) ==
    /\ pc[d] = "issue" =>
         /\ job[d].password \in 1..MaxPasswords
         /\ users[job[d].name] # NoUser
         /\ d \notin overtaken => users[job[d].name].password = job[d].password
    /\ pc[d] \in {"confirm", "rotate"} =>
         /\ job[d].kind = "password"
         /\ users[job[d].name] # NoUser
    /\ pc[d] \in {"logout", "resolve"} \cup Admitted => job[d].token \in 1..issued
    /\ job[d].late => job[d].token \in ended

(* Where token k is in its life.                                           *)
Aged(k) ==
    /\ sessions[k] # NoRow => k <= issued /\ users[sessions[k].user] # NoUser
    /\ k \in ended => k <= issued /\ ~Live(k)
    /\ k \in expired => k \in ended
    /\ k <= issued /\ k \notin ended => sessions[k] # NoRow

Requested == \A d \in Threads : Serving(d)
Lives     == \A k \in Tokens : Aged(k)

IInv ==
    /\ TypeOK
    /\ DownIsIdle /\ Booted /\ ServesReady
    /\ Requested /\ Lives
    /\ SessionsFollowPassword /\ EndedIsFinal

-----------------------------------------------------------------------------
LEMMA NoUserIsNoAccount == NoUser \notin Accounts
BY DEF NoUser, Accounts

LEMMA NoRowIsNoRow == NoRow \notin Rows
BY DEF NoRow, Rows

LEMMA AccountType ==
    ASSUME NEW p \in 1..MaxPasswords, NEW role \in Roles
    PROVE  Account(p, role) \in Accounts
BY DEF Account, Accounts

LEMMA NoJobType == NoJob \in Jobs
BY StartupAssumption, LoginsAssumption DEF NoJob, Jobs, Kinds, NoToken

(* The initial states.                                                     *)
LEMMA StartupTypeInit == StartupInit => StartupTypeOK
<1> SUFFICES ASSUME StartupInit PROVE StartupTypeOK
  OBVIOUS
<1>1. Settings("none", "none") \in [SettingKeys -> Values]
      /\ Settings("own", "none") \in [SettingKeys -> Values]
      /\ Settings("own", "own") \in [SettingKeys -> Values]
  BY DEF Settings, Values
<1>2. NoAccounts \in [Names -> Accounts \cup {NoUser}]
  BY DEF NoAccounts
<1>3. Account(1, "admin") \in Accounts
  BY StartupAssumption, AccountType DEF Roles
<1>4. tables \subseteq Tables /\ columns \subseteq Late
  BY DEF StartupInit, NewFile, OlderFile, FileInUse
<1>5. keys \in [Agents -> {"no agent", "null", "demo", "own"}]
  BY DEF StartupInit, NewFile, OlderFile, FileInUse
<1>6. settings \in [SettingKeys -> Values]
  BY <1>1 DEF StartupInit, NewFile, OlderFile, FileInUse
<1>7. /\ passwords \in 0..MaxPasswords /\ known \subseteq 1..passwords
      /\ buffered \in 0..passwords
  <2>1. (passwords = 0 /\ known = {}) \/ (passwords = 1 /\ known = {1})
    BY DEF StartupInit, NewFile, OlderFile, FileInUse
  <2>2. 0 \in 0..MaxPasswords /\ 1 \in 0..MaxPasswords
    BY StartupAssumption
  <2> QED BY <2>1, <2>2 DEF StartupInit
<1>8. users \in [Names -> Accounts \cup {NoUser}]
  BY <1>2, <1>3 DEF StartupInit, NewFile, OlderFile, FileInUse, NoAccounts
<1> QED BY <1>4, <1>5, <1>6, <1>7, <1>8 DEF StartupInit, StartupTypeOK

LEMMA AdminInit ==
    StartupInit => Booted /\ ServesReady
<1> SUFFICES ASSUME StartupInit
             PROVE  users["admin"] = NoUser => NoUsers
  BY DEF Booted, ServesReady, StartupInit
<1>1. CASE users = NoAccounts
  BY <1>1 DEF NoAccounts, NoUsers
<1>2. CASE users = [NoAccounts EXCEPT !["admin"] = Account(1, "admin")]
  BY <1>2, StartupAssumption DEF NoAccounts, Account, NoUser
<1> QED BY <1>1, <1>2 DEF StartupInit, NewFile, OlderFile, FileInUse

LEMMA InvInit == Init => IInv
<1> SUFFICES ASSUME Init PROVE IInv
  OBVIOUS
<1>1. StartupInit
  BY DEF Init
<1>2. TypeOK
  BY <1>1, StartupTypeInit, NoJobType, LoginsAssumption DEF Init, TypeOK, PCs
<1>3. DownIsIdle /\ EndedIsFinal
  BY DEF Init, DownIsIdle, EndedIsFinal, Admitted
<1>4. Requested
  BY DEF Init, Requested, Serving, NoJob, Admitted
<1>5. Lives /\ SessionsFollowPassword
  BY LoginsAssumption
     DEF Init, Lives, Aged, SessionsFollowPassword, Tokens
<1> QED BY <1>1, <1>2, <1>3, <1>4, <1>5, AdminInit DEF IInv

-----------------------------------------------------------------------------
(* A start.                                                                *)

(* The parts of the invariant that are about requests and sessions carry   *)
(* over when these and the users stay, and the process does not go down.   *)
LEMMA Untouched ==
    ASSUME IInv, UNCHANGED <<tokens, thread, users>>
    PROVE  Requested' /\ Lives' /\ SessionsFollowPassword' /\ EndedIsFinal'
<1>1. Requested'
  BY DEF IInv, Requested, Serving, tokens, thread
<1>2. Lives'
  BY DEF IInv, Lives, Aged, Live, tokens
<1>3. SessionsFollowPassword' /\ EndedIsFinal'
  BY DEF IInv, SessionsFollowPassword, EndedIsFinal, tokens, thread
<1> QED BY <1>1, <1>2, <1>3

LEMMA TypeUntouched ==
    ASSUME TypeOK, UNCHANGED <<tokens, thread>>, StartupTypeOK'
    PROVE  TypeOK'
BY DEF TypeOK, tokens, thread

LEMMA Counted ==
    ASSUME IInv
    PROVE  /\ MaxPasswords \in Nat /\ passwords \in Nat
           /\ passwords <= MaxPasswords /\ known \subseteq 1..passwords
           /\ buffered \in 0..passwords
<1>1. /\ passwords \in 0..MaxPasswords /\ known \subseteq 1..passwords
      /\ buffered \in 0..passwords
  BY DEF IInv, TypeOK, StartupTypeOK
<1> QED BY <1>1, StartupAssumption

LEMMA SchemaStep ==
    ASSUME IInv, UNCHANGED <<tokens, thread>>,
           \/ Start
           \/ \E t \in Tables : CreateTable(t) \/ AddColumn(t)
    PROVE  IInv'
<1>1. /\ boot \in {"off", "booting"} /\ boot' = "booting"
      /\ UNCHANGED <<settings, keys, users, passwords, log>>
      /\ tables' \subseteq Tables /\ columns' \subseteq Late
  BY DEF IInv, TypeOK, StartupTypeOK, Start, CreateTable, AddColumn, database
<1>2. StartupTypeOK'
  <2>1. known' = known /\ buffered' = buffered
    BY <1>1 DEF log
  <2> QED BY <1>1, <2>1 DEF IInv, TypeOK, StartupTypeOK
<1>3. DownIsIdle' /\ Booted' /\ ServesReady'
  BY <1>1 DEF IInv, DownIsIdle, Booted, ServesReady, NoUsers, thread, log
<1> QED BY <1>1, <1>2, <1>3, Untouched, TypeUntouched DEF IInv

LEMMA FillStep ==
    ASSUME IInv, UNCHANGED <<tokens, thread>>, Fill
    PROVE  IInv'
<1>0. /\ passwords \in Nat /\ MaxPasswords \in Nat /\ passwords <= MaxPasswords
      /\ known \subseteq 1..passwords /\ known' = known /\ buffered = 0
  BY Counted DEF IInv, Booted, Fill
<1>1. /\ passwords' \in 0..MaxPasswords /\ known' \subseteq 1..passwords'
      /\ buffered' \in 0..passwords'
      /\ NoUsers => passwords' # 0 /\ buffered' = passwords'
      /\ ~NoUsers => buffered' = 0
  <2>1. CASE NoUsers
    <3>1. /\ passwords' = passwords + 1 /\ passwords < MaxPasswords
          /\ buffered' = passwords'
      BY <2>1 DEF Fill
    <3>2. \A k \in 1..passwords : k \in 1..(passwords + 1)
      BY <1>0
    <3> QED BY <1>0, <2>1, <3>1, <3>2
  <2>2. CASE ~NoUsers
    BY <1>0, <2>2 DEF Fill
  <2> QED BY <2>1, <2>2
<1>2. StartupTypeOK'
  BY <1>1 DEF IInv, TypeOK, StartupTypeOK, Fill, database
<1>3. DownIsIdle' /\ ServesReady'
  BY DEF IInv, Fill, DownIsIdle, ServesReady, thread
<1>4. Booted'
  <2>1. NoUsers' = NoUsers /\ users' = users /\ tables' = Tables /\ columns' = Late
        /\ boot' = "filled"
    BY DEF Fill, NoUsers, database
  <2> QED BY <1>1, <2>1 DEF IInv, Booted
<1> QED BY <1>2, <1>3, <1>4, Untouched, TypeUntouched DEF IInv, Fill

(* Output that comes out changes nothing else.                             *)
LEMMA FlushStep ==
    ASSUME IInv, UNCHANGED <<tokens, thread>>, Flush
    PROVE  IInv'
<1>1. /\ known' = known \cup {buffered} /\ buffered' = 0 /\ buffered # 0
      /\ UNCHANGED <<boot, tables, columns, settings, keys, users, passwords>>
  BY DEF Flush, database
<1>2. StartupTypeOK'
  <2>1. passwords \in Nat /\ buffered \in 1..passwords /\ 0 \in 0..passwords
    BY <1>1, Counted
  <2>2. known \subseteq 1..passwords
    BY Counted
  <2>3. known' \subseteq 1..passwords'
    BY <1>1, <2>1, <2>2
  <2> QED BY <1>1, <2>1, <2>3 DEF IInv, TypeOK, StartupTypeOK
<1>3. DownIsIdle' /\ Booted' /\ ServesReady'
  BY <1>1 DEF IInv, DownIsIdle, Booted, ServesReady, NoUsers, thread
<1> QED BY <1>1, <1>2, <1>3, Untouched, TypeUntouched DEF IInv

LEMMA CommitBootStep ==
    ASSUME IInv, UNCHANGED <<tokens, thread>>, CommitBoot
    PROVE  IInv'
<1> DEFINE admin == Account(passwords, "admin")
<1>1. ASSUME NoUsers
      PROVE  passwords \in 1..MaxPasswords
  <2>1. passwords # 0
    BY <1>1 DEF IInv, Booted, CommitBoot
  <2> QED BY <2>1, Counted
<1>2. NoUsers => admin \in Accounts /\ admin # NoUser
                 /\ admin.password = passwords
  BY <1>1, AccountType, NoUserIsNoAccount DEF Roles, Account
<1>3. users' \in [Names -> Accounts \cup {NoUser}]
  BY <1>2, StartupAssumption DEF IInv, TypeOK, StartupTypeOK, CommitBoot
<1>4. NoUsers => users'["admin"] = admin
  BY StartupAssumption DEF IInv, TypeOK, StartupTypeOK, CommitBoot
<1> HIDE DEF admin
<1>5. settings' \in [SettingKeys -> Values \ {"none"}]
  BY DEF IInv, TypeOK, StartupTypeOK, CommitBoot, Seeded, Values
<1>6. keys' \in [Agents -> {"no agent", "demo", "own"}]
  BY DEF IInv, TypeOK, StartupTypeOK, CommitBoot, Backfilled
<1>7. StartupTypeOK'
  BY <1>3, <1>5, <1>6 DEF IInv, TypeOK, StartupTypeOK, CommitBoot, log
<1>8. users'["admin"] # NoUser
  BY <1>2, <1>4 DEF IInv, Booted, CommitBoot
<1>9. ServesReady'
  BY <1>5, <1>6, <1>8, StartupAssumption
     DEF IInv, Booted, ServesReady, CommitBoot, NoUsers, Values
<1>10. DownIsIdle' /\ Booted'
  BY <1>8 DEF DownIsIdle, Booted, CommitBoot
<1>12. \A d \in Threads : pc[d] = "idle"
  BY DEF IInv, DownIsIdle, CommitBoot
<1>13. Requested' /\ EndedIsFinal'
  BY <1>12 DEF IInv, Requested, Serving, EndedIsFinal, tokens, thread, Admitted
<1>14. \A n \in Names : users[n] # NoUser => users'[n] = users[n]
  BY DEF CommitBoot, NoUsers
<1>15. \A k \in Tokens : sessions[k] # NoRow =>
          users'[sessions[k].user] = users[sessions[k].user]
                                   /\ users[sessions[k].user] # NoUser
  BY <1>14 DEF IInv, Lives, Aged, TypeOK, Rows
<1>16. Lives' /\ SessionsFollowPassword'
  BY <1>15 DEF IInv, Lives, Aged, Live, SessionsFollowPassword, tokens
<1> QED BY <1>7, <1>9, <1>10, <1>13, <1>16, TypeUntouched DEF IInv

LEMMA BootStepKeeps ==
    ASSUME IInv, UNCHANGED <<tokens, thread>>, BootStep
    PROVE  IInv'
BY SchemaStep, FillStep, CommitBootStep DEF BootStep

-----------------------------------------------------------------------------
(* Steps of a thread that only move its request along.                     *)

LEMMA UpWhenBusy ==
    ASSUME IInv, NEW d \in Threads, pc[d] # "idle"
    PROVE  boot = "up"
BY DEF IInv, DownIsIdle

LEMMA StepType ==
    ASSUME IInv, NEW d \in Threads, NEW from, NEW to \in PCs, Step(d, from, to)
    PROVE  /\ pc' \in [Threads -> PCs]
           /\ pc[d] = from /\ pc'[d] = to
           /\ \A c \in Threads \ {d} : pc'[c] = pc[c]
BY DEF IInv, TypeOK, Step

LEMMA FinishType ==
    ASSUME IInv, NEW d \in Threads, NEW from, Finish(d, from)
    PROVE  /\ pc' \in [Threads -> PCs] /\ job' \in [Threads -> Jobs]
           /\ overtaken' \subseteq Threads
           /\ pc[d] = from /\ pc'[d] = "idle" /\ job'[d] = NoJob
           /\ \A c \in Threads \ {d} : /\ pc'[c] = pc[c] /\ job'[c] = job[c]
                                       /\ c \in overtaken' <=> c \in overtaken
<1>1. Step(d, from, "idle") /\ "idle" \in PCs
  BY DEF Finish, PCs
<1>2. /\ job' \in [Threads -> Jobs] /\ job'[d] = NoJob
      /\ \A c \in Threads \ {d} : job'[c] = job[c]
  BY NoJobType DEF IInv, TypeOK, Finish
<1> QED BY <1>1, <1>2, StepType DEF IInv, TypeOK, Finish

(* An idle thread satisfies its part of the invariant.                     *)
LEMMA IdleServes ==
    ASSUME NEW d \in Threads, pc'[d] = "idle", job'[d] = NoJob
    PROVE  Serving(d)' /\ (pc'[d] \in Admitted => ~job'[d].late)
BY DEF Serving, Admitted, NoJob

LEMMA OneThreadMoves ==
    ASSUME IInv, NEW d \in Threads, boot = "up", UNCHANGED <<startup, tokens>>,
           \A c \in Threads \ {d} : /\ pc'[c] = pc[c] /\ job'[c] = job[c]
                                    /\ c \in overtaken' <=> c \in overtaken,
           pc' \in [Threads -> PCs], job' \in [Threads -> Jobs],
           overtaken' \subseteq Threads,
           Serving(d)', pc'[d] \in Admitted => ~job'[d].late
    PROVE  IInv'
<1>1. TypeOK'
  BY DEF IInv, TypeOK, StartupTypeOK, startup, database, log, tokens
<1>2. DownIsIdle' /\ Booted' /\ ServesReady'
  BY DEF IInv, DownIsIdle, Booted, ServesReady, NoUsers,
         startup, database, log
<1>3. Requested'
  <2> SUFFICES ASSUME NEW c \in Threads PROVE Serving(c)'
    BY DEF Requested
  <2>1. Serving(c)
    BY DEF IInv, Requested
  <2> QED BY <2>1 DEF Serving, Admitted, startup, tokens
<1>4. EndedIsFinal'
  <2> SUFFICES ASSUME NEW c \in Threads, pc'[c] \in Admitted
               PROVE  ~job'[c].late
    BY DEF EndedIsFinal, Admitted
  <2> QED BY DEF IInv, EndedIsFinal, Admitted
<1>5. Lives' /\ SessionsFollowPassword'
  BY DEF IInv, Lives, Aged, Live, SessionsFollowPassword, startup, tokens
<1> QED BY <1>1, <1>2, <1>3, <1>4, <1>5 DEF IInv

LEMMA FinishQuietly ==
    ASSUME IInv, NEW d \in Threads, NEW from \in PCs \ {"idle"}, Finish(d, from),
           UNCHANGED <<startup, tokens>>
    PROVE  IInv'
BY FinishType, IdleServes, OneThreadMoves, UpWhenBusy

(* A step that reads, and goes on with the same job.                       *)
LEMMA GoOn ==
    ASSUME IInv, NEW d \in Threads, NEW from \in PCs \ {"idle"}, NEW to \in PCs,
           Step(d, from, to), UNCHANGED <<startup, tokens, job, overtaken>>,
           Serving(d)', to \in Admitted => ~job[d].late
    PROVE  IInv'
<1>1. job' \in [Threads -> Jobs] /\ overtaken' \subseteq Threads
  BY DEF IInv, TypeOK
<1> QED BY <1>1, StepType, OneThreadMoves, UpWhenBusy

LEMMA UserIsAccount ==
    ASSUME IInv, NEW n \in Names, users[n] # NoUser
    PROVE  users[n] \in Accounts /\ users[n].password \in 1..MaxPasswords
<1>1. users[n] \in Accounts
  BY DEF IInv, TypeOK, StartupTypeOK
<1> QED BY <1>1 DEF Accounts

LEMMA JobType ==
    ASSUME IInv, NEW d \in Threads
    PROVE  /\ job[d] \in Jobs /\ job[d].name \in Names
           /\ Serving(d) /\ (pc[d] \in Admitted => ~job[d].late)
<1>1. job[d] \in Jobs
  BY DEF IInv, TypeOK
<1>2. job[d].name \in Names
  BY <1>1 DEF Jobs
<1> QED BY <1>1, <1>2 DEF IInv, Requested, EndedIsFinal

LEMMA VerifyStep ==
    ASSUME IInv, NEW d \in Threads, Verify(d)
    PROVE  IInv'
<1>1. /\ Step(d, "verify", "issue") /\ "issue" \in PCs \ Admitted
      /\ UNCHANGED <<startup, tokens, job, overtaken>>
  BY DEF Verify, PCs, Admitted
<1>2. /\ users[job[d].name] # NoUser
      /\ users[job[d].name].password = job[d].password
  BY DEF Verify, Verified, NoUser
<1>3. pc'[d] = "issue"
  BY <1>1, StepType
<1>4. Serving(d)'
  BY <1>1, <1>2, <1>3, UserIsAccount, JobType DEF Serving, Admitted, startup, tokens
<1> QED BY <1>1, <1>4, GoOn DEF PCs

LEMMA ConfirmStep ==
    ASSUME IInv, NEW d \in Threads,
           Confirm(d) \/ Require(d) \/ Exists(d)
    PROVE  IInv'
<1>1. PICK from \in Admitted, to \in Admitted :
        /\ Step(d, from, to) /\ UNCHANGED <<startup, tokens, job, overtaken>>
        /\ to # "confirm" /\ (to = "rotate" => from = "confirm")
  BY DEF Confirm, Require, Exists, Admitted
<1>2. pc[d] = from /\ pc'[d] = to
  BY <1>1, StepType DEF PCs
<1>3. Serving(d)' /\ ~job[d].late
  BY <1>1, <1>2, JobType DEF Serving, Admitted, startup, tokens
<1>4. from \in PCs \ {"idle"} /\ to \in PCs
  BY DEF PCs, Admitted
<1> QED BY <1>1, <1>3, <1>4, GoOn

LEMMA ResolveStep ==
    ASSUME IInv, NEW d \in Threads, Resolve(d)
    PROVE  IInv'
<1> DEFINE k == job[d].token
           to == Target(job[d].kind)
<1>1. /\ Step(d, "resolve", to) /\ to \in Admitted /\ to \in PCs
      /\ to \in {"confirm", "rotate"} => to = "confirm" /\ job[d].kind = "password"
      /\ UNCHANGED <<startup, tokens, overtaken>>
  BY DEF Resolve, Target, Admitted, PCs
<1>2. pc[d] = "resolve" /\ pc'[d] = to
  BY <1>1, StepType
<1>3. k \in 1..issued /\ k \in Tokens
  BY <1>2, JobType, LoginsAssumption DEF Serving, Tokens, IInv, TypeOK
<1>4. sessions[k] \in Rows /\ k \notin expired
      /\ users[sessions[k].user].status = "Active"
  BY <1>3 DEF Resolve, Admits, Live, IInv, TypeOK
<1>5. k \notin ended
  BY <1>3, <1>4, NoRowIsNoRow DEF IInv, Lives, Aged, Live
<1>6. ~job[d].late
  BY <1>5, JobType DEF Serving
<1>7. sessions[k].user \in Names /\ users[sessions[k].user] # NoUser
  BY <1>4 DEF Rows, NoUser
<1>8. /\ job'[d] \in Jobs /\ job'[d].kind = job[d].kind
      /\ job'[d].token = k /\ job'[d].late = job[d].late
      /\ job[d].kind = "password" => job'[d].name = sessions[k].user
  BY <1>7, JobType DEF Resolve, IInv, TypeOK, Jobs
<1>9. job' \in [Threads -> Jobs] /\ \A c \in Threads \ {d} : job'[c] = job[c]
  BY <1>8 DEF Resolve, IInv, TypeOK
<1>10. Serving(d)' /\ ~job'[d].late
  BY <1>1, <1>2, <1>3, <1>6, <1>7, <1>8 DEF Serving, Admitted, startup, tokens
<1>11. overtaken' \subseteq Threads
  BY <1>1 DEF IInv, TypeOK
<1> HIDE DEF to, k
<1> QED BY <1>1, <1>2, <1>9, <1>10, <1>11, StepType, OneThreadMoves, UpWhenBusy

LEMMA AskStep ==
    ASSUME IInv, NEW d \in Threads, NEW request \in Requests, Ask(d, request)
    PROVE  IInv'
<1>1. /\ request \in Jobs
      /\ request.kind # "login" => request.token \in 1..issued
      /\ request.late => request.token \in ended
  <2>0. issued \in 0..MaxTokens /\ passwords \in 0..MaxPasswords
    BY DEF IInv, TypeOK, StartupTypeOK
  <2>1. PICK kind \in Kinds, n \in Names, k \in 0..issued, p \in 0..passwords :
          request = Carrying(kind, n, k, p) /\ (kind # "login" => k # 0)
    <3>1. /\ "admin" \in Names /\ 0 \in 0..issued /\ 0 \in 0..passwords
          /\ 1..issued \subseteq (0..issued) \ {0}
          /\ 1..passwords \subseteq 0..passwords
      BY <2>0, StartupAssumption, LoginsAssumption
    <3>2. CASE \E n \in Names, p \in 1..passwords :
                 request = Carrying("login", n, 0, p)
      BY <3>1, <3>2 DEF Kinds
    <3>3. CASE \E k \in 1..issued, p \in 1..passwords :
                 request = Carrying("password", "admin", k, p)
      BY <3>1, <3>3 DEF Kinds
    <3>4. CASE \E n \in Names, k \in 1..issued :
                 request = Carrying("create", n, k, 0)
      BY <3>1, <3>4 DEF Kinds
    <3>5. CASE \E kind \in {"logout", "other"}, k \in 1..issued :
                 request = Carrying(kind, "admin", k, 0)
      BY <3>1, <3>5 DEF Kinds
    <3> QED BY <3>2, <3>3, <3>4, <3>5 DEF Requests, NoToken
  <2>2. p \in 0..MaxPasswords /\ k \in Tokens \cup {NoToken}
    BY <2>0, StartupAssumption, LoginsAssumption DEF Tokens, NoToken
  <2>3. k # 0 => k \in 1..issued
    BY <2>0, LoginsAssumption
  <2>4. /\ request.kind = kind /\ request.name = n /\ request.token = k
        /\ request.late = (k \in ended)
    BY <2>1 DEF Carrying
  <2>5. (k \in ended) \in BOOLEAN
    OBVIOUS
  <2>6. request \in Jobs
    BY <2>1, <2>2, <2>5, Zenon DEF Carrying, Jobs
  <2> QED BY <2>1, <2>3, <2>4, <2>6
<1>2. /\ Entry(request.kind) \in {"verify", "logout", "resolve"}
      /\ Entry(request.kind) \in {"logout", "resolve"} => request.kind # "login"
  BY DEF Entry
<1>3. /\ Step(d, "idle", Entry(request.kind)) /\ boot = "up"
      /\ UNCHANGED <<startup, tokens, overtaken>>
  BY DEF Ask
<1>4. /\ job' \in [Threads -> Jobs] /\ job'[d] = request
      /\ \A c \in Threads \ {d} : job'[c] = job[c]
  BY <1>1 DEF Ask, IInv, TypeOK
<1>5. Entry(request.kind) \in PCs
  BY <1>2 DEF PCs
<1>6. pc'[d] = Entry(request.kind)
  BY <1>3, <1>5, StepType
<1>7. Serving(d)' /\ pc'[d] \notin Admitted
  BY <1>1, <1>2, <1>3, <1>4, <1>6 DEF Serving, Admitted, tokens
<1>8. overtaken' \subseteq Threads
  BY <1>3 DEF IInv, TypeOK
<1> QED BY <1>3, <1>4, <1>5, <1>7, <1>8, StepType, OneThreadMoves

-----------------------------------------------------------------------------
(* Steps that change sessions.                                             *)

(* What is left of the invariant when a thread is done, the server is up,  *)
(* and nothing of the database but sessions has changed.                   *)
LEMMA SessionsMove ==
    ASSUME IInv, NEW d \in Threads, NEW from \in PCs \ {"idle"}, Finish(d, from),
           UNCHANGED startup, issued' \in issued..MaxTokens, ended \subseteq ended',
           sessions' \in [Tokens -> Rows \cup {NoRow}], expired' = expired,
           ended' \subseteq Tokens, Lives', SessionsFollowPassword'
    PROVE  IInv'
<1>1. boot = "up" /\ from \in PCs
  BY FinishType, UpWhenBusy
<1>2. issued' \in 0..MaxTokens /\ \A k \in 1..issued : k \in 1..issued'
  BY LoginsAssumption DEF IInv, TypeOK
<1>3. TypeOK'
  BY <1>2, FinishType DEF IInv, TypeOK, StartupTypeOK, startup, database, log
<1>4. DownIsIdle' /\ Booted' /\ ServesReady'
  BY <1>1 DEF IInv, DownIsIdle, Booted, ServesReady, NoUsers,
              startup, database, log
<1>5. Requested' /\ EndedIsFinal'
  <2> SUFFICES ASSUME NEW c \in Threads
               PROVE  Serving(c)' /\ (pc'[c] \in Admitted => ~job'[c].late)
    BY DEF Requested, EndedIsFinal, Admitted
  <2>1. CASE c = d
    BY <2>1, FinishType, IdleServes
  <2>2. CASE c # d
    <3>1. /\ pc'[c] = pc[c] /\ job'[c] = job[c]
          /\ c \in overtaken' <=> c \in overtaken
      BY <2>2, FinishType
    <3>2. Serving(c) /\ (pc[c] \in Admitted => ~job[c].late)
      BY JobType
    <3> QED BY <1>2, <3>1, <3>2 DEF Serving, startup, Admitted
  <2> QED BY <2>1, <2>2
<1> QED BY <1>3, <1>4, <1>5 DEF IInv

LEMMA IssueStep ==
    ASSUME IInv, NEW d \in Threads, Issue(d)
    PROVE  IInv'
<1> DEFINE n == job[d].name
           fresh == Row(n, job[d].password, d \in overtaken)
<1>1. Finish(d, "issue") /\ "issue" \in PCs \ {"idle"} /\ pc[d] = "issue"
  BY FinishType DEF Issue, PCs
<1>2. /\ n \in Names /\ users[n] # NoUser
      /\ job[d].password \in 1..MaxPasswords
      /\ d \notin overtaken => users[n].password = job[d].password
  BY <1>1, JobType DEF Serving
<1>3. /\ fresh \in Rows /\ fresh.user = n /\ fresh.raced = (d \in overtaken)
      /\ fresh.password = job[d].password
  <2>1. (d \in overtaken) \in BOOLEAN
    OBVIOUS
  <2> QED BY <1>2, <2>1 DEF Row, Rows
<1>4. /\ issued' = issued + 1 /\ issued' \in issued..MaxTokens
      /\ issued' \in Tokens /\ issued \in 0..MaxTokens
  BY LoginsAssumption DEF Issue, IInv, TypeOK, Tokens
<1>5. sessions' = [sessions EXCEPT ![issued'] = fresh]
  BY DEF Issue
<1> HIDE DEF fresh
<1>6. sessions'[issued'] = fresh /\ fresh # NoRow
      /\ \A k \in Tokens : k # issued' => sessions'[k] = sessions[k]
  BY <1>3, <1>4, <1>5, NoRowIsNoRow DEF IInv, TypeOK
<1>7. UNCHANGED <<startup, expired, ended>>
  BY DEF Issue
<1>8. issued' \notin ended /\ issued' \notin expired
  BY <1>4 DEF IInv, Lives, Aged
<1>9. Lives'
  <2> SUFFICES ASSUME NEW k \in Tokens PROVE Aged(k)'
    BY DEF Lives, Tokens
  <2>1. Aged(k) /\ k \in Nat
    BY DEF IInv, Lives, Tokens
  <2>2. CASE k = issued'
    BY <1>2, <1>3, <1>6, <1>7, <1>8, <2>1, <2>2 DEF Aged, startup
  <2>3. CASE k # issued'
    BY <1>4, <1>6, <1>7, <2>1, <2>3 DEF Aged, Live, startup
  <2> QED BY <2>2, <2>3
<1>10. SessionsFollowPassword'
  <2> SUFFICES ASSUME NEW k \in Tokens, sessions'[k] # NoRow, ~sessions'[k].raced
               PROVE  sessions'[k].password = users'[sessions'[k].user].password
    BY DEF SessionsFollowPassword, Tokens
  <2>1. CASE k = issued'
    BY <1>2, <1>3, <1>6, <1>7, <2>1 DEF startup
  <2>2. CASE k # issued'
    BY <1>6, <1>7, <2>2 DEF startup, IInv, SessionsFollowPassword
  <2> QED BY <2>1, <2>2
<1>11. sessions' \in [Tokens -> Rows \cup {NoRow}]
  BY <1>3, <1>5 DEF IInv, TypeOK
<1>12. ended' \subseteq Tokens
  BY <1>7 DEF IInv, TypeOK
<1> QED BY <1>1, <1>4, <1>7, <1>9, <1>10, <1>11, <1>12, SessionsMove

(* Rows go, and tokens may end.                                            *)
LEMMA SessionsGo ==
    ASSUME IInv, NEW d \in Threads, NEW from \in PCs \ {"idle"}, Finish(d, from),
           UNCHANGED <<startup, issued, expired>>,
           sessions' \in [Tokens -> Rows \cup {NoRow}],
           ended \subseteq ended', ended' \subseteq 1..issued,
           \A k \in Tokens : /\ sessions'[k] \in {sessions[k], NoRow}
                             /\ k \in ended' \ ended => sessions'[k] = NoRow
                             /\ sessions'[k] # sessions[k] => k \in ended'
    PROVE  IInv'
<1>1. Lives'
  <2> SUFFICES ASSUME NEW k \in Tokens PROVE Aged(k)'
    BY DEF Lives, Tokens
  <2>1. Aged(k)
    BY DEF IInv, Lives
  <2>2. k \in ended' => k <= issued
    BY DEF IInv, TypeOK
  <2> QED BY <2>1, <2>2 DEF Aged, Live, startup
<1>2. SessionsFollowPassword'
  BY DEF IInv, SessionsFollowPassword, startup, Tokens
<1>3. issued' \in issued..MaxTokens /\ ended' \subseteq Tokens
  BY LoginsAssumption DEF IInv, TypeOK, Tokens
<1> QED BY <1>1, <1>2, <1>3, SessionsMove

LEMMA LogoutStep ==
    ASSUME IInv, NEW d \in Threads, Logout(d)
    PROVE  IInv'
<1> DEFINE k == job[d].token
<1>1. Finish(d, "logout") /\ "logout" \in PCs \ {"idle"} /\ pc[d] = "logout"
  BY FinishType DEF Logout, PCs
<1>2. k \in 1..issued
  BY <1>1, JobType DEF Serving
<1>3. \A j \in Tokens : j \in ended => j \in 1..issued
  BY LoginsAssumption DEF IInv, Lives, Aged, TypeOK, Tokens
<1>4. /\ ended \subseteq ended' /\ ended' \subseteq 1..issued
      /\ sessions' \in [Tokens -> Rows \cup {NoRow}]
      /\ UNCHANGED <<startup, issued, expired>>
  BY <1>2, <1>3 DEF Logout, IInv, TypeOK
<1>5. \A j \in Tokens : /\ sessions'[j] \in {sessions[j], NoRow}
                        /\ j \in ended' \ ended => sessions'[j] = NoRow
                        /\ sessions'[j] # sessions[j] => j \in ended'
  BY DEF Logout, IInv, TypeOK
<1> QED BY <1>1, <1>4, <1>5, SessionsGo

LEMMA TurnAwayStep ==
    ASSUME IInv, NEW d \in Threads, TurnAway(d)
    PROVE  IInv'
<1>1. PICK from \in {"resolve", "require"} : Finish(d, from)
  BY DEF TurnAway
<1>2. from \in PCs \ {"idle"}
  BY DEF PCs, Admitted
<1>3. \A j \in Tokens : j \in ended => j \in 1..issued
  BY LoginsAssumption DEF IInv, Lives, Aged, TypeOK, Tokens
<1>4. /\ ended' = ended /\ ended \subseteq 1..issued
      /\ sessions' \in [Tokens -> Rows \cup {NoRow}]
      /\ UNCHANGED <<startup, issued, expired>>
  BY <1>3 DEF TurnAway, IInv, TypeOK
<1>5. \A j \in Tokens : /\ sessions'[j] \in {sessions[j], NoRow}
                        /\ sessions'[j] # sessions[j] => j \in ended'
  BY <1>4 DEF TurnAway, IInv, TypeOK, Lives, Aged
<1> QED BY <1>1, <1>2, <1>4, <1>5, SessionsGo

-----------------------------------------------------------------------------
(* Steps that change users.                                                *)

LEMMA FewerIn ==
    ASSUME NEW K, NEW p \in Nat, NEW q \in Nat, p <= q, K \subseteq 1..p
    PROVE  K \subseteq 1..q
<1>1. \A k \in 1..p : k \in 1..q
  OBVIOUS
<1> QED BY <1>1

LEMMA RotateStep ==
    ASSUME IInv, NEW d \in Threads, Rotate(d)
    PROVE  IInv'
<1> DEFINE n == job[d].name
           fresh == passwords + 1
           row == Row(n, fresh, FALSE)
<1>1. /\ Step(d, "rotate", "idle") /\ pc[d] = "rotate" /\ pc'[d] = "idle"
      /\ boot = "up"
  BY StepType, UpWhenBusy DEF Rotate, PCs
<1>2. n \in Names /\ users[n] # NoUser /\ users[n] \in Accounts
  BY <1>1, JobType, UserIsAccount DEF Serving
<1>3. /\ fresh \in 1..MaxPasswords /\ passwords \in 0..MaxPasswords
      /\ passwords' = fresh /\ known' = known \cup {fresh}
      /\ fresh \in 0..MaxPasswords /\ known \cup {fresh} \subseteq 1..fresh
      /\ buffered \in 0..fresh
  <2>1. /\ passwords < MaxPasswords /\ passwords' = fresh
        /\ known' = known \cup {fresh}
    BY DEF Rotate
  <2>2. fresh \in 1..MaxPasswords /\ passwords \in 0..MaxPasswords
        /\ fresh \in Nat /\ passwords <= fresh /\ fresh \in 1..fresh
        /\ buffered \in 0..fresh
    BY <2>1, Counted
  <2>3. known \subseteq 1..fresh
    BY <2>2, Counted, FewerIn
  <2> HIDE DEF fresh
  <2>4. known \cup {fresh} \subseteq 1..fresh
    BY <2>2, <2>3
  <2> QED BY <2>1, <2>2, <2>4
<1>4. row \in Rows /\ row.user = n /\ row.password = fresh /\ row # NoRow
  <2>1. row \in Rows /\ row.user = n /\ row.password = fresh
    BY <1>2, <1>3 DEF Row, Rows
  <2> QED BY <2>1, NoRowIsNoRow
<1> HIDE DEF row
<1>5. /\ users' = [users EXCEPT ![n].password = fresh]
      /\ UNCHANGED <<boot, database, buffered, expired>>
  BY DEF Rotate
<1>6. /\ users'[n] = [users[n] EXCEPT !.password = fresh]
      /\ users'[n] \in Accounts /\ users'[n] # NoUser
      /\ users'[n].password = fresh
      /\ \A m \in Names : m # n => users'[m] = users[m]
      /\ users' \in [Names -> Accounts \cup {NoUser}]
  <2>1. /\ users'[n] = [users[n] EXCEPT !.password = fresh]
        /\ \A m \in Names : m # n => users'[m] = users[m]
    BY <1>2, <1>5 DEF IInv, TypeOK, StartupTypeOK
  <2>2. users'[n] \in Accounts /\ users'[n].password = fresh
    BY <1>2, <1>3, <2>1 DEF Accounts
  <2>3. users' \in [Names -> Accounts \cup {NoUser}]
    BY <1>2, <1>5, <2>1, <2>2 DEF IInv, TypeOK, StartupTypeOK
  <2> QED BY <2>1, <2>2, <2>3, NoUserIsNoAccount
<1>7. /\ issued' = issued + 1 /\ issued' \in Tokens /\ issued \in 0..MaxTokens
      /\ issued' \in 0..MaxTokens /\ \A k \in 1..issued : k \in 1..issued'
  BY LoginsAssumption DEF Rotate, IInv, TypeOK, Tokens
<1>8. /\ sessions'[issued'] = row
      /\ \A k \in Tokens : k # issued' =>
            sessions'[k] = IF sessions[k].user = n THEN NoRow ELSE sessions[k]
      /\ sessions' \in [Tokens -> Rows \cup {NoRow}]
  BY <1>4, <1>7 DEF Rotate, Surviving, IInv, TypeOK, row
<1>9. ended' = ended \cup {k \in Tokens : sessions[k].user = n}
  BY DEF Rotate
<1>10. \A k \in Tokens : sessions[k].user = n => sessions[k] # NoRow
  BY <1>2, StartupAssumption DEF NoRow
<1>11. /\ job' \in [Threads -> Jobs] /\ job'[d] = NoJob
       /\ \A c \in Threads \ {d} : job'[c] = job[c]
  BY NoJobType DEF Rotate, IInv, TypeOK
<1>12. overtaken' = {c \in Threads : c \in overtaken \/
                                        (pc[c] = "issue" /\ job[c].name = n)}
  BY DEF Rotate
<1>13. StartupTypeOK'
  <2> HIDE DEF fresh
  <2> QED BY <1>3, <1>5, <1>6 DEF IInv, TypeOK, StartupTypeOK, database
<1>14. TypeOK'
  <2>1. pc' \in [Threads -> PCs]
    BY <1>1, StepType DEF PCs
  <2> QED BY <1>5, <1>7, <1>8, <1>9, <1>11, <1>12, <1>13, <2>1 DEF IInv, TypeOK
<1>15. \A m \in Names : users[m] # NoUser => users'[m] # NoUser
  BY <1>6
<1>16. DownIsIdle' /\ Booted' /\ ServesReady'
  BY <1>1, <1>2, <1>5, <1>6, StartupAssumption
     DEF IInv, DownIsIdle, Booted, ServesReady, NoUsers, database
<1>18. Requested' /\ EndedIsFinal'
  <2> SUFFICES ASSUME NEW c \in Threads
               PROVE  Serving(c)' /\ (pc'[c] \in Admitted => ~job'[c].late)
    BY DEF Requested, EndedIsFinal, Admitted
  <2>1. CASE c = d
    BY <1>1, <1>11, <2>1, IdleServes
  <2>2. CASE c # d
    <3>1. pc'[c] = pc[c] /\ job'[c] = job[c]
      BY <1>1, <1>11, <2>2, StepType DEF PCs
    <3>2. /\ Serving(c) /\ (pc[c] \in Admitted => ~job[c].late)
          /\ job[c].name \in Names
      BY JobType
    <3>3. pc[c] = "issue" /\ c \notin overtaken' =>
            c \notin overtaken /\ users'[job[c].name] = users[job[c].name]
      BY <1>6, <1>12, <3>2
    <3>4. pc[c] = "issue" \/ pc[c] \in {"confirm", "rotate"} =>
            (users[job[c].name] # NoUser => users'[job[c].name] # NoUser)
      BY <1>15, <3>2
    <3> QED BY <1>7, <1>9, <3>1, <3>2, <3>3, <3>4 DEF Serving, Admitted
  <2> QED BY <2>1, <2>2
<1>19. issued' \notin ended /\ issued' \notin expired
       /\ sessions[issued'] = NoRow
  BY <1>7 DEF IInv, Lives, Aged
<1>20. Lives'
  <2> SUFFICES ASSUME NEW k \in Tokens PROVE Aged(k)'
    BY DEF Lives, Tokens
  <2>1. Aged(k) /\ k \in Nat
    BY DEF IInv, Lives, Tokens
  <2>2. CASE k = issued'
    <3>1. k \notin ended'
      BY <1>9, <1>10, <1>19, <2>2
    <3> QED BY <1>4, <1>5, <1>6, <1>7, <1>8, <1>19, <2>1, <2>2, <3>1 DEF Aged
  <2>3. CASE k # issued'
    <3>1. sessions'[k] # NoRow => sessions'[k] = sessions[k] /\ sessions[k] \in Rows
      BY <1>8, <2>3 DEF IInv, TypeOK
    <3>2. sessions'[k] # NoRow => users'[sessions'[k].user] # NoUser
      BY <1>15, <2>1, <3>1 DEF Aged, Rows
    <3> QED BY <1>5, <1>7, <1>8, <1>9, <1>10, <2>1, <2>3, <3>1, <3>2 DEF Aged, Live
  <2> QED BY <2>2, <2>3
<1>21. SessionsFollowPassword'
  <2> SUFFICES ASSUME NEW k \in Tokens, sessions'[k] # NoRow, ~sessions'[k].raced
               PROVE  sessions'[k].password = users'[sessions'[k].user].password
    BY DEF SessionsFollowPassword, Tokens
  <2>1. CASE k = issued'
    BY <1>4, <1>6, <1>8, <2>1
  <2>2. CASE k # issued'
    <3>1. /\ sessions'[k] = sessions[k] /\ sessions[k] \in Rows
          /\ sessions[k].user # n /\ sessions[k].user \in Names
      BY <1>8, <2>2 DEF IInv, TypeOK, Rows
    <3> QED BY <1>6, <3>1 DEF IInv, SessionsFollowPassword
  <2> QED BY <2>1, <2>2
<1> QED BY <1>14, <1>16, <1>18, <1>20, <1>21 DEF IInv

(* A user appears, or one's status changes; passwords stay.                *)
LEMMA UsersMove ==
    ASSUME IInv, UNCHANGED <<boot, database, log, tokens>>, boot = "up",
           users' \in [Names -> Accounts \cup {NoUser}],
           passwords' \in passwords..MaxPasswords,
           \A n \in Names : users[n] # NoUser =>
              users'[n] # NoUser /\ users'[n].password = users[n].password,
           pc' \in [Threads -> PCs], job' \in [Threads -> Jobs],
           overtaken' \subseteq Threads,
           \A d \in Threads : \/ pc'[d] = "idle" /\ job'[d] = NoJob
                              \/ /\ pc'[d] = pc[d] /\ job'[d] = job[d]
                                 /\ d \in overtaken' <=> d \in overtaken
    PROVE  IInv'
<1>1. /\ passwords' \in 0..MaxPasswords /\ known' \subseteq 1..passwords'
      /\ buffered' \in 0..passwords'
  <2>1. passwords' \in Nat /\ passwords <= passwords' /\ passwords' <= MaxPasswords
    BY Counted
  <2>2. known' = known /\ buffered' = buffered
    BY DEF log
  <2> QED BY <2>1, <2>2, Counted, FewerIn
<1>2. TypeOK'
  BY <1>1 DEF IInv, TypeOK, StartupTypeOK, database, tokens
<1>3. users["admin"] # NoUser
  BY DEF IInv, Booted, ServesReady
<1>4. /\ users'["admin"] # NoUser
      /\ users'["admin"].password = users["admin"].password
  BY <1>3, StartupAssumption
<1>5. DownIsIdle' /\ Booted' /\ ServesReady'
  BY <1>3, <1>4, StartupAssumption
     DEF IInv, DownIsIdle, Booted, ServesReady, NoUsers, database
<1>6. Requested' /\ EndedIsFinal'
  <2> SUFFICES ASSUME NEW d \in Threads
               PROVE  Serving(d)' /\ (pc'[d] \in Admitted => ~job'[d].late)
    BY DEF Requested, EndedIsFinal, Admitted
  <2>1. CASE pc'[d] = "idle" /\ job'[d] = NoJob
    BY <2>1, IdleServes
  <2>2. CASE /\ pc'[d] = pc[d] /\ job'[d] = job[d]
             /\ d \in overtaken' <=> d \in overtaken
    BY <2>2, JobType DEF Serving, tokens, Admitted
  <2> QED BY <2>1, <2>2
<1>7. \A k \in Tokens : sessions[k] # NoRow =>
        /\ users'[sessions[k].user] # NoUser
        /\ users'[sessions[k].user].password = users[sessions[k].user].password
  BY DEF IInv, Lives, Aged, TypeOK, Rows
<1>8. Lives' /\ SessionsFollowPassword'
  BY <1>7 DEF IInv, Lives, Aged, Live, SessionsFollowPassword, tokens
<1> QED BY <1>2, <1>5, <1>6, <1>8 DEF IInv

LEMMA CreateStep ==
    ASSUME IInv, NEW d \in Threads, NEW role \in Roles, Create(d, role)
    PROVE  IInv'
<1> DEFINE n == job[d].name
<1>1. /\ users[n] = NoUser /\ Finish(d, "create") /\ "create" \in PCs
      /\ passwords < MaxPasswords /\ passwords' = passwords + 1
      /\ users' = [users EXCEPT ![n] = Account(passwords', role)]
      /\ UNCHANGED <<boot, database, log, tokens>>
  BY DEF Create, Insert, PCs, Admitted
<1>2. /\ passwords' \in 1..MaxPasswords /\ passwords' \in passwords..MaxPasswords
  BY <1>1, Counted
<1>3. users' \in [Names -> Accounts \cup {NoUser}]
  BY <1>1, <1>2, AccountType DEF IInv, TypeOK, StartupTypeOK
<1>4. \A m \in Names : users[m] # NoUser => users'[m] = users[m]
  BY <1>1 DEF IInv, TypeOK, StartupTypeOK
<1>5. boot = "up"
  BY <1>1, FinishType, UpWhenBusy
<1>6. \A c \in Threads : \/ pc'[c] = "idle" /\ job'[c] = NoJob
                         \/ /\ pc'[c] = pc[c] /\ job'[c] = job[c]
                            /\ c \in overtaken' <=> c \in overtaken
  BY <1>1, FinishType
<1> QED BY <1>1, <1>2, <1>3, <1>4, <1>5, <1>6, FinishType, UsersMove

LEMMA SetStatusStep ==
    ASSUME IInv, NEW n \in Names, NEW status \in {"Active", "Suspended"},
           SetStatus(n, status)
    PROVE  IInv'
<1>1. /\ boot = "up" /\ users[n] \in Accounts
      /\ users' = [users EXCEPT ![n].status = status]
      /\ UNCHANGED <<boot, database, passwords, log, tokens, thread>>
  BY UserIsAccount DEF SetStatus
<1>2. users'[n] \in Accounts /\ users'[n].password = users[n].password
  BY <1>1 DEF IInv, TypeOK, StartupTypeOK, Accounts
<1>3. /\ users' \in [Names -> Accounts \cup {NoUser}]
      /\ \A m \in Names : m # n => users'[m] = users[m]
  BY <1>1, <1>2 DEF IInv, TypeOK, StartupTypeOK
<1>4. passwords' \in passwords..MaxPasswords
  BY <1>1, Counted
<1>5. /\ pc' \in [Threads -> PCs] /\ job' \in [Threads -> Jobs]
      /\ overtaken' \subseteq Threads
  BY <1>1 DEF IInv, TypeOK, thread
<1>6. \A m \in Names : users[m] # NoUser =>
         users'[m] # NoUser /\ users'[m].password = users[m].password
  BY <1>2, <1>3, NoUserIsNoAccount
<1> QED BY <1>1, <1>3, <1>4, <1>5, <1>6, UsersMove DEF thread

-----------------------------------------------------------------------------
(* The other steps.                                                        *)

LEMMA ExpireStep ==
    ASSUME IInv, NEW k \in Tokens, Expire(k)
    PROVE  IInv'
<1>1. /\ Live(k) /\ expired' = expired \cup {k} /\ ended' = ended \cup {k}
      /\ UNCHANGED <<startup, issued, sessions, pc, job, overtaken>>
  BY DEF Expire, thread
<1>2. TypeOK'
  BY <1>1 DEF IInv, TypeOK, StartupTypeOK, startup, database, log
<1>3. DownIsIdle' /\ Booted' /\ ServesReady'
  BY <1>1 DEF IInv, DownIsIdle, Booted, ServesReady, NoUsers,
              startup, database, log
<1>4. Requested' /\ EndedIsFinal'
  BY <1>1 DEF IInv, Requested, Serving, EndedIsFinal, startup
<1>5. Lives'
  BY <1>1 DEF IInv, Lives, Aged, Live, startup, Tokens
<1>6. SessionsFollowPassword'
  BY <1>1 DEF IInv, SessionsFollowPassword, startup, Tokens
<1> QED BY <1>2, <1>3, <1>4, <1>5, <1>6 DEF IInv

LEMMA StopStep ==
    ASSUME IInv, Stop
    PROVE  IInv'
<1>1. /\ boot' = "off" /\ UNCHANGED <<database, users, passwords, known, tokens>>
      /\ pc' = [d \in Threads |-> "idle"] /\ job' = [d \in Threads |-> NoJob]
      /\ overtaken' = {} /\ buffered' = 0 /\ 0 \in 0..passwords
  BY Counted DEF Stop
<1>2. TypeOK'
  BY <1>1, NoJobType DEF IInv, TypeOK, StartupTypeOK, PCs, database, tokens
<1>3. DownIsIdle' /\ Booted' /\ ServesReady'
  BY <1>1 DEF IInv, DownIsIdle, Booted, ServesReady, NoUsers,
              database
<1>4. Requested' /\ EndedIsFinal'
  BY <1>1, IdleServes DEF Requested, EndedIsFinal, Admitted
<1>5. Lives' /\ SessionsFollowPassword'
  BY <1>1 DEF IInv, Lives, Aged, Live, SessionsFollowPassword, tokens
<1> QED BY <1>2, <1>3, <1>4, <1>5 DEF IInv

LEMMA ThreadStepKeeps ==
    ASSUME IInv, NEW d \in Threads, ThreadStep(d)
    PROVE  IInv'
<1>1. CASE \/ Refuse(d) \/ Run(d) \/ RefuseChange(d) \/ Forbid(d) \/ Conflict(d)
  BY <1>1, FinishQuietly DEF Refuse, Run, RefuseChange, Forbid, Conflict, PCs,
                             Admitted
<1>2. CASE Fail(d)
  BY <1>2, FinishQuietly DEF Fail
<1>3. CASE Confirm(d) \/ Require(d) \/ Exists(d)
  BY <1>3, ConfirmStep
<1>4. CASE Verify(d) \/ Resolve(d) \/ Issue(d) \/ Logout(d) \/ TurnAway(d)
  BY <1>4, VerifyStep, ResolveStep, IssueStep, LogoutStep, TurnAwayStep
<1>5. CASE Rotate(d) \/ \E role \in Roles : Create(d, role)
  BY <1>5, RotateStep, CreateStep
<1> QED BY <1>1, <1>2, <1>3, <1>4, <1>5 DEF ThreadStep

LEMMA StutterKeeps == IInv /\ UNCHANGED vars => IInv'
<1> SUFFICES ASSUME IInv, UNCHANGED vars PROVE IInv'
  OBVIOUS
<1>1. UNCHANGED <<tokens, thread, users>> /\ StartupTypeOK'
  BY DEF vars, startup, IInv, TypeOK, StartupTypeOK, database, log
<1>2. DownIsIdle' /\ Booted' /\ ServesReady'
  BY DEF IInv, DownIsIdle, Booted, ServesReady, NoUsers,
         vars, startup, database, log, thread
<1> QED BY <1>1, <1>2, Untouched, TypeUntouched DEF IInv

LEMMA InvStep == IInv /\ [Next]_vars => IInv'
<1> SUFFICES ASSUME IInv, Next PROVE IInv'
  BY StutterKeeps
<1> QED BY BootStepKeeps, FlushStep, ThreadStepKeeps, AskStep, ExpireStep,
           SetStatusStep, StopStep DEF Next

LEMMA Invariant == Spec => []IInv
BY InvInit, InvStep, PTL DEF Spec

(* Startup's and Logins' variables keep their types.                       *)
THEOREM TypeCorrect == Spec => []TypeOK
<1>1. IInv => TypeOK
  BY DEF IInv
<1> QED BY <1>1, Invariant, PTL

(* A server that takes requests has schema, policy, rules, keys and a user,*)
(* wherever earlier starts were cut short.  (init_schema)                  *)
THEOREM ReadyWhenUp == Spec => []ServesReady
<1>1. IInv => ServesReady
  BY DEF IInv
<1> QED BY <1>1, Invariant, PTL

(* Whoever is logged in is so by the current password, but for a login     *)
(* that overlapped the change.  (change_password, login)                   *)
THEOREM SessionsRestOnPassword == Spec => []SessionsFollowPassword
<1>1. IInv => SessionsFollowPassword
  BY DEF IInv
<1> QED BY <1>1, Invariant, PTL

(* A request whose token had ended when it came is never let in.           *)
(* (resolve_session)                                                       *)
THEOREM EndedTokensAdmitNobody == Spec => []EndedIsFinal
<1>1. IInv => EndedIsFinal
  BY DEF IInv
<1> QED BY <1>1, Invariant, PTL

-----------------------------------------------------------------------------
(* What steps may not do.                                                  *)

LEMMA BootStepFills ==
    ASSUME IInv, [Next]_vars, boot # "up"
    PROVE  /\ \A key \in SettingKeys : settings[key] # "none"
                                       => settings'[key] = settings[key]
           /\ \A a \in Agents : keys[a] # "null" => keys'[a] = keys[a]
           /\ UNCHANGED sessions
<1>1. CASE (BootStep \/ Flush) /\ UNCHANGED <<tokens, thread>>
  <2>1. CASE CommitBoot
    BY <1>1, <2>1 DEF CommitBoot, Seeded, Backfilled, tokens
  <2>2. CASE UNCHANGED <<settings, keys>>
    BY <1>1, <2>2 DEF tokens
  <2> QED BY <1>1, <2>1, <2>2
          DEF BootStep, Start, Fill, CreateTable, AddColumn, Flush, database
<1>2. CASE Stop \/ UNCHANGED vars \/ \E k \in Tokens : Expire(k)
  BY <1>2 DEF Stop, vars, Expire, startup, database, tokens
<1>3. ~\E d \in Threads : ThreadStep(d)
  <2> SUFFICES ASSUME NEW d \in Threads, ThreadStep(d) PROVE FALSE
    OBVIOUS
  <2>1. pc[d] # "idle"
    BY DEF ThreadStep, Verify, Refuse, Issue, Logout, Resolve, TurnAway, Run,
           Confirm, RefuseChange, Rotate, Require, Forbid, Exists, Conflict,
           Create, Insert, Fail, Finish, Step
  <2> QED BY <2>1, UpWhenBusy
<1>4. CASE \/ \E d \in Threads, request \in Requests : Ask(d, request)
           \/ \E n \in Names, status \in {"Active", "Suspended"} :
                SetStatus(n, status)
  BY <1>4 DEF Ask, SetStatus
<1> QED BY <1>1, <1>2, <1>3, <1>4 DEF Next

(* A start leaves alone what it finds.  (_seed, _migrate)                  *)
THEOREM StartsOnlyFillGaps == Spec => BootOnlyFillsGaps
<1>1. IInv /\ [Next]_vars =>
        [boot # "up" =>
           /\ \A key \in SettingKeys : settings[key] # "none"
                                       => settings'[key] = settings[key]
           /\ \A a \in Agents : keys[a] # "null" => keys'[a] = keys[a]
           /\ UNCHANGED sessions]_vars
  BY BootStepFills
<1> QED BY <1>1, Invariant, PTL DEF Spec, BootOnlyFillsGaps

LEMMA UsersStay ==
    ASSUME IInv, [Next]_vars, NEW n \in Names, users[n] # NoUser
    PROVE  /\ users'[n].role = users[n].role
           /\ users'[n].password # users[n].password =>
                \E d \in Threads : /\ job[d].kind = "password" /\ job[d].name = n
                                   /\ pc[d] = "rotate" /\ pc'[d] = "idle"
<1>0. users[n] \in Accounts /\ users \in [Names -> Accounts \cup {NoUser}]
  BY UserIsAccount DEF IInv, TypeOK, StartupTypeOK
<1>1. CASE users'[n] = users[n]
  BY <1>1
<1>2. ASSUME NEW d \in Threads, ThreadStep(d), users'[n] # users[n]
      PROVE  Rotate(d) /\ job[d].name = n
  <2>1. CASE UNCHANGED startup
    BY <1>2, <2>1 DEF startup
  <2>2. ASSUME NEW role \in Roles, Create(d, role) PROVE users'[n] = users[n]
    BY <1>0, <2>2 DEF Create, Insert
  <2>3. CASE Rotate(d)
    BY <1>0, <1>2, <2>3 DEF Rotate
  <2> QED BY <1>2, <2>1, <2>2, <2>3
          DEF ThreadStep, Verify, Refuse, Issue, Logout, Resolve, TurnAway, Run,
              Confirm, RefuseChange, Require, Forbid, Exists, Conflict, Fail
<1>3. ASSUME NEW d \in Threads, Rotate(d), job[d].name = n
      PROVE  /\ users'[n].role = users[n].role
             /\ job[d].kind = "password" /\ pc[d] = "rotate" /\ pc'[d] = "idle"
  <2>1. pc[d] = "rotate" /\ pc'[d] = "idle"
    BY <1>3, StepType DEF Rotate, PCs
  <2>2. job[d].kind = "password"
    BY <2>1, JobType DEF Serving
  <2>3. users'[n].role = users[n].role
    BY <1>0, <1>3 DEF Rotate, Accounts
  <2> QED BY <2>1, <2>2, <2>3
<1>4. ASSUME NEW m \in Names, NEW status, SetStatus(m, status)
      PROVE  users'[n].role = users[n].role /\ users'[n].password = users[n].password
  BY <1>0, <1>4 DEF SetStatus, Accounts
<1>5. CASE BootStep \/ Flush
  <2>1. ~NoUsers
    BY DEF NoUsers
  <2> QED BY <1>1, <1>5, <2>1 DEF BootStep, Start, Fill, CommitBoot, CreateTable,
                                 AddColumn, Flush
<1>6. CASE \/ Stop \/ UNCHANGED vars \/ \E k \in Tokens : Expire(k)
           \/ \E d \in Threads, request \in Requests : Ask(d, request)
  BY <1>1, <1>6 DEF Stop, vars, Expire, Ask, startup
<1> QED BY <1>1, <1>2, <1>3, <1>4, <1>5, <1>6 DEF Next

(* No user's row is lost or replaced, and only its own user's request      *)
(* changes its password.  (create_user, change_password, _bootstrap_admin) *)
THEOREM AccountsAreKept == Spec => AccountsKept
<1>1. IInv /\ [Next]_vars =>
        [\A n \in Names : users[n] # NoUser =>
           /\ users'[n].role = users[n].role
           /\ users'[n].password # users[n].password =>
                \E d \in Threads : /\ job[d].kind = "password" /\ job[d].name = n
                                   /\ pc[d] = "rotate" /\ pc'[d] = "idle"]_vars
  BY UsersStay
<1> QED BY <1>1, Invariant, PTL DEF Spec, AccountsKept

-----------------------------------------------------------------------------
(* The admin's password.                                                   *)

LEMMA ThreadIsBusy ==
    ASSUME NEW d \in Threads, ThreadStep(d)
    PROVE  pc[d] # "idle"
BY DEF ThreadStep, Verify, Refuse, Issue, Logout, Resolve, TurnAway, Run,
       Confirm, RefuseChange, Rotate, Require, Forbid, Exists, Conflict,
       Create, Insert, Fail, Finish, Step

LEMMA AdminStays ==
    ASSUME IInv, AdminIsReachable, [Next]_vars
    PROVE  \/ AdminIsReachable'
           \/ boot = "up" /\ boot' = "off" /\ buffered # 0
<1>0. /\ "admin" \in Names /\ users \in [Names -> Accounts \cup {NoUser}]
      /\ users["admin"] = NoUser => NoUsers
      /\ boot = "up" => users["admin"] # NoUser
  BY StartupAssumption DEF IInv, TypeOK, StartupTypeOK, Booted, ServesReady
<1>1. CASE UNCHANGED <<users, known, buffered>>
  BY <1>1 DEF AdminIsReachable
<1>2. CASE BootStep
  <2>1. CASE Fill
    <3>1. users' = users /\ known' = known /\ (~NoUsers => buffered' = buffered)
      BY <2>1 DEF Fill
    <3>2. CASE NoUsers
      BY <1>0, <3>1, <3>2 DEF NoUsers, AdminIsReachable
    <3> QED BY <3>1, <3>2, <1>1
  <2>2. CASE CommitBoot
    <3>1. CASE NoUsers
      <4>1. /\ users'["admin"] = Account(passwords, "admin")
            /\ passwords \in known \cup {buffered}
            /\ known' = known /\ buffered' = buffered
        BY <1>0, <2>2, <3>1 DEF CommitBoot, IInv, Booted, log
      <4> QED BY <4>1 DEF AdminIsReachable, Account
    <3>2. CASE ~NoUsers
      BY <1>1, <2>2, <3>2 DEF CommitBoot, log
    <3> QED BY <3>1, <3>2
  <2> QED BY <1>1, <1>2, <2>1, <2>2
          DEF BootStep, Start, CreateTable, AddColumn, log
<1>3. CASE Flush
  BY <1>3 DEF Flush, AdminIsReachable
<1>4. CASE Stop
  <2>1. /\ boot' = "off" /\ buffered' = 0
        /\ UNCHANGED <<users, known>>
    BY <1>4 DEF Stop
  <2>2. CASE buffered = 0
    BY <1>1, <2>1, <2>2
  <2>3. CASE boot = "filled" /\ NoUsers
    BY <1>0, <2>1, <2>3 DEF NoUsers, AdminIsReachable
  <2>4. boot = "up" \/ buffered = 0 \/ (boot = "filled" /\ NoUsers)
    BY DEF IInv, TypeOK, StartupTypeOK, Booted
  <2> QED BY <2>1, <2>2, <2>3, <2>4
<1>5. ASSUME NEW d \in Threads, ThreadStep(d) PROVE AdminIsReachable'
  <2>0. users["admin"] # NoUser
    BY <1>0, <1>5, ThreadIsBusy, UpWhenBusy
  <2>1. CASE UNCHANGED startup
    BY <1>1, <2>1 DEF startup, log, AdminIsReachable
  <2>2. ASSUME NEW role \in Roles, Create(d, role) PROVE AdminIsReachable'
    <3>1. users'["admin"] = users["admin"] /\ known' = known /\ buffered' = buffered
      BY <1>0, <2>0, <2>2 DEF Create, Insert, log
    <3> QED BY <3>1 DEF AdminIsReachable
  <2>3. CASE Rotate(d)
    <3>1. /\ known' = known \cup {passwords + 1} /\ buffered' = buffered
          /\ users' = [users EXCEPT ![job[d].name].password = passwords + 1]
      BY <2>3 DEF Rotate
    <3>2. users'["admin"].password \in {passwords + 1, users["admin"].password}
      BY <1>0, <2>0, <3>1 DEF Accounts
    <3> QED BY <2>0, <3>1, <3>2 DEF AdminIsReachable
  <2> QED BY <1>5, <2>1, <2>2, <2>3
          DEF ThreadStep, Verify, Refuse, Issue, Logout, Resolve, TurnAway, Run,
              Confirm, RefuseChange, Require, Forbid, Exists, Conflict, Fail
<1>6. ASSUME NEW n \in Names, NEW status, SetStatus(n, status)
      PROVE  AdminIsReachable'
  <2>1. /\ known' = known /\ buffered' = buffered /\ users["admin"] # NoUser
        /\ users'["admin"].password = users["admin"].password
    BY <1>0, <1>6 DEF SetStatus, Accounts, log
  <2> QED BY <2>1 DEF AdminIsReachable
<1>7. CASE \/ UNCHANGED vars \/ \E k \in Tokens : Expire(k)
           \/ \E d \in Threads, request \in Requests : Ask(d, request)
  BY <1>1, <1>7 DEF vars, Expire, Ask, startup, log
<1> QED BY <1>2, <1>3, <1>4, <1>5, <1>6, <1>7 DEF Next

(* The admin's only password is lost in no other way than by a kill after  *)
(* the commit and before its output is flushed.                            *)
(* (_bootstrap_admin, create_user, change_password)                        *)
THEOREM OnlyKillsLosePasswords == Spec => OnlyAKillLosesPassword
<1>1. IInv /\ [Next]_vars =>
        [AdminIsReachable =>
           \/ AdminIsReachable'
           \/ boot = "up" /\ boot' = "off" /\ buffered # 0]_vars
  BY AdminStays
<1> QED BY <1>1, Invariant, PTL DEF Spec, OnlyAKillLosesPassword

-----------------------------------------------------------------------------
(* The token life cycle.                                                   *)

LetIn(d) == IF pc[d] \in Admitted THEN job[d].token ELSE NoToken

LEMMA HolderFacts ==
    ASSUME IInv, NEW k \in Tokens
    PROVE  /\ k > issued => Holder(k) = "unused"
           /\ k <= issued /\ k \in ended => Holder(k) = "ended"
           /\ k <= issued /\ k \notin ended =>
                Holder(k) = sessions[k].user /\ Holder(k) \in Names
<1>1. issued \in Nat /\ k \in Nat
  BY LoginsAssumption DEF IInv, TypeOK, Tokens
<1>2. k <= issued /\ k \notin ended => sessions[k] \in Rows
  BY DEF IInv, Lives, Aged, TypeOK
<1>3. k <= issued /\ k \notin ended => sessions[k].user \in Names
  BY <1>2 DEF Rows
<1> QED BY <1>1, <1>3 DEF Holder

LEMMA LeaveStep ==
    ASSUME \A k \in Tokens : Holder(k)' = Holder(k),
           \A d \in Threads : LetIn(d)' \in {LetIn(d), NoToken}
    PROVE  TokenLife!Next
BY DEF TokenLife!Next, TokenLife!Leave, LetIn, Tokens, Admitted, NoToken

LEMMA EndStep ==
    ASSUME IInv, IInv', NEW k \in Tokens, k <= issued, k \notin ended,
           issued' = issued, ended' = ended \cup {k},
           \A j \in Tokens : j \notin ended' => sessions'[j] = sessions[j],
           \A d \in Threads : LetIn(d)' = LetIn(d)
    PROVE  TokenLife!Next
<1>1. Holder(k) \in Names /\ Holder(k)' = "ended"
  <2>1. issued \in Nat /\ k \in Nat
    BY LoginsAssumption DEF IInv, TypeOK, Tokens
  <2> QED BY <2>1, HolderFacts DEF Holder
<1>2. \A j \in Tokens : j # k => Holder(j)' = Holder(j)
  BY DEF Holder
<1>3. [j \in Tokens |-> Holder(j)]'
        = [[j \in Tokens |-> Holder(j)] EXCEPT ![k] = "ended"]
  BY <1>1, <1>2 DEF Tokens
<1>4. TokenLife!End(k)
  BY <1>1, <1>3 DEF TokenLife!End, LetIn, Tokens, Admitted, NoToken
<1> QED BY <1>4 DEF TokenLife!Next

(* A step that leaves sessions alone and lets nobody in.                   *)
LEMMA NobodyIn ==
    ASSUME UNCHANGED tokens,
           \A d \in Threads : LetIn(d)' \in {LetIn(d), NoToken}
    PROVE  TokenLife!Next
<1>1. \A k \in Tokens : Holder(k)' = Holder(k)
  BY DEF Holder, tokens
<1> QED BY <1>1, LeaveStep

LEMMA FinishLetsOut ==
    ASSUME IInv, NEW d \in Threads, NEW from, Finish(d, from)
    PROVE  /\ \A c \in Threads : LetIn(c)' \in {LetIn(c), NoToken}
           /\ from \notin Admitted => \A c \in Threads : LetIn(c)' = LetIn(c)
<1>1. /\ pc[d] = from /\ pc'[d] = "idle"
      /\ \A c \in Threads \ {d} : pc'[c] = pc[c] /\ job'[c] = job[c]
  BY FinishType
<1> QED BY <1>1 DEF LetIn, Admitted

LEMMA ResolveAdmits ==
    ASSUME IInv, NEW d \in Threads, Resolve(d)
    PROVE  TokenLife!Next
<1>1. /\ pc[d] = "resolve" /\ pc'[d] \in Admitted
      /\ \A c \in Threads \ {d} : pc'[c] = pc[c]
  <2>1. Target(job[d].kind) \in Admitted /\ Target(job[d].kind) \in PCs
    BY DEF Target, Admitted, PCs
  <2> QED BY <2>1, StepType DEF Resolve
<1>2. PICK k \in Tokens : k = job[d].token /\ k \in 1..issued
  BY <1>1, JobType, LoginsAssumption DEF Serving, Tokens, IInv, TypeOK
<1>3. k \notin ended /\ k <= issued
  BY <1>2, LoginsAssumption DEF Resolve, Admits, IInv, Lives, Aged
<1>4. Holder(k) \in Names
  BY <1>2, <1>3, HolderFacts
<1>5. job'[d].token = k /\ \A c \in Threads \ {d} : job'[c] = job[c]
  BY <1>2, JobType DEF Resolve, IInv, TypeOK, Jobs
<1>6. /\ LetIn(d) = NoToken /\ LetIn(d)' = k
      /\ \A c \in Threads \ {d} : LetIn(c)' = LetIn(c)
  BY <1>1, <1>5 DEF LetIn, Admitted
<1>7. \A j \in Tokens : Holder(j)' = Holder(j)
  BY DEF Resolve, tokens, Holder
<1>8. [c \in Threads |-> LetIn(c)]' = [[c \in Threads |-> LetIn(c)] EXCEPT ![d] = k]
  BY <1>6
<1>9. TokenLife!Admit(d, k)
  BY <1>2, <1>4, <1>6, <1>7, <1>8
     DEF TokenLife!Admit, LetIn, Tokens, Admitted, NoToken
<1> QED BY <1>2, <1>9 DEF TokenLife!Next

LEMMA IssueIssues ==
    ASSUME IInv, IInv', NEW d \in Threads, Issue(d)
    PROVE  TokenLife!Next
<1>1. Finish(d, "issue") /\ pc[d] = "issue"
  BY FinishType DEF Issue
<1>0. PICK n \in Names : n = job[d].name
  BY JobType
<1>2. /\ issued' = issued + 1 /\ issued' \in Tokens /\ issued \in Nat
      /\ ended' = ended
  BY LoginsAssumption DEF Issue, IInv, TypeOK, Tokens
<1>9. PICK k \in Tokens : k = issued'
  BY <1>2
<1>3. /\ sessions'[k].user = n
      /\ \A j \in Tokens : j # k => sessions'[j] = sessions[j]
  BY <1>0, <1>9 DEF Issue, IInv, TypeOK, Row
<1>4. k \notin ended
  BY <1>2, <1>9 DEF IInv, Lives, Aged
<1>5. Holder(k) = "unused"
  BY <1>2, <1>9 DEF Holder
<1>6. Holder(k)' = n
  BY <1>2, <1>3, <1>4, <1>9 DEF Holder
<1>7. \A j \in Tokens : j # k => Holder(j)' = Holder(j)
  BY <1>2, <1>3, <1>9 DEF Holder, Tokens
<1>8. \A c \in Threads : LetIn(c)' = LetIn(c)
  BY <1>1, FinishLetsOut DEF Admitted
<1>10. [j \in Tokens |-> Holder(j)]' = [[j \in Tokens |-> Holder(j)] EXCEPT ![k] = n]
  BY <1>6, <1>7 DEF Tokens
<1>11. TokenLife!Issue(k, n)
  BY <1>5, <1>8, <1>10 DEF TokenLife!Issue, LetIn, Tokens, Admitted, NoToken
<1> QED BY <1>11 DEF TokenLife!Next

LEMMA RotateRotates ==
    ASSUME IInv, IInv', NEW d \in Threads, Rotate(d)
    PROVE  TokenLife!Next
<1>1. /\ pc[d] = "rotate" /\ pc'[d] = "idle"
      /\ \A c \in Threads \ {d} : pc'[c] = pc[c] /\ job'[c] = job[c]
  BY StepType, JobType DEF Rotate, PCs, IInv, TypeOK
<1>0. PICK n \in Names : n = job[d].name
  BY JobType
<1>2. /\ issued' = issued + 1 /\ issued' \in Tokens /\ issued \in Nat
      /\ ended' = ended \cup {k \in Tokens : sessions[k].user = n}
  BY <1>0, LoginsAssumption DEF Rotate, IInv, TypeOK, Tokens
<1>14. PICK k \in Tokens : k = issued'
  BY <1>2
<1>3. /\ sessions'[k].user = n
      /\ \A j \in Tokens : j # k /\ sessions[j].user # n
                           => sessions'[j] = sessions[j]
  BY <1>0, <1>14 DEF Rotate, Surviving, IInv, TypeOK, Row
<1>4. \A j \in Tokens : sessions[j].user = n => j <= issued
  BY StartupAssumption DEF NoRow, IInv, Lives, Aged
<1>5. k \notin ended'
  BY <1>2, <1>4, <1>14 DEF IInv, Lives, Aged
<1>6. Holder(k) = "unused" /\ Holder(k)' = n
  BY <1>2, <1>3, <1>5, <1>14 DEF Holder
<1>7. \A j \in Tokens : j # k =>
         Holder(j)' = IF Holder(j) = n THEN "ended" ELSE Holder(j)
  <2> SUFFICES ASSUME NEW j \in Tokens, j # k
               PROVE  Holder(j)' = IF Holder(j) = n THEN "ended" ELSE Holder(j)
    BY DEF Tokens
  <2>1. n # "unused" /\ n # "ended"
    BY StartupAssumption
  <2>2. j \in Nat /\ (j > issued' <=> j > issued)
    BY <1>2, <1>14 DEF Tokens
  <2>3. CASE j > issued
    BY <2>1, <2>2, <2>3 DEF Holder
  <2>4. CASE j \in ended /\ ~(j > issued)
    BY <1>2, <2>1, <2>2, <2>4 DEF Holder
  <2>5. CASE j \notin ended /\ ~(j > issued)
    BY <1>2, <1>3, <2>1, <2>2, <2>5 DEF Holder
  <2> QED BY <2>3, <2>4, <2>5
<1>8. LetIn(d) # NoToken
  <2>1. job[d].token \in 1..issued
    BY <1>1, JobType DEF Serving, Admitted
  <2> QED BY <1>1, <1>2, <2>1 DEF LetIn, Admitted, NoToken
<1>9. LetIn(d)' = NoToken /\ \A c \in Threads \ {d} : LetIn(c)' = LetIn(c)
  BY <1>1 DEF LetIn, Admitted
<1>11. [c \in Threads |-> LetIn(c)]'
         = [[c \in Threads |-> LetIn(c)] EXCEPT ![d] = NoToken]
  BY <1>9 DEF NoToken
<1>12. [j \in Tokens |-> Holder(j)]' =
          [j \in Tokens |-> IF j = k THEN n
                            ELSE IF [i \in Tokens |-> Holder(i)][j] = n THEN "ended"
                            ELSE [i \in Tokens |-> Holder(i)][j]]
  BY <1>6, <1>7 DEF Tokens
<1>13. TokenLife!Rotate(d, k, n)
  BY <1>6, <1>8, <1>11, <1>12
     DEF TokenLife!Rotate, LetIn, Tokens, Admitted, NoToken
<1> QED BY <1>13 DEF TokenLife!Next

LEMMA LogoutEnds ==
    ASSUME IInv, IInv', NEW d \in Threads, Logout(d)
    PROVE  TokenLife!Next
<1> DEFINE k == job[d].token
<1>1. Finish(d, "logout") /\ pc[d] = "logout"
  BY FinishType DEF Logout
<1>2. k \in 1..issued /\ k \in Tokens /\ k <= issued
  BY <1>1, JobType, LoginsAssumption DEF Serving, Tokens, IInv, TypeOK
<1>3. \A c \in Threads : LetIn(c)' = LetIn(c)
  BY <1>1, FinishLetsOut DEF Admitted
<1>4. /\ issued' = issued /\ ended' = ended \cup {k}
      /\ \A j \in Tokens : j # k => sessions'[j] = sessions[j]
  BY DEF Logout, IInv, TypeOK
<1>5. CASE k \notin ended
  BY <1>2, <1>3, <1>4, <1>5, EndStep
<1>6. CASE k \in ended
  <2>1. \A j \in Tokens : Holder(j)' = Holder(j)
    BY <1>4, <1>6 DEF Holder
  <2> QED BY <1>3, <2>1, LeaveStep
<1> QED BY <1>5, <1>6

LEMMA ThreadImplements ==
    ASSUME IInv, IInv', NEW d \in Threads, ThreadStep(d)
    PROVE  TokenLife!Next
<1>1. ASSUME UNCHANGED tokens, NEW from, Finish(d, from) PROVE TokenLife!Next
  BY <1>1, FinishLetsOut, NobodyIn
<1>2. CASE \/ Refuse(d) \/ Run(d) \/ RefuseChange(d) \/ Forbid(d) \/ Conflict(d)
           \/ Fail(d) \/ \E role \in Roles : Create(d, role)
  BY <1>1, <1>2 DEF Refuse, Run, RefuseChange, Forbid, Conflict, Fail, Create,
                    Insert
<1>3. CASE Verify(d) \/ Confirm(d) \/ Require(d) \/ Exists(d)
  <2>1. PICK from \in PCs, to \in PCs :
          /\ Step(d, from, to) /\ UNCHANGED <<tokens, job>>
          /\ to \in Admitted => from \in Admitted
    BY <1>3 DEF Verify, Confirm, Require, Exists, PCs, Admitted
  <2>2. \A c \in Threads : LetIn(c)' \in {LetIn(c), NoToken}
    BY <2>1, StepType DEF LetIn
  <2> QED BY <2>1, <2>2, NobodyIn
<1>4. CASE TurnAway(d)
  <2>1. \A c \in Threads : LetIn(c)' \in {LetIn(c), NoToken}
    BY <1>4, FinishLetsOut DEF TurnAway
  <2>2. \A k \in Tokens : Holder(k)' = Holder(k)
    BY <1>4 DEF TurnAway, Holder, IInv, Lives, Aged, TypeOK
  <2> QED BY <2>1, <2>2, LeaveStep
<1> QED BY <1>2, <1>3, <1>4, ResolveAdmits, IssueIssues, RotateRotates, LogoutEnds
        DEF ThreadStep

LEMMA StepImplements ==
    ASSUME IInv, IInv', Next
    PROVE  TokenLife!Next
<1>1. CASE \/ (BootStep \/ Flush) /\ UNCHANGED <<tokens, thread>>
           \/ \E n \in Names, status \in {"Active", "Suspended"} :
                SetStatus(n, status)
  BY <1>1, NobodyIn DEF thread, SetStatus, LetIn
<1>2. CASE Stop
  <2>1. \A c \in Threads : LetIn(c)' = NoToken
    BY <1>2 DEF Stop, LetIn, Admitted
  <2> QED BY <1>2, <2>1, NobodyIn DEF Stop
<1>3. ASSUME NEW d \in Threads, NEW request \in Requests, Ask(d, request)
      PROVE  TokenLife!Next
  <2>1. Entry(request.kind) \in PCs \ Admitted
    BY DEF Entry, PCs, Admitted
  <2>2. \A c \in Threads : LetIn(c)' \in {LetIn(c), NoToken}
    BY <1>3, <2>1, StepType DEF Ask, LetIn, IInv, TypeOK
  <2> QED BY <1>3, <2>2, NobodyIn DEF Ask
<1>4. ASSUME NEW k \in Tokens, Expire(k) PROVE TokenLife!Next
  <2>1. k <= issued /\ k \notin ended
    BY <1>4 DEF Expire, Live, IInv, Lives, Aged
  <2>2. /\ issued' = issued /\ ended' = ended \cup {k} /\ sessions' = sessions
        /\ \A d \in Threads : LetIn(d)' = LetIn(d)
    BY <1>4 DEF Expire, LetIn, thread
  <2> QED BY <2>1, <2>2, EndStep
<1> QED BY <1>1, <1>2, <1>3, <1>4, ThreadImplements DEF Next

(* Sessions, with every interleaving and crash of the detailed model, go   *)
(* through no other life than the one promised of tokens.                  *)
(* (auth_service.py)                                                       *)
THEOREM TokensFollowTheirLifecycle == Spec => ImplementsTokenLifecycle
<1>1. Init => TokenLife!Init
  <2> SUFFICES ASSUME Init PROVE TokenLife!Init
    OBVIOUS
  <2>1. \A k \in Tokens : Holder(k) = "unused"
    BY LoginsAssumption DEF Init, Holder, Tokens
  <2>2. \A d \in Threads : LetIn(d) = NoToken
    BY DEF Init, LetIn, Admitted
  <2> QED BY <2>1, <2>2 DEF TokenLife!Init, LetIn, Tokens, Admitted, NoToken
<1>2. UNCHANGED vars => UNCHANGED TokenLife!lifecycle
  BY DEF vars, tokens, thread, TokenLife!lifecycle, Holder
<1>3. IInv /\ IInv' /\ [Next]_vars => [TokenLife!Next]_(TokenLife!lifecycle)
  BY <1>2, StepImplements
<1> QED BY <1>1, <1>3, Invariant, PTL
        DEF Spec, ImplementsTokenLifecycle, TokenLife!Spec

-----------------------------------------------------------------------------
(* Starts come up.                                                         *)

(* The statements a start has still to run: for every table and column     *)
(* that is missing one, the rows, their commit.                            *)
Missing(t, there) == IF t \in there THEN 0 ELSE 1

StatementsLeft ==
    (CASE boot = "booting" -> 2 [] boot = "filled" -> 1 [] OTHER -> 0)
    + (Missing("agents", tables) + Missing("servers", tables)
       + Missing("tools", tables) + Missing("settings", tables)
       + Missing("users", tables))
    + (Missing("agents", columns) + Missing("servers", columns)
       + Missing("tools", columns))

Starting == boot \in {"booting", "filled"}
LeftAtMost(n) == StatementsLeft <= n

LEMMA MissingValues ==
    \A t, there : /\ Missing(t, there) \in 0..1
                  /\ Missing(t, there) = 0 <=> t \in there
BY DEF Missing

LEMMA StatementsLeftType ==
    /\ StatementsLeft \in 0..10 /\ StatementsLeft' \in 0..10
    /\ Starting => StatementsLeft >= 1
<1> HIDE DEF Missing
<1> QED BY MissingValues DEF StatementsLeft, Starting

(* A table or column that comes is one less, whichever it is.              *)
LEMMA LessIsMissing ==
    ASSUME NEW t, NEW old, NEW new, old \subseteq new
    PROVE  /\ Missing(t, new) <= Missing(t, old)
           /\ t \in new \ old => Missing(t, new) = 0 /\ Missing(t, old) = 1
BY DEF Missing

LEMMA BootStepSpends ==
    ASSUME IInv, BootStep, Starting
    PROVE  StatementsLeft' < StatementsLeft
<1> USE MissingValues, LessIsMissing DEF Starting, StatementsLeft
<1> HIDE DEF Missing
<1>1. ASSUME NEW t \in Tables, CreateTable(t)
      PROVE  StatementsLeft' < StatementsLeft
  <2>1. /\ tables \subseteq tables' /\ t \in tables' \ tables
        /\ columns \subseteq columns' /\ boot' = boot
        /\ t \in {"agents", "servers", "tools", "settings", "users"}
    BY <1>1 DEF CreateTable, Tables
  <2> QED BY <2>1
<1>2. ASSUME NEW t \in Tables, AddColumn(t)
      PROVE  StatementsLeft' < StatementsLeft
  <2>1. /\ columns \subseteq columns' /\ t \in columns' \ columns
        /\ tables' = tables /\ boot' = boot
        /\ t \in {"agents", "servers", "tools"}
    BY <1>2 DEF AddColumn, Late
  <2> QED BY <2>1
<1>3. CASE Fill \/ CommitBoot
  <2>1. /\ tables' = tables /\ columns' = columns
        /\ \/ boot = "booting" /\ boot' = "filled"
           \/ boot = "filled" /\ boot' = "up"
    BY <1>3 DEF Fill, CommitBoot, database
  <2> QED BY <2>1
<1> QED BY <1>1, <1>2, <1>3 DEF BootStep, Start

(* Nothing else touches a start that goes on.                              *)
LEMMA OthersWait ==
    ASSUME IInv, [Next]_vars, Starting, Starting'
    PROVE  StatementsLeft' <= StatementsLeft
<1>1. CASE BootStep
  BY <1>1, BootStepSpends, StatementsLeftType
<1>2. CASE UNCHANGED <<boot, tables, columns>>
  BY <1>2, StatementsLeftType DEF StatementsLeft
<1>3. ASSUME NEW d \in Threads, ThreadStep(d) PROVE FALSE
  <2>1. pc[d] # "idle"
    BY <1>3 DEF ThreadStep, Verify, Refuse, Issue, Logout, Resolve, TurnAway,
       Run, Confirm, RefuseChange, Rotate, Require, Forbid, Exists, Conflict,
       Create, Insert, Fail, Finish, Step
  <2> QED BY <2>1, UpWhenBusy DEF Starting
<1>4. CASE UNCHANGED vars \/ Flush \/ \E k \in Tokens : Expire(k)
  BY <1>2, <1>4 DEF vars, Flush, Expire, startup, database
<1> QED BY <1>1, <1>3, <1>4 DEF Next, Ask, SetStatus, Stop, Starting

LEMMA StartGoesOn ==
    ASSUME IInv, [Next]_vars, Starting, Starting', NEW n \in Nat, LeftAtMost(n)
    PROVE  LeftAtMost(n)'
BY OthersWait, StatementsLeftType DEF LeftAtMost

LEMMA OneStatementLess ==
    ASSUME IInv, BootStep, Starting, NEW n \in Nat, NEW k \in Nat, n = k + 1,
           LeftAtMost(n)
    PROVE  LeftAtMost(k)'
BY BootStepSpends, StatementsLeftType DEF LeftAtMost

(* A start comes up if it is not stopped, on a new file, an older one or   *)
(* one that earlier starts left half migrated: whatever is missing, each   *)
(* statement leaves less to do.  (init_schema)                             *)
THEOREM StartsEnd == Spec /\ BootGoesOn => StartsComeUp
<1>1. LeftAtMost(10)
  BY StatementsLeftType DEF LeftAtMost
<1>2. LeftAtMost(0) => ~Starting
  BY StatementsLeftType DEF LeftAtMost
<1>3. IInv => (~Starting <=> boot \in {"off", "up"})
  BY DEF IInv, TypeOK, StartupTypeOK, Starting
<1>4. IInv /\ [Next]_vars /\ Starting /\ Starting' =>
        /\ (LeftAtMost(1) => LeftAtMost(1)') /\ (LeftAtMost(2) => LeftAtMost(2)')
        /\ (LeftAtMost(3) => LeftAtMost(3)') /\ (LeftAtMost(4) => LeftAtMost(4)')
        /\ (LeftAtMost(5) => LeftAtMost(5)') /\ (LeftAtMost(6) => LeftAtMost(6)')
        /\ (LeftAtMost(7) => LeftAtMost(7)') /\ (LeftAtMost(8) => LeftAtMost(8)')
        /\ (LeftAtMost(9) => LeftAtMost(9)')
        /\ (LeftAtMost(10) => LeftAtMost(10)')
  BY StartGoesOn
<1>5. IInv /\ Starting /\ <<BootStep>>_vars =>
        /\ (LeftAtMost(1) => LeftAtMost(0)') /\ (LeftAtMost(2) => LeftAtMost(1)')
        /\ (LeftAtMost(3) => LeftAtMost(2)') /\ (LeftAtMost(4) => LeftAtMost(3)')
        /\ (LeftAtMost(5) => LeftAtMost(4)') /\ (LeftAtMost(6) => LeftAtMost(5)')
        /\ (LeftAtMost(7) => LeftAtMost(6)') /\ (LeftAtMost(8) => LeftAtMost(7)')
        /\ (LeftAtMost(9) => LeftAtMost(8)')
        /\ (LeftAtMost(10) => LeftAtMost(9)')
  BY OneStatementLess
<1>6. boot \in {"up", "off"} <=> boot \in {"off", "up"}
  OBVIOUS
<1> QED BY <1>1, <1>2, <1>3, <1>4, <1>5, <1>6, Invariant, PTL
        DEF Spec, BootGoesOn, StartsComeUp, Starting

-----------------------------------------------------------------------------
(* Every request of the console ends.                                      *)

(* The steps a thread may still take, at most.                             *)
StepsLeft ==
    [p \in PCs |-> CASE p = "idle" -> 0
                     [] p \in {"issue", "logout", "run", "rotate", "create"} -> 1
                     [] p \in {"verify", "confirm", "exists"} -> 2
                     [] p = "require" -> 3
                     [] p = "resolve" -> 4]

Within(d, n) == StepsLeft[pc[d]] <= n

LEMMA StepsLeftValues ==
    /\ \A p \in PCs : StepsLeft[p] \in 0..4 /\ (StepsLeft[p] = 0 <=> p = "idle")
    /\ StepsLeft["issue"] = 1 /\ StepsLeft["logout"] = 1 /\ StepsLeft["run"] = 1
    /\ StepsLeft["rotate"] = 1 /\ StepsLeft["create"] = 1
    /\ StepsLeft["verify"] = 2 /\ StepsLeft["confirm"] = 2
    /\ StepsLeft["exists"] = 2 /\ StepsLeft["require"] = 3
    /\ StepsLeft["resolve"] = 4
BY DEF StepsLeft, PCs, Admitted

(* Every step of a thread goes through Step.                               *)
LEMMA ThreadMoves ==
    ASSUME IInv, NEW d \in Threads, ThreadStep(d)
    PROVE  /\ \A c \in Threads \ {d} : pc'[c] = pc[c]
           /\ pc'[d] \in PCs
           /\ StepsLeft[pc'[d]] < StepsLeft[pc[d]]
<1> DEFINE Spent == /\ \A c \in Threads \ {d} : pc'[c] = pc[c]
                    /\ pc'[d] \in PCs
                    /\ StepsLeft[pc'[d]] < StepsLeft[pc[d]]
<1>1. ASSUME NEW from \in PCs \ {"idle"}, Step(d, from, "idle")
      PROVE  Spent
  <2>1. "idle" \in PCs
    BY DEF PCs
  <2>2. pc[d] = from /\ pc'[d] = "idle" /\ \A c \in Threads \ {d} : pc'[c] = pc[c]
    BY <1>1, <2>1, StepType
  <2> QED BY <2>1, <2>2, StepsLeftValues
<1>2. ASSUME NEW from \in PCs \ {"idle"}, Finish(d, from)
      PROVE  Spent
  BY <1>1, <1>2 DEF Finish
<1>3. ASSUME NEW from \in PCs, NEW to \in PCs, Step(d, from, to),
             StepsLeft[to] < StepsLeft[from]
      PROVE  Spent
  BY <1>3, StepType
<1>4. CASE Verify(d) \/ Confirm(d) \/ Require(d) \/ Exists(d)
  BY <1>3, <1>4, StepsLeftValues
     DEF Verify, Confirm, Require, Exists, PCs, Admitted
<1>5. CASE Resolve(d)
  <2>1. Target(job[d].kind) \in {"confirm", "require", "run"}
    BY DEF Target
  <2> QED BY <1>3, <1>5, <2>1, StepsLeftValues DEF Resolve, PCs, Admitted
<1>6. CASE \/ Refuse(d) \/ Issue(d) \/ Logout(d) \/ TurnAway(d) \/ Run(d)
           \/ RefuseChange(d) \/ Forbid(d) \/ Conflict(d)
           \/ \E role \in Roles : Create(d, role)
  BY <1>2, <1>6 DEF Refuse, Issue, Logout, TurnAway, Run, RefuseChange, Forbid,
     Conflict, Create, Insert, PCs, Admitted
<1>7. CASE Rotate(d) \/ Fail(d)
  BY <1>1, <1>2, <1>7 DEF Rotate, Fail, PCs, Admitted
<1> QED BY <1>4, <1>5, <1>6, <1>7 DEF ThreadStep

(* Nobody else sends a thread back, but a stop, which ends its request.    *)
LEMMA StepsAreKept ==
    ASSUME IInv, [Next]_vars, NEW d \in Threads, pc[d] # "idle",
           pc'[d] # "idle"
    PROVE  pc'[d] \in PCs /\ StepsLeft[pc'[d]] <= StepsLeft[pc[d]]
<1>0. pc[d] \in PCs
  BY DEF IInv, TypeOK
<1>1. CASE ThreadStep(d)
  BY <1>0, <1>1, ThreadMoves, StepsLeftValues
<1>2. CASE pc'[d] = pc[d]
  BY <1>0, <1>2, StepsLeftValues
<1>3. ASSUME NEW e \in Threads, ThreadStep(e), e # d PROVE pc'[d] = pc[d]
  BY <1>3, ThreadMoves
<1>4. ASSUME NEW e \in Threads, NEW request \in Requests, Ask(e, request)
      PROVE  pc'[d] = pc[d]
  BY <1>4 DEF Ask, Step, IInv, TypeOK
<1>5. CASE ~ \E e \in Threads : \/ ThreadStep(e)
                                \/ \E request \in Requests : Ask(e, request)
  BY <1>2, <1>5 DEF Next, Expire, SetStatus, Stop, thread, vars
<1> QED BY <1>1, <1>2, <1>3, <1>4, <1>5

LEMMA WithinIsKept ==
    ASSUME IInv, [Next]_vars, NEW d \in Threads, pc[d] # "idle",
           pc'[d] # "idle", NEW n \in Nat, Within(d, n)
    PROVE  Within(d, n)'
<1>1. pc[d] \in PCs
  BY DEF IInv, TypeOK
<1> QED BY <1>1, StepsAreKept, StepsLeftValues DEF Within

LEMMA OneStepLess ==
    ASSUME IInv, NEW d \in Threads, ThreadStep(d),
           NEW n \in Nat, NEW k \in Nat, n = k + 1, Within(d, n)
    PROVE  Within(d, k)'
<1>1. pc[d] \in PCs
  BY DEF IInv, TypeOK
<1> QED BY <1>1, ThreadMoves, StepsLeftValues DEF Within

(* Every login, logout, change of password and request of the console gets *)
(* its answer, whatever becomes of its session and its user meanwhile, if  *)
(* the thread that serves it goes on.  (auth_service.py)                   *)
THEOREM RequestsEnd ==
    Spec /\ (\A d \in Threads : ThreadGoesOn(d)) => EveryRequestEnds
<1>1. ASSUME NEW d \in Threads
      PROVE  Spec /\ ThreadGoesOn(d) => (pc[d] # "idle" ~> pc[d] = "idle")
  <2>1. IInv => Within(d, 4)
    BY StepsLeftValues DEF IInv, TypeOK, Within
  <2>2. IInv /\ Within(d, 0) => pc[d] = "idle"
    BY StepsLeftValues DEF IInv, TypeOK, Within
  <2>3. IInv /\ [Next]_vars /\ ~(pc[d] = "idle") /\ ~(pc[d] = "idle")' =>
          /\ (Within(d, 1) => Within(d, 1)') /\ (Within(d, 2) => Within(d, 2)')
          /\ (Within(d, 3) => Within(d, 3)') /\ (Within(d, 4) => Within(d, 4)')
    BY WithinIsKept
  <2>4. IInv /\ <<ThreadStep(d)>>_vars =>
          /\ (Within(d, 1) => Within(d, 0)') /\ (Within(d, 2) => Within(d, 1)')
          /\ (Within(d, 3) => Within(d, 2)') /\ (Within(d, 4) => Within(d, 3)')
    BY OneStepLess
  <2> QED BY <2>1, <2>2, <2>3, <2>4, Invariant, PTL DEF Spec, ThreadGoesOn
<1> QED BY <1>1 DEF EveryRequestEnds

=============================================================================
