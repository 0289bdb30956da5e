------------------------------- MODULE Logins -------------------------------
(***************************************************************************)
(* auth_service.py, the require_login middleware of main.py and the        *)
(* dependencies get_current_user and require_admin: users log in and out,  *)
(* change their passwords, create users and use the console, each request  *)
(* in a worker thread of its own that interleaves with the others and dies *)
(* with the process.  The sessions table outlives it.                      *)
(*                                                                         *)
(* A token is the number of its session, in the order of the INSERTs; the  *)
(* hash that is stored identifies it.  A row's expires_at is abstracted to *)
(* whether it has passed.                                                  *)
(***************************************************************************)
EXTENDS Startup

CONSTANTS
    Threads,   \* worker threads
    MaxTokens  \* bound: sessions ever created

ASSUME LoginsAssumption == MaxTokens \in Nat

VARIABLES
    issued,    \* sessions created so far
    sessions,  \* sessions[k]: the row of token k
    expired,   \* tokens whose expires_at has passed
    ended,     \* history: tokens logged out, rotated away or expired
    pc,        \* pc[d]: where thread d is
    job,       \* job[d]: the request it serves
    overtaken  \* history: the logins whose user changed the password they
               \* verified

thread == <<pc, job, overtaken>>
tokens == <<issued, sessions, expired, ended>>
vars == <<startup, tokens, thread>>

Tokens == 1..MaxTokens
NoToken == 0

(* A row's user, and for the properties: the password its login rests on,  *)
(* and whether that password was changed before the row was inserted.      *)
Rows  == [user : Names, password : 1..MaxPasswords, raced : BOOLEAN]
NoRow == [user |-> "none", password |-> 0, raced |-> FALSE]

(* What a request carries: a login's or a new user's name, the cookie's    *)
(* token, a password; late says, for the properties, that its token had    *)
(* ended when the request came.                                            *)
Kinds == {"login", "logout", "password", "create", "other"}
Jobs  == [kind : Kinds, name : Names, token : Tokens \cup {NoToken},
          password : 0..MaxPasswords, late : BOOLEAN]
NoJob == [kind |-> "other", name |-> "admin", token |-> NoToken,
          password |-> 0, late |-> FALSE]

Admitted == {"require", "exists", "create", "run", "confirm", "rotate"}
PCs == {"idle", "verify", "issue", "logout", "resolve"} \cup Admitted

TypeOK ==
    /\ StartupTypeOK
    /\ issued \in 0..MaxTokens
    /\ sessions \in [Tokens -> Rows \cup {NoRow}]
    /\ expired \subseteq Tokens /\ ended \subseteq Tokens
    /\ pc \in [Threads -> PCs]
    /\ job \in [Threads -> Jobs]
    /\ overtaken \subseteq Threads

Init ==
    /\ StartupInit
    /\ issued = 0
    /\ sessions = [k \in Tokens |-> NoRow]
    /\ expired = {} /\ ended = {}
    /\ pc = [d \in Threads |-> "idle"]
    /\ job = [d \in Threads |-> NoJob]
    /\ overtaken = {}

Step(d, from, to) ==
    /\ pc[d] = from
    /\ pc' = [pc EXCEPT ![d] = to]

Finish(d, from) ==
    /\ Step(d, from, "idle")
    /\ job' = [job EXCEPT ![d] = NoJob]
    /\ overtaken' = overtaken \ {d}

Live(k) == sessions[k] # NoRow /\ k \notin expired

(* The handler a request reaches first: logins and logouts need no session.*)
Entry(kind) ==
    CASE kind = "login" -> "verify" [] kind = "logout" -> "logout"
      [] OTHER -> "resolve"

Ask(d, request) ==
    /\ boot = "up" /\ Step(d, "idle", Entry(request.kind))
    /\ job' = [job EXCEPT ![d] = request]
    /\ UNCHANGED <<startup, tokens, overtaken>>

Carrying(kind, name, k, password) ==
    [kind |-> kind, name |-> name, token |-> k, password |-> password,
     late |-> k \in ended]

Requests ==
    {Carrying("login", n, NoToken, p) : n \in Names, p \in 1..passwords}
    \cup {Carrying("password", "admin", k, p) : k \in 1..issued,
                                                p \in 1..passwords}
    \cup {Carrying("create", n, k, 0) : n \in Names, k \in 1..issued}
    \cup {Carrying(kind, "admin", k, 0) : kind \in {"logout", "other"},
                                          k \in 1..issued}

-----------------------------------------------------------------------------
(* login.                                                                  *)

(* The SELECT, verify_password and the status: one row, read once.         *)
Verified(name, password) ==
    users[name].password = password /\ users[name].status = "Active"

Verify(d) ==
    /\ Step(d, "verify", "issue")
    /\ Verified(job[d].name, job[d].password)
    /\ UNCHANGED <<startup, tokens, job, overtaken>>

Refuse(d) ==
    /\ Finish(d, "verify")
    /\ ~Verified(job[d].name, job[d].password)
    /\ UNCHANGED <<startup, tokens>>

(* SessionRepository.create, at the login's or the rotation's commit.      *)
Row(name, password, raced) ==
    [user |-> name, password |-> password, raced |-> raced]

Issue(d) ==
    /\ Finish(d, "issue")
    /\ issued < MaxTokens
    /\ issued' = issued + 1
    /\ sessions' = [sessions EXCEPT ![issued'] =
                      Row(job[d].name, job[d].password, d \in overtaken)]
    /\ UNCHANGED <<startup, expired, ended>>

-----------------------------------------------------------------------------
(* Mutant of Logout: the cookie is deleted and the row is not.             *)
LogoutCookieOnly(d) ==
    /\ Finish(d, "logout")
    /\ ended' = ended \cup {job[d].token}
    /\ UNCHANGED <<startup, issued, sessions, expired>>

Logout(d) ==
    /\ Finish(d, "logout")
    /\ sessions' = [sessions EXCEPT ![job[d].token] = NoRow]
    /\ ended' = ended \cup {job[d].token}
    /\ UNCHANGED <<startup, issued, expired>>

-----------------------------------------------------------------------------
(* resolve_session: in the middleware, in get_current_user of the password *)
(* and users routes.                                                       *)
Admits(k) == Live(k) /\ users[sessions[k].user].status = "Active"

Target(kind) ==
    CASE kind = "password" -> "confirm" [] kind = "create" -> "require"
      [] OTHER -> "run"

Resolve(d) ==
    /\ Step(d, "resolve", Target(job[d].kind))
    /\ Admits(job[d].token)
    /\ job' = IF job[d].kind = "password"
              THEN [job EXCEPT ![d].name = sessions[job[d].token].user]
              ELSE job
    /\ UNCHANGED <<startup, tokens, overtaken>>

(* 401, and an expired row is deleted.                                     *)
TurnAway(d) ==
    /\ Finish(d, "resolve") \/ Finish(d, "require")
    /\ ~Admits(job[d].token)
    /\ sessions' = IF job[d].token \in expired
                   THEN [sessions EXCEPT ![job[d].token] = NoRow]
                   ELSE sessions
    /\ UNCHANGED <<startup, issued, expired, ended>>

(* The handler of another route; what it does is in the other modules.     *)
Run(d) == Finish(d, "run") /\ UNCHANGED <<startup, tokens>>

-----------------------------------------------------------------------------
(* change_password.                                                        *)

Confirm(d) ==
    /\ Step(d, "confirm", "rotate")
    /\ users[job[d].name].password = job[d].password
    /\ UNCHANGED <<startup, tokens, job, overtaken>>

(* The current password is wrong.                                          *)
RefuseChange(d) ==
    /\ Finish(d, "confirm")
    /\ users[job[d].name].password # job[d].password
    /\ UNCHANGED <<startup, tokens>>

(* Mutant of Surviving: only the session at hand is replaced.              *)
SurvivingElsewhere(d) ==
    [sessions EXCEPT ![job[d].token] = NoRow]

(* delete_for_user.                                                        *)
Surviving(d) ==
    [k \in Tokens |-> IF sessions[k].user = job[d].name THEN NoRow
                      ELSE sessions[k]]

(* UPDATE, DELETE and INSERT, one transaction.                             *)
Rotate(d) ==
    LET n == job[d].name
        fresh == passwords + 1
    IN /\ Step(d, "rotate", "idle")
       /\ job' = [job EXCEPT ![d] = NoJob]
       /\ passwords < MaxPasswords /\ issued < MaxTokens
       /\ users' = [users EXCEPT ![n].password = fresh]
       /\ passwords' = fresh
       /\ known' = known \cup {fresh}
       /\ issued' = issued + 1
       /\ sessions' = [Surviving(d) EXCEPT ![issued'] = Row(n, fresh, FALSE)]
       /\ ended' = ended \cup {k \in Tokens : sessions[k].user = n}
       /\ overtaken' = {c \in Threads : c \in overtaken \/
                                        (pc[c] = "issue" /\ job[c].name = n)}
       /\ UNCHANGED <<boot, database, buffered, expired>>

-----------------------------------------------------------------------------
(* POST /api/users: require_admin resolves the session a second time.      *)

Require(d) ==
    /\ Step(d, "require", "exists")
    /\ Admits(job[d].token) /\ users[sessions[job[d].token].user].role = "admin"
    /\ UNCHANGED <<startup, tokens, job, overtaken>>

Forbid(d) ==
    /\ Finish(d, "require")
    /\ Admits(job[d].token) /\ users[sessions[job[d].token].user].role # "admin"
    /\ UNCHANGED <<startup, tokens>>

Exists(d) ==
    /\ Step(d, "exists", "create")
    /\ users[job[d].name] = NoUser
    /\ UNCHANGED <<startup, tokens, job, overtaken>>

Conflict(d) ==
    /\ Finish(d, "exists")
    /\ users[job[d].name] # NoUser
    /\ UNCHANGED <<startup, tokens>>

(* The INSERT of a row with a temporary password, and its commit.  Whether *)
(* the answer that shows the password arrives is not followed.             *)
Insert(d, role) ==
    /\ Finish(d, "create")
    /\ passwords < MaxPasswords
    /\ passwords' = passwords + 1
    /\ users' = [users EXCEPT ![job[d].name] = Account(passwords', role)]
    /\ UNCHANGED <<boot, database, log, tokens>>

(* Mutant of Create: INSERT OR REPLACE, as in the other repositories.      *)
CreateReplacing(d, role) == Insert(d, role)

Create(d, role) == users[job[d].name] = NoUser /\ Insert(d, role)

-----------------------------------------------------------------------------
(* An exception: no lock in time, a row that exists already, a new         *)
(* password that is too short.  What was not committed is lost.            *)
Fail(d) ==
    /\ \E from \in PCs \ {"idle"} : Finish(d, from)
    /\ UNCHANGED <<startup, tokens>>

ThreadStep(d) ==
    \/ Verify(d) \/ Refuse(d) \/ Issue(d) \/ Logout(d)
    \/ Resolve(d) \/ TurnAway(d) \/ Run(d)
    \/ Confirm(d) \/ RefuseChange(d) \/ Rotate(d)
    \/ Require(d) \/ Forbid(d) \/ Exists(d) \/ Conflict(d)
    \/ \E role \in Roles : Create(d, role)
    \/ Fail(d)

(* A row's expires_at passes.                                              *)
Expire(k) ==
    /\ Live(k)
    /\ expired' = expired \cup {k}
    /\ ended' = ended \cup {k}
    /\ UNCHANGED <<startup, issued, sessions, thread>>

(* "deactivate this one": no route does, so an operator edits the row.     *)
SetStatus(n, status) ==
    /\ boot = "up" /\ users[n] # NoUser
    /\ users' = [users EXCEPT ![n].status = status]
    /\ UNCHANGED <<boot, database, passwords, log, tokens, thread>>

(* The process stops, in the middle of a boot or of any request, and what  *)
(* is in its buffers goes with it.  (One that exits by itself has flushed.)*)
Stop ==
    /\ boot # "off"
    /\ boot' = "off" /\ buffered' = 0
    /\ pc' = [d \in Threads |-> "idle"]
    /\ job' = [d \in Threads |-> NoJob]
    /\ overtaken' = {}
    /\ UNCHANGED <<database, users, passwords, known, tokens>>

Next ==
    \/ (BootStep \/ Flush) /\ UNCHANGED <<tokens, thread>>
    \/ \E d \in Threads : ThreadStep(d) \/ \E request \in Requests : Ask(d, request)
    \/ \E k \in Tokens : Expire(k)
    \/ \E n \in Names, status \in {"Active", "Suspended"} : SetStatus(n, status)
    \/ Stop

Spec == Init /\ [][Next]_vars

(* init_schema's statements and a worker thread's end, or fail after five  *)
(* seconds at a lock: what has begun and is not stopped takes steps again  *)
(* and again until it is done.                                             *)
BootGoesOn      == []<>(boot \in {"off", "up"}) \/ []<><<BootStep>>_vars
ThreadGoesOn(d) == []<>(pc[d] = "idle") \/ []<><<ThreadStep(d)>>_vars

-----------------------------------------------------------------------------
(* Properties.                                                             *)

(* However often a start is cut short, a server that takes requests has    *)
(* the whole schema, a policy, alert rules, a key for every agent and a    *)
(* user.  (init_schema)                                                    *)
ServesReady ==
    boot = "up" =>
       /\ tables = Tables /\ columns = Late
       /\ \A key \in SettingKeys : settings[key] # "none"
       /\ \A a \in Agents : keys[a] # "null"
       /\ ~NoUsers

(* A start never touches a policy, rules, a key or a session that is       *)
(* there, however much of the rest is missing.  (_seed, _migrate)          *)
BootOnlyFillsGaps ==
    [][boot # "up" =>
         /\ \A key \in SettingKeys : settings[key] # "none"
                                     => settings'[key] = settings[key]
         /\ \A a \in Agents : keys[a] # "null" => keys'[a] = keys[a]
         /\ UNCHANGED sessions]_vars

(* docs/usage-guide.md: "On first boot (empty database), the backend       *)
(* prints a one-time default admin password to its log -- this is your     *)
(* only chance to see it".  Whatever password the admin has, it has come   *)
(* out or is about to.  The code does not keep this by itself:             *)
AdminIsReachable ==
    users["admin"] # NoUser => users["admin"].password \in known \cup {buffered}

(* The admin's only password is lost in one way: the process is killed     *)
(* after the commit and before its output is flushed.  A start cut short   *)
(* anywhere else loses nothing, since the next one makes up another        *)
(* password and prints it.  (_bootstrap_admin prints before the commit)    *)
OnlyAKillLosesPassword ==
    [][AdminIsReachable =>
         \/ AdminIsReachable'
         \/ boot = "up" /\ boot' = "off" /\ buffered # 0]_vars

(* A user's row is never lost or replaced: its password changes only when  *)
(* a request let in as that user and given the current password changes    *)
(* it.  (exists and create in two steps; _bootstrap_admin)                 *)
AccountsKept ==
    [][\A n \in Names : users[n] # NoUser =>
         /\ users'[n].role = users[n].role
         /\ users'[n].password # users[n].password =>
              \E d \in Threads : /\ job[d].kind = "password" /\ job[d].name = n
                                 /\ pc[d] = "rotate" /\ pc'[d] = "idle"]_vars

(* Sessions follow the password: whoever is logged in, is so by the        *)
(* current password, except through a login that verified the old one      *)
(* before the change and inserted its row after it.  (change_password)     *)
SessionsFollowPassword ==
    \A k \in Tokens : sessions[k] # NoRow /\ ~sessions[k].raced
                        => sessions[k].password = users[sessions[k].user].password

(* A request that comes after its token was logged out, rotated away or    *)
(* has expired is never let in, on any route, before or after a restart.   *)
(* (resolve_session, logout, change_password)                              *)
EndedIsFinal == \A d \in Threads : pc[d] \in Admitted => ~job[d].late

(* Sessions go through the life that tokens are promised.                  *)
Holder(k) ==
    IF k > issued THEN "unused" ELSE IF k \in ended THEN "ended"
    ELSE sessions[k].user

TokenLife == INSTANCE TokenLifecycle
    WITH Users <- Names, Requests <- Threads,
         holder <- [k \in Tokens |-> Holder(k)],
         admitted <- [d \in Threads |->
                        IF pc[d] \in Admitted THEN job[d].token ELSE NoToken]

ImplementsTokenLifecycle == TokenLife!Spec

(* A start that is not stopped comes up, whatever file and whatever state  *)
(* earlier starts left it in.  (init_schema on a partly migrated file)     *)
StartsComeUp == boot \in {"booting", "filled"} ~> boot \in {"up", "off"}

(* Every request of the console ends, one whose session or user goes while *)
(* it is served too.  (auth_service.py)                                    *)
EveryRequestEnds == \A d \in Threads : pc[d] # "idle" ~> pc[d] = "idle"

-----------------------------------------------------------------------------
(* A statement of the documents that the code does not keep.               *)

(* "Rotating the credential invalidates every session for this user": no   *)
(* session rests on a password its user has changed.                       *)
NoSessionOutlivesPassword ==
    \A k \in Tokens : sessions[k] # NoRow
                        => sessions[k].password = users[sessions[k].user].password

=============================================================================
