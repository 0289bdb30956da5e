# A verification project for Falcon MCP governor

Falcon is a governance layer between AI agents and MCP tool servers. Agents
speak MCP to Falcon's gateway; Falcon authenticates the agent, looks up a YAML
policy and the trust record of the tool, allows, denies or holds the call for a
human, forwards what it allows, and keeps an audit trail. Admins work in a web
console. This directory holds TLA+ models of that backend (`backend/app`) and of
the part of the console that produces policies (`ui/mcp-governance-ui`), the TLC
configurations that check them and proofs that TLAPS checks: six state machines,
six abstract specifications that five of them implement, and a proof module
for each state machine.

Paths below are relative to the repository.

- [1. The system](#1-the-system)
- [2. The modules](#2-the-modules)
- [3. The runs](#3-the-runs)
- [4. Fairness](#4-fairness)
- [5. The proofs](#5-the-proofs)
- [6. Where the code and its documents disagree](#6-where-the-code-and-its-documents-disagree)
- [7. What is not modelled, and the plan](#7-what-is-not-modelled-and-the-plan)

## 1. The system

### How it runs

One FastAPI process, one SQLite file. Two facts decide what can interleave:

- `POST /mcp/{slug}` (`routers/mcp_gateway.py`) is an `async def` that calls
  `McpGatewayService.handle_request` directly. The service is synchronous, so the
  event loop runs **one gateway request at a time**, upstream HTTP included.
  (The `require_login` middleware of console requests runs on the event loop
  too and waits behind it, so the model's interleavings of admin writes with a
  gateway request are a superset of the real ones: requests already in the
  thread pool do overlap.)
- Every other route is a plain `def`: Starlette runs it in a **thread pool**,
  concurrently with the gateway and with the other routes.

`Database.connect` opens a connection, commits when the `with` block ends
normally and, on an exception, closes without committing. Python's `sqlite3`
opens a transaction before the first INSERT, UPDATE or DELETE only: SELECTs
before it each see what is committed at that moment; from the first write to
the commit the connection holds SQLite's write lock, and other writers wait up
to five seconds and then fail.

### Components

| component | state it keeps | operations | talks to | module |
|---|---|---|---|---|
| policy engine, `policy_engine.py` | none | `parse`, `evaluate`, `upsert_rule`, `upsert_param_rule`, `merge_default_actions` | called by all below | `PolicyEngine` |
| policy administration, `policy_service.py` and the console's policy page | `settings.policy_yaml`; each console's editor | preview rule, preview parameter rule, type, deploy, refresh | engine, settings table | `PolicyAdmin` |
| MCP gateway, `mcp_gateway_service.py`, `gateway_session.py` | sessions in memory; audit, approvals | initialize, tools/list, tools/call, DELETE | engine, all tables, upstream servers | `Gateway` |
| approvals, `approval_service.py` | approvals table | approve, deny, execute an approved call | engine, tables, upstream servers | `Approvals` |
| server registry, `server_service.py`, `security.py` | servers, tools, trust, default actions | create, update, delete, sync | upstream servers, engine | `ServerRegistry` (its default actions in `PolicyAdmin`) |
| agents, `agent_service.py` | agents table | register, remove, toggle status | tables | `Gateway` |
| anomaly detection and alerts, `anomaly_service.py`, `alert_service.py` | alerts table, `settings.alert_rules` | run on every audit row; acknowledge; change the rules | trail, settings | `Alerts` |
| logins and users, `auth_service.py`, `main.py`, `dependencies.py` | users, console sessions | login, logout, resolve, change password, create user, expiry | tables | `Logins` |
| SQLite access, `database.py`, `repositories.py` | the file | `init_schema`; connect, commit, rollback; the write lock | all | `Startup`, `Alerts`, and every transaction of the others |
| gateway simulation, `gateway_invoke_service.py` | audit | invoke | engine, tables | `Alerts`, as one more writer |
| dashboard, audit and tool views | none | read | tables | |
| upstream client, `mcp_client.py` | upstream session id in the gateway session | initialize, tools/list, tools/call | upstream servers | `Gateway`, `Approvals`, `ServerRegistry` |

### What is hard about it

- **Reads that are not one snapshot.** A tools/call reads the server, the policy
  and the trust record in three SELECTs; `_execute_approved` does the same;
  tools/list reads the trust of every tool separately. Deploys, syncs, deletes
  commit in between.
- **A transaction around a remote call.** The audit row of an allowed call is
  inserted, the call is forwarded, and only then is the row committed.
- **Check then act.** An approval's status is checked in a SELECT and changed by an
  UPDATE by id alone; two threads, or an approve and a deny, may both pass.
- **State that outlives its reason.** Gateway sessions outlive a suspension; a
  session's upstream id outlives the endpoint.
- **Restart between two steps.** Sessions are in memory, tables on disk; an
  approval is committed before its call is executed.
- **A long history of edits.** Builders, hand edits and syncs leave exact entries,
  wildcards, overrides and parameter rules whose lookup order decides who may call
  what.
- **A remote call between a read and a write.** A sync reads the server's row, talks to
  the server for up to fifteen seconds, and writes tools and trust records by slug,
  whether or not the row is still the one it read or still there.
- **One writer.** SQLite's write lock is held through the upstream call of an allowed
  tools/call; the others wait for five seconds and fail.
- **A start cut short.** Each CREATE TABLE and ALTER TABLE commits by itself, the rows come
  last; the admin's only password is printed, without a flush, before its row is committed.
- **Requests that outlive their credential.** A login, a change of password and requests
  let in earlier interleave in worker threads.
- **Replies in any order.** The console's builders and refreshes each replace the
  whole editor when they come back.

### What makes each component right

- *Policy engine and administration*: a sync overrules no entry for a tool by name and
  no agent's own configuration (what the default `"*"` decides it does overrule, against
  the documents: section 6); an edit moves nobody's access outside its own scope, server and
  tool; a deny rule denies; listing hides nothing callable; what is stored always
  parses.
- *Gateway*: no row the gateway writes shows a call that did not take place (the simulation
  writes Allowed rows and executes nothing), and an agent never holds a result the trail
  does not show; held calls and Pending rows
  agree; nobody suspended before a restart gets in after it; a session is of no
  use on another server; the decision enforced is the one in force; every request
  is answered.
- *Approvals*: a call runs no more often than it was approved; what reads executed
  was executed and is in the trail; approval does not bypass policy; one decision
  per call; every request is answered.
- *Server registry*: every tool has a trust record and the grade its server earns; a server's
  tools are one discovery's; what a deleted server leaves behind is due to a sync it raced;
  credentials that can be read are sent.
- *Anomaly detection*: one open alert per agent and kind however many writers race, no burst
  missed, the first call of a tool flagged once; the lock comes free and every writer ends.
- *Startup*: a server that takes requests is complete, a start changes nothing it finds, and the
  admin's only password is lost to everybody in one way: the process is killed with its output
  unflushed.
- *Logins*: nobody stays in on an old password; an ended token admits nobody; nobody's account is
  replaced.

The full list of hazards, with the line where each bites and the properties
that cover it, is in `PROJECT.json`.

## 2. The modules

```
PolicyEngine            operators: what a policy decides, how edits change it
  |-- PolicyAdmin       state machine: consoles, deploys, syncs
  |     |-- MCPolicyAdmin
  |     `-- PolicyAdmin_proofs
  `-- Gateway           state machine: gateway requests, admins, upstream, restarts;
        |               implements GovernedCalls
        |-- MCGateway
        `-- Gateway_proofs
GovernedCalls           abstract: what the gateway does with the calls of agents
ApprovalLifecycle       abstract: the life of one held call
ApprovalLedger          abstract: what becomes of the approvals of racing requests
Approvals               state machine: threads that approve, deny and execute;
  |                     implements ApprovalLedger, and ApprovalLifecycle when
  |                     there is one thread
  |-- MCApprovals
  `-- Approvals_proofs
Startup                 actions: init_schema on a new, an older or a used file
TokenLifecycle          abstract: the life of a session token
Logins                  state machine: Startup's steps, then requests of the console;
  |                     implements TokenLifecycle
  |-- MCLogins
  `-- Logins_proofs
Catalogue               abstract: what overlapping requests do to the registry
ServerRegistry          state machine: create, update, delete and sync;
  |                     implements Catalogue
  |-- MCServerRegistry
  `-- ServerRegistry_proofs
AlertBook               abstract: a row of the trail and the alerts it raises
Alerts                  state machine: writers of the trail, the write lock, alerts;
  |                     implements AlertBook
  |-- MCAlerts
  `-- Alerts_proofs
```

### PolicyEngine

A document is a partial function from `<<scope, server, tool key>>` to
`[action, rules]`. The scope is an agent (under `agent_overrides`) or `AllAgents`
(the top-level `servers`); the tool key is a tool or `Star`. `EmptyCfg` is both "no
configuration" and the empty mapping: Python finds both falsy where it matters,
and the difference (an empty exact entry hides the wildcard) is kept in the
function's domain. `ToolCfg`, `EffectiveCfg`, `ParamDecision` and `Evaluate` are
`_tool_cfg_from_servers_cfg`, `_effective_tool_cfg`, `_param_rule` and
`evaluate`; `UpsertRule`, `UpsertParamRule` and `MergeDefaultActions` are the three
edits. Argument values are opaque; the string suffix test is the constant relation
`EndsWithRel`. A rule's decision or an action outside the three known ones is
`"unknown"`, an absent one `"none"`. Integers and case folding of argument values
are not modelled: `str(value)` has been applied.

### PolicyAdmin

`stored` is `settings.policy_yaml`; `draft[c]` the text in console `c`'s editor
(`Malformed` for any text `parse` rejects, the initial empty one included; all the
model knows of it is that it is no policy);
`previews[c][b]` the reply on its way to a builder; `refreshes[c]` the replies on
their way to `refreshAll`. Previews read no stored state, so a request is represented
by its reply, fixed when sent; a refresh reads `stored`, and when within the
request it does so does not matter, since the request's sending touches nothing.
Replies arrive in any order or never. `Deploy` parses and stores the whole text and
starts a refresh; `Sync` is the read-merge-write that
`_sync_real_tools` does under the write lock its first INSERT took.

### Gateway

One handler (`pc`, `req`, `policyRead`, `decision`, `listing`): the event loop.
Each SELECT is a step of its own, as are the upstream call and the commit:

| pc | code |
|---|---|
| `authenticate` | `find_by_api_key_hash`, the status check |
| `handshake` | upstream `initialize`, `sessions.create` |
| `read_policy` | `SettingsRepository.get_policy` |
| `decide` | trust SELECT, `PolicyEngine.evaluate`, `decision_label` |
| `log` | `AuditRepository.log`, anomaly checks, `ApprovalRepository.create` (uncommitted) |
| `forward` | upstream `tools/call` |
| `commit` | the end of `with db.connect()` |
| `reply` | the JSON-RPC reply |
| `list`, `list_policy`, `list_trust` | upstream `tools/list`, policy SELECT, one trust SELECT per tool |

`forward` and `commit` are inside the transaction: `WriteLocked` holds and an admin's
write has to wait. `ForwardTimesOut` is an upstream call that is executed and whose
answer does not arrive; `Raise` every other exception. Both leave the `with`
block without a commit. The environment opens and closes sessions, sends requests,
registers, removes and toggles agents, deploys, saves, deletes and syncs servers, and
restarts the backend, which empties the session store and rolls back.

A request turned away before the handler keeps anything (unknown server, endpoint
that is not http, unknown session) changes nothing and has no action. Passthrough
methods (`ping`, `notifications/*`, `resources/*`, ...) skip policy and audit and
change no state of the backend; they have no action either.

`audit`, `approvals`, `executed` and `delivered` count rows and events per
`<<agent, server, tool>>`: which row is which cannot matter, because rows are only
ever added. Deploys also write a control-plane audit row, with no tool; it is left out.

`GovernedCalls` is the promise: a call is taken only from an agent that initialized on that
server, executes only if some policy in force so far lets it through by itself (`opened`), and ends in one of
four ways: delivered after its Allowed row is in the trail, denied with a Denied row, held with a
Pending row and an approval in one step, or dropped without an answer. The refinement maps `pc` to
the stage a tools/call has reached; the reads, the transaction and its rollback are stutters
between the stages. `opened` is a history variable of `Gateway`.

### ApprovalLifecycle, ApprovalLedger and Approvals

`ApprovalLifecycle` is the promise: a held call is decided once, runs at most once,
only when approved, and reads executed only when it ran. With two threads the code does not
keep it (`approvals_final`). `ApprovalLedger` is what it keeps with any number: every approval is a grant
that is used up once, by an execution or by a Denied row, or lost; an execution is recorded at most once,
its row and the trail together; and a decision may replace another. The refinement counts as grants the
threads that are past their decision (`Unused`) and as results those that ran the call (`Unrecorded`).

`Approvals` is the code: any number of worker threads, each going through `check`
(the SELECT), `decide` (the UPDATE's transaction), `load_server`, `load_policy`,
`load_trust` (three SELECTs), `evaluate`, `log_blocked`, `upstream`, `record`. `tables[i]` is what
the three tables mean for call `i` now: the server is up or not; the policy denies the call,
lets it through if the trust record is verified, or lets it through with any record; and the trust
record. `seen[d]` is what thread `d` has read of them, and `LetsThrough` is
`PolicyEngine.evaluate` on those grades. `Raise` is an exception at any
point where one can occur; `Restart` kills the threads. `approvals` and
`disturbed` are history variables.

### Startup, TokenLifecycle and Logins

`Startup` is `Database.init_schema`. `tables` and `columns` grow by one statement at a time
(`CreateTable`, `AddColumn`); `Fill` is everything the last transaction writes, with the
admin's password printed into the process's output buffer (`buffered`), and `CommitBoot` its commit.
`Flush` is when the password comes out (`known`): at once on a terminal, at any later time on a pipe, as
under Docker, since `print` does not flush and the image does not set `PYTHONUNBUFFERED`; before that, `Stop`
loses it. `Seeded` and `Backfilled` say what it
writes: a missing policy or rules row, a missing key. It starts on a new file, one from
before logins and alerts, or one in use; `Stop` (in `Logins`) may come between any two steps.

`Logins` adds the requests of the console. A thread goes through

| pc | code |
|---|---|
| `verify` | `login`: `find_by_username`, `verify_password`, the status |
| `issue` | `login`: the INSERT of the session and its commit |
| `logout` | `delete_by_token_hash` |
| `resolve` | the `require_login` middleware: `resolve_session` |
| `require` | `require_admin`, which resolves the session once more |
| `exists`, `create` | `create_user`: the SELECT and the INSERT |
| `confirm`, `rotate` | `change_password`: the check of the current password, then UPDATE, DELETE and INSERT |
| `run` | the handler of any other route |

Passwords and tokens are numbers in the order in which they are made; the hashes that are stored
identify them. `expired` is the tokens whose `expires_at` has passed; `resolve_session` deletes
the row of one it meets. `SetStatus` is an operator's edit of the users table: no route
does it, and `resolve_session` and `login` look at the column. `ended`, `known`, `overtaken` and
the fields `late`, `raced` and `password` of jobs and sessions are history for the properties.

`TokenLifecycle` is the promise: a token is issued once, to one user, admits that user's requests until
it ends, and never again; a new password ends all of its user's tokens. The
refinement maps `sessions`, `issued` and `ended` to the holder of each token and the threads
past `resolve` to the admitted requests.

### Catalogue and ServerRegistry

`servers`, `tools` and `trust` are the three tables. A thread goes through `check` (the SELECT of
`exists` or `get`), then `write` (create, update), `list` and `write` (delete: the tools are listed
before the transaction), or `read`, `discover` and `write` (sync: the row is read a second time, the
upstream server is asked, and one transaction replaces tools and trust records without
looking at the row again). `Discover` returns any set of tools; `Fail` is a lock not had in time, an
upstream failure, or an integrity error. `sealed` is the key that encrypted a row's credentials:
`Key` is derived from `FALCON_SECRET_KEY` or made up by each process, and credentials under another
key do not decrypt (`Readable`), whereupon the discovery goes out without them. `disturbed`,
`found`, `regraded` and `haunted` are history. Names, time stamps and risks of tools are
left out; the risk decides the default action, which is `PolicyAdmin`'s.

`Catalogue` is the promise: each request that changes the registry does so in one step. A save writes one
row; a delete takes the row and all the tools, and some of the trust records; a registration replaces one
server's tools by one discovery and grades each by one row that was that server's when it was read, and
uses up that reading. It promises neither that the row is still the one read nor that it is still there,
because the code does not. The refinement maps the threads in `discover` and `write` of a sync to the rows
they have read (`ReadBy`); the checks, the listing of tools and the discovery are stutters.

### AlertBook and Alerts

`audit` is the committed rows in order, with the minute of each; `open` and `flagged` count the
alerts; `lock` is SQLite's write lock. A thread begins a call (`waiting` for the lock), has its
INSERT go through and the checks run in the same transaction (`Write`), and commits or rolls
back; an allowed tools/call of the gateway makes its upstream call in between. `GiveUp` is the busy
timeout. A time stamp is taken when the row is built and the cutoff when the checks run, so
the clock may tick in between. `checked` is false for the rows of an executed approval, which
`_execute_approved` writes without `check_with_conn`; such a call was held, so its Pending row is there.
`rules` holds a threshold and a window for each of the three window types, as the console saves
them, and `Settings` is what admins may save; a window of zero counts nothing, since the cutoff is taken after
the row's time stamp. `rules.broken` is an `alert_rules` setting of the wrong shape, which `PUT /api/alert-rules` accepts
and which makes the checks raise in the writer's transaction. The simulation's rows and the gateway's cannot
be told apart here: both are a call with a label.

`AlertBook` is the promise: a row and the alerts it raises appear in one step, and they are what the rules
call for on the trail the row ends, each type judged at some moment between the row's time stamp and now; an
alert of a type and agent is open or is not, so there are never two. `open`, `flagged` and `rules` are the
same in both; waiting, writing and rolling back are stutters. The moment is not the commit's: the checks run
at the INSERT, and an upstream call of many seconds may lie in between.

## 3. The runs

All runs use two workers at most and end within five minutes. Deadlock is checked in each: no
state of these systems is a dead end, because admins and agents can always act.

| run | question | instance and bounds |
|---|---|---|
| `policy` | what may builders, deploys and syncs change in who may call what? | 2 agents, 2 tools, 1 server, wildcard, 1 parameter with an internal and an external value; 5 starting documents; `MaxEdits` = 1, `MaxRefreshes` = 1 |
| `gateway` | trail, admission, decisions, listings; refinement | 1 agent, server, tool and session id; 3 documents; `MaxRequests` = 3, `MaxRestarts` = 1 |
| `gateway_two_servers` | sessions across servers; every request answered | 2 servers, 1 document, `MaxRequests` = 2 |
| `approvals` | threads racing on one held call; refinement; liveness | 2 threads, 1 call, 18 contents of the tables, 1 restart |
| `logins` | starts, sessions and accounts; refinement | 2 users, 1 agent, 2 threads, 3 databases to start from, restarts without limit; requests on one of the databases, once the first password has come out; at most 3 sessions and 3 passwords, together 5; one expired session or suspended user at a time |
| `registry` | tables against each other and against the servers | 1 slug, 2 tools, 2 threads, with and without `FALCON_SECRET_KEY`, 1 restart |
| `alerts` | alerts, rollbacks and the lock | 1 agent, 1 tool, 2 threads, 3 calls, 2 ticks, 4 settings |
| 5 runs that end in a violation | section 6 | the smallest instance that shows it |

Why the bounds are enough:

- `policy`: properties about edits are action properties over arbitrary documents, so
  what counts is the variety of documents an edit starts from, not the length of the
  history. The five starting documents have: nothing; a wildcard with an exact
  override; an exact entry with a parameter rule; an exact *empty* entry beside a
  wildcard with a two-operator rule that has no decision key; a rule that allows. Every single edit at
  every scope, key and action is applied to each, and syncs and deploys
  without limit on top.
- `gateway`: three requests are what it takes to initialize, call, and call or list again
  after something changed. The three documents bring out allow, deny,
  require_approval, an override, a parameter rule and a label that nothing knows.
  Trust starts anywhere, with records no route writes included (Revoked is only
  ever set in the database), and one restart separates a before from an after. One
  agent is enough for `OnlyAdmittedAgents` and the counts, which relate no two agents.
- `gateway_two_servers`: two servers are what `InitializedFirst` needs.
- `approvals`: two threads make every race of the check with the update. One call is enough:
  threads meet through the row they share. The theorems hold for any number of both.
- `logins`: two threads make every race of a login, a change of password and a request let in
  earlier; three sessions are a victim, a racer and the one that rotates. The state
  constraints of `MCLogins` (`OneBusyDatabase`, `FewEvents`, `FewSessions`) let requests run on
  one of the databases only, a start having made all of them alike, and only once the first password has
  come out (no request looks at the output); starts are explored on all, with every loss of output.
- `registry`: threads meet through one slug's rows; two tools are what a mixture of two
  discoveries needs. `BareUnlessHttp` leaves out rows that differ from others only in
  columns nobody reads.
- `alerts`: with threshold 2 and 3 calls the threshold is met and passed, a call may be rolled back or
  fall out of the window, and an alert be acknowledged and raised again. The four settings an admin may
  save at any time are this one; the same in the wrong shape; thresholds of 1 with two types off; and
  thresholds and windows of zero. One agent and one tool:
  no check relates two agents, and two tools differ only in `flagged`, which is by tool.

Symmetry of the threads (and, in `registry`, of the tools) is used in `logins` and `registry`, which
check no liveness.

What each property says is in the comment above it. The ones that carry the most:

- `AuditBracketsExecution`: *results delivered <= Allowed rows <= executions*, per call,
  through timeouts, failures and restarts. It is the most the code keeps of "every
  call is audited": the gap on the right is the finding `gateway_unaudited`.
- `ImplementsGovernedCalls`: the gateway, its admins, failures and restarts together do what
  `GovernedCalls` says. In particular approval rows and Pending rows agree in number, always.
- `OnlyAdmittedAgents`: a restart ends every session, so an agent that was suspended before
  it stays out. Within one life of the process it does not (`gateway_suspended`).
- `DecisionIsCurrent`, `ListingIsCurrent`: if policy and trust were left alone since the
  request came in, the decision enforced, and the tools listed, are those they call for now. If
  they were not, the SELECTs may mix old and new, and these two promise nothing; what is still
  promised then is that some policy so far opened the call (`ImplementsGovernedCalls`).
- `SyncKeepsNamedEntries`: whatever calls a sync decides differently had no entry by name and no
  governing override, only the default `"*"` or nothing, and what it opens is a verified Low-risk
  tool. It is what the code keeps of "without touching rules you've already set"; that a `"*"` covers
  a tool too is `policy_covered`.
- `StagedRuleIsLocal`, `DenyRuleTakesEffect`: an edit's reach is exactly its scope, server and
  tool (or, at `*`, the tools the scope does not name).
- `RunsAreApproved`: *Allowed rows <= executions <= approvals* of one held call, however many
  threads race. Runs may exceed one: two approvals may both pass the check.
- `ImplementsLedger`: with two threads, no approval is used twice and no execution recorded
  twice. In particular a row that reads executed has its Allowed row in the trail.
- `PolicyStillBinds`: approval does not bypass policy; while server, policy and trust
  stay what they were when the approval was committed, the call goes upstream only if
  they let it through, whatever they said when it was held. If they change in
  between, the three SELECTs may mix old and new, and nothing is promised.
- `ParamRuleMovesItsCalls`: a parameter rule moves the calls it fires on and those of the rule it
  replaces; on a key that had no entry, it closes everything it reaches.
- `ImplementsCatalogue`: overlapping saves, deletes and syncs, with failures and restarts, never leave more
  behind than some of them done one after the other on the rows they read. In particular a server's tools are
  one discovery's, never a mixture of two, and so are their grades.
- `ToolsHaveTrust`, `GradesFollowServer` (graded as the guide's section on syncing says, at every sync;
  its section on registering says otherwise: section 6), `GhostsNeedARace`: tools, trust records and servers agree
  through overlapping syncs, updates and deletes, except where a sync was under way when
  its row changed; exactly then a deleted server may keep tools and a re-trusted one old grades.
- `CredentialsAreSent`: a discovery carries the credentials unless a process without
  `FALCON_SECRET_KEY` has been restarted since they were saved.
- `ImplementsAlertBook`, `BurstIsNoticed`, `FirstCallsAreFlagged`: never two alerts, never none, with any
  interleaving of writers, rollbacks, acknowledgements and ticks; no alert without its row, no alert that was
  not due, and none on rules that were not in force.
- `ServesReady`, `OnlyAKillLosesPassword`: a start cut short anywhere is made good by the next one, and the
  admin has a password that nobody saw only after a process was killed that served requests with the password
  still in its output buffer. A start cut short before its commit loses nothing: the
  next one makes up another password and prints that.
- `SessionsFollowPassword`: a session rests on its user's current password, unless its login
  verified the old one before the change and inserted its row after (`logins_rotation`).
- `ImplementsTokenLifecycle`: logged out, expired or rotated away is for good, across
  threads and restarts. A request let in earlier may still finish.

Every property of a passing run has a mutant in `PROJECT.json`: a changed definition,
kept beside the one it changes and labelled as a mutant, that breaks it.

## 4. Fairness

`Gateway!FairSpec` has `WF_vars(HandlerStep)`: each of the handler's own steps is a
database call, which returns or fails after SQLite's busy timeout, or an upstream call,
which carries a timeout (`mcp_client.py`), so the handler cannot sit at a step for
ever. Agents, admins and restarts have no fairness. `EveryRequestAnswered` uses it.

`Approvals!FairSpec` has weak fairness of each thread's own steps for the same
reason; nobody is obliged to approve anything, and `Hold`, `Ask`, `Change` and `Restart`
have none. `EveryRequestServed` uses it, in the run.

`Alerts!FairSpec` has weak fairness of each thread's own steps: a writer that waits either gets
the lock or is told "database is locked" after five seconds, one that has it commits, or fails when its
upstream call runs into its timeout, and a thread that can run is run. Callers, admins and the clock
have none. `LockIsReleased` and `EveryWriterEnds` use it, in the run.

The proofs of liveness use a form of the same without ENABLED, which the prover cannot handle:
`ThreadGoesOn(d)` says of a thread that it is idle again and again or takes steps of its own again and again
(`HandlerGoesOn` the same of the handler). Weak fairness of a thread's steps says so whenever a
thread that is busy can step. In `Approvals` one of `Accept` and `Reject` is always enabled at the check, a read
always is, and everywhere else the thread can raise; the run `approvals` checks liveness under
weak fairness itself; in `Alerts` a writer that waits gets a free lock or gives
up, and one that writes can roll back;
in `Gateway` the handler's steps leave out no outcome of a read, and the run `gateway_two_servers`
checks liveness under weak fairness itself; in `ServerRegistry` and `Logins` a busy thread can always
fail (`Fail`). `Logins!BootGoesOn` says the same of a start: each statement of `init_schema` runs or the start
is stopped. (A statement can fail only by stopping the process, which is `Stop`; `Fill` is held back by nothing but the
model's bound on passwords.) The properties proved from these, `EveryRequestEnds` of `ServerRegistry` and
`Logins` and `StartsComeUp`, are in no run; their theorems are.

## 5. The proofs

The six proof modules, and two of the abstract specifications, prove theorems for **every** value of the
constants: any number of agents, servers, tools, threads, sessions, requests, consoles, rows and
restarts, under the assumptions named in the modules: wildcard and scope
names are distinct from tools and agents, the documents an admin writes are policies and what is no policy is
none, discoveries name tools, "admin" is a user name and the model's markers are not,
the rules admins save have the shape of `Rules` (`Alerts`), threads are finitely many (`Alerts`). TLC checks each assumption on its
instances.

| module | theorem | states | by |
|---|---|---|---|
| `Gateway_proofs` | `TypeCorrect` | `TypeOK` | `Shape` |
| | `TrailIsHonest` | `AuditBracketsExecution` | `Shape`, `Brackets` |
| | `HeldCallsAreAudited` | approval rows and Pending rows agree in number | `Shape` |
| | `SessionsAreAdmitted` | `OnlyAdmittedAgents` | `Admission` |
| | `CallsAreIntroduced` | `InitializedFirst` | `Introduced` |
| | `DecisionsAreCurrent` | `DecisionIsCurrent` | `Current` |
| | `ListingsAreCurrent` | `ListingIsCurrent` | `ListingCurrent` |
| | `CallsAreGoverned` | `ImplementsGovernedCalls` | `OpenedCalls`, `Introduced` |
| | `OnlyOpenedCallsExecute` | nothing executes that no policy so far opened, or for an agent that never initialized there | the refinement, `GovernedCalls!OnlyOpenedExecute` |
| | `CallsAreAnswered` | every initialize and tools/call ends, if the handler goes on | `StepsLeft` |
| `Approvals_proofs` | `TypeCorrect` | `TypeOK` | itself |
| | `ExecutionsAreRecorded` | a row that reads executed has an Allowed row | itself, with `TypeOK` |
| | `ApprovalsStayBound` | `PolicyStillBinds` | `SeenIsCurrent` |
| | `ExecutionsAreApproved` | `RunsAreApproved` | `Covered` |
| | `OneThreadImplementsLifecycle` | `ImplementsLifecycle`, if there is one thread | `InStep` |
| | `OneThreadRunsOnce` | with one thread a held call runs at most once, and never if it reads denied | the refinement, `ApprovalLifecycle!LifeRunsOnce` |
| | `ThreadsImplementLedger` | `ImplementsLedger` | `Covered`, `HeldWhenDeciding` |
| | `RequestsAreServed` | `EveryRequestServed`, if the threads go on | `StepsLeft` |
| `PolicyAdmin_proofs` | `TypeCorrect` | `TypeOK` | `Shape` |
| | `ListingHidesNoOpenTool` | `CallableIsVisible` | `TypeOK` |
| | `SyncMovesOnlyTheSilent` | `SyncKeepsNamedEntries` | lemmas on `MergeDefaultActions` |
| | `BuildersAreLocal` | `StagedRuleIsLocal` | `PutCfgTouches` |
| | `DenyRulesDeny` | `DenyRuleTakesEffect` | `ReachedGetTheEdit` |
| | `ParamRulesMoveTheirCalls` | `ParamRuleMovesItsCalls` | `OthersDecideAsBefore` |
| | `SyncAgainChangesNothing`, `SyncsOfTwoServersCommute` | a repeated sync is one sync; syncs of two servers, in either order | operators |
| | `RuleAgainChangesNothing`, `ParamRuleAgainChangesNothing` | a builder pressed again changes nothing | `PutTwice`, `FirstIsThere` |
| | `EditsOfTwoEntriesCommute`, `RuleAndParamRuleCommute`, `RuleAndSyncCommute` | edits that may be made in either order | `PutsCommute`, `PutReplaces` |
| | `VerifyingOpensUndecidedCalls` | what verifying a tool changes: the allowed calls no parameter rule decides | operators |
| `ServerRegistry_proofs` | `TypeCorrect` | `TypeOK` | itself |
| | `ToolsAreGraded` | `ToolsHaveTrust` | who writes the tables |
| | `OneDiscoveryAtATime` | a server's tools are the last discovery's, or none | who writes the tables |
| | `GradesAreTheServers` | `GradesFollowServer` | `HoldsRow` |
| | `NoGhostWithoutARace` | `GhostsNeedARace` | `HoldsRow` |
| | `DiscoveriesAreAuthenticated` | `CredentialsAreSent` | `OneKey` |
| | `RegistryIsACatalogue` | `ImplementsCatalogue` | `ReadingBegins`, `ReadingEnds`, `ReadingKept` |
| | `RequestsEnd` | `EveryRequestEnds`: every create, update, delete and sync ends, if the threads go on | `StepsLeft` |
| `Logins_proofs` | `TypeCorrect`, `ReadyWhenUp`, `SessionsRestOnPassword`, `EndedTokensAdmitNobody` | `TypeOK`, `ServesReady`, `SessionsFollowPassword`, and that a request whose token had ended when it came is not let in | `IInv` |
| | `OnlyKillsLosePasswords` | `OnlyAKillLosesPassword` | `IInv`, `AdminStays` |
| | `StartsOnlyFillGaps`, `AccountsAreKept` | `BootOnlyFillsGaps`, `AccountsKept` | `IInv` |
| | `TokensFollowTheirLifecycle` | `ImplementsTokenLifecycle` | `IInv` |
| | `StartsEnd` | `StartsComeUp`: a start on any file comes up or is stopped, if its statements go on | `StatementsLeft` |
| | `RequestsEnd` | `EveryRequestEnds`: every request of the console ends, if the threads go on | `StepsLeft` |
| `Alerts_proofs` | `TypeCorrect`, `OneAlertAtATime`, `FirstCallIsFlagged`, `BurstsAreNoticed` | `TypeOK`, `OneOpenAlert`, `FirstCallsAreFlagged`, `BurstIsNoticed` | `IInv` |
| | `AlertsAreABook` | `ImplementsAlertBook` | `Moments` |
| | `WritersEnd`, `LocksAreReleased` | `EveryWriterEnds`, `LockIsReleased`, if the threads go on | `IInv`, `HolderWrites` |
| `ApprovalLifecycle`, `GovernedCalls` | `LifeRunsOnce`, `OnlyOpenedExecute` | what the abstract specifications amount to | in the theorem |

The argument. None of the invariants is inductive as it stands:

- `Shape` adds to `TypeOK` what the handler's local variables hold at each point: past
  `idle` there is a request; in a tools/call it names a tool; from `log` on the decision is
  one of the three, and at `forward` it is allow. It is proved in two groups, the handler's
  steps (`ShapeHandler`) and everybody else's (`ShapeEnvironment`), and everything else
  is proved relative to it. The one obligation with data in it is that a sync makes
  a policy of a policy (`MergeIsPolicy`).
- `Brackets` adds two debts to the inequalities: at `commit` after an allow, one more
  execution than Allowed rows for this call; at `reply`, one more Allowed row than results
  delivered. `OneRowMore` and `CommitCounts` say what one more row does to the counts.
- `Admission` adds that from `handshake` on the request's agent is admitted;
  `Introduced` that a session, and a call in progress, has its handshake.
- `OpenedCalls` says that a call the policy the handler has read would allow is among those some policy
  has opened, from the read to the upstream call. With it and `Introduced`, every step of the handler
  (`GovernedHandler`) and of everybody else (`GovernedEnvironment`) is a step of `GovernedCalls` or leaves its variables
  alone. What `GovernedCalls` guarantees of executions is proved there once and carried over.
- `Current` adds that `policyRead` is the policy as long as `quiet`; `ListingCurrent`
  that the visible tools are the judged ones the policy does not deny.
- `SeenIsCurrent`: unless the tables changed since its decision, what a thread has read is what they
  say, table by table as it reads; a thread that calls upstream has read what lets the call
  through.
- `Covered` is the counting argument for any number of racing threads: executions plus the threads that
  hold an approval they have not used are no more than the approvals, and Allowed rows plus
  the threads that ran the call and have not recorded it are no more than the
  executions. The sets of such threads stay finite because a step adds at most one.
- `InStep` says, with one thread, what the row and the runs are at each point; every
  step is then one of `ApprovalLifecycle` or leaves its variables alone
  (`LifecycleStep`). With two threads it is false.
- `ThreadsImplementLedger` needs that the row of a thread about to decide is there (`HeldWhenDeciding`), and how
  each step moves the two numbers of threads: out of `Unused`, from `Unused` to `Unrecorded`, out of
  both, or, at a restart, all of them to none.
- Liveness: a thread or handler goes through its points in one order, so the points still ahead of it (`StepsLeft` in
  `Gateway`, `Approvals`, `ServerRegistry` and `Logins`; two at most in `Alerts`) are fewer after each of its own steps and the same after
  everybody else's; with steps again and again it must come to `idle`. For `Alerts` the lock matters:
  one who holds it is writing (`HolderWrites`). For a start the measure is the statements not run yet
  (`StatementsLeft`): the tables and columns still missing, then the rows, then their commit; it is ten at most.
- `PolicyAdmin_proofs` is mostly about data. `PutCfgTouches` says which lookups an edit at one key
  changes, through the fallback to `Star`; `UnreachedKeepTheirCfg` and `ReachedGetTheEdit` carry that
  through the fallback from an agent's own block to the default one; a decision depends on nothing but the
  configuration found (`SameCfgSameDecision`). `MergeKeepsOwn` and `MergeDefaults` do the same for a sync.
  `OthersDecideAsBefore` shows that a replaced or appended parameter rule leaves the first rule
  that fires where it was, for every call it is not about; that a first one exists is `FirstIsThere`, from the
  well-foundedness of the naturals.
- `HoldsRow`: a sync that is not `disturbed` holds its server's row as it is now, so what it registers is
  graded by the row that is there. `OneKey`: under `FALCON_SECRET_KEY` there is one
  key, and every row and job is sealed with it or not at all.
- `RegistryIsACatalogue`: a step of a thread takes its own reading out of the readings, adds it, or leaves it,
  and touches nobody else's (`ReadingEnds`, `ReadingBegins`, `ReadingKept`); what a registration writes is graded by the
  row its reading holds. A restart or a failure takes readings away and writes nothing.
- `IInv` of `Logins` adds to the types what a start has done at each point of it (a filled start has all tables
  and columns, and if it commits a new admin, a password that came out or is still in the buffer), that each token's row, expiry and end agree on where it is in its
  life (`Aged`), and what a thread may rely on at each point (`Serving`): one about to issue a session
  holds its user's current password unless it has been overtaken, and one past `resolve` came with a token
  that had not ended. From it, every step is a step of `TokenLifecycle` or leaves its variables alone.
- `IInv` of `Alerts` says of the thread that holds the lock that what its checks found is still so
  (`Findings`): no alert it is about to raise is open, a type whose threshold its row meets is raised or open
  already, and its row is still the first of its tool if it was. No other thread writes, and
  acknowledging and changing the rules need the lock and cannot come in between. `RowPerCall`
  bounds the trail by the calls begun. The rows within a window
  only become fewer while the clock ticks, which is why a burst counted at the commit was
  counted at the checks.
- `Moments`: what a writer has raised was due at some moment since its row's time stamp, on tables that are still
  as they were (`WriterIsAlone`: as long as a thread writes, nothing it looked at changes). So its commit is the one step
  `AlertBook` asks for, judged at that moment, and every other step is one of the book's or leaves it alone.
- The builders and a sync each put one entry, or only entries that are missing, so the order of two edits matters only
  if both write the same part of one entry (`PutsCommute`). A parameter rule and a sync do not commute: the rule, put
  before the tool is discovered, leaves an entry without an action, which denies, and the sync leaves it so.

Only model-checked:

- that weak fairness makes busy threads go on, which needs ENABLED:
  `EveryRequestAnswered`, `EveryRequestServed`, `LockIsReleased` and `EveryWriterEnds` under `FairSpec` itself;
- that tools/list ends (the rest of `EveryRequestAnswered`): it takes as many steps as the server has tools, and
  the proof would be an induction over their number.

Every other property of a passing run is a theorem. `ImplementsLifecycle` is proved and in no run: the runs have two
threads, with which it is false (`approvals_final` shows the trace). Out of this prover's reach and not attempted: ENABLED,
induction over data, RECURSIVE operators (there are none in this project).

## 6. Where the code and its documents disagree

Each of these is a run whose property states what a document or a comment says, and which
TLC violates; quotes and lines are in `PROJECT.json`.

| run | the document or comment | the code |
|---|---|---|
| `gateway_unaudited` | every tools/call is in the trail | an executed call whose answer fails has its row rolled back |
| `gateway_suspended` | a suspended agent is blocked immediately | its open session goes on |
| `approvals_final` | a decided approval is not decided again | two requests that saw it pending both decide |
| `logins_rotation` | a new password ends every session of its user | a login that overlaps the change keeps its session |
| `policy_covered` | a sync gives defaults to tools the policy does not cover | a tool covered by `"*"` gets an entry of its own, which hides the `"*"` |

Met while modelling and left without a run:

- the admin's only password is printed without a flush (`database.py:208`) and its row committed: a process that
  is killed in between has shown it to nobody, and the next start makes up none, while `docs/usage-guide.md:31-32`
  says the first boot prints it. `OnlyAKillLosesPassword` says that this is the one way to lose it;
- a sync replaces the trust record of every tool it discovers (`server_service.py:174`), as
  `docs/usage-guide.md:160-161` has it ("Upsert a trust record per tool"), while lines 151-153 apply the server's
  trust "unless a trust record already exists for that tool". `GradesFollowServer` states the first;
- "Needs approval" is looked at only after `require_approval` and the parameter rules have had their say, so a rule
  that allows lets such a tool through and an approved call of it runs (`docs/index.html:652`: "blocked regardless of
  policy action");
- of several parameter rules that fire the first decides, so an allow rule may hide a deny rule
  (`docs/usage-guide.md:202`: "A firing `deny` rule always wins");
- an approval that reads approved, its call having failed or been blocked, can be neither retried nor denied, while
  the comments at `approval_service.py:75` and `:97` leave it for the admin to deny or retry;
- a server that is deleted keeps the trust records of tools that an earlier sync had dropped, while the console
  says "This also removes its tools and trust records" (`servers.component.ts:96`);
- an approved call whose answer times out ran upstream and has no Allowed row (the gap of
  `gateway_unaudited` on another path), and it goes upstream without the server's credentials;
- an alert rule with a window of zero minutes never counts anything;
- the replies of the console's two builders and of a refresh each replace the whole editor, so a
  late one drops what another staged.

## 7. What is not modelled, and the plan

Not modelled, and why:

- cryptography and key hashing: a key, token or password is identified by what is stored of it;
- the HTTP exchange with an upstream server: a call succeeds, fails, or times out after it took effect. The
  upstream session id a gateway session keeps is data whose meaning is the upstream
  server's own;
- YAML syntax: a text parses to a document or does not. A null mapping (`servers:` with nothing
  under it) is not among the documents: it parses, evaluates like an empty one, and makes the next sync and
  every preview at that block fail;
- views that only read (dashboard, audit, tools, list endpoints), and the console's forms, apart
  from the requests they send;
- the two statements of `toggle_status`: whatever is written in between, the UPDATE sets the row to
  Active or Suspended if there is one, which for everybody else is a toggle or nothing;
- the example servers and agent in `local-test-setup`, which are not part of the product.

What would come next: upstream session ids across an update of the endpoint; a null mapping in the documents; the console's handling of a late 401.
