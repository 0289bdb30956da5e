--------------------------- MODULE ServerRegistry ---------------------------
(***************************************************************************)
(* server_service.py: servers are created, updated, deleted and synced by  *)
(* requests in worker threads of their own.  Each reads first and writes   *)
(* in one transaction at its end; a sync talks to the upstream server for  *)
(* up to fifteen seconds in between.  No foreign key ties tools and trust  *)
(* records to a server, and the process may stop and start again.          *)
(*                                                                         *)
(* The default actions a sync merges into the policy are in PolicyAdmin.   *)
(***************************************************************************)
EXTENDS Naturals

CONSTANTS
    Slugs,        \* server slugs
    Tools,        \* tool names
    Threads,      \* worker threads
    MaxProcesses  \* bound: starts of the backend

ASSUME RegistryAssumption == MaxProcesses \in Nat \ {0} /\ Slugs # {}

VARIABLES
    servers,   \* servers[s]: the row of slug s
    tools,     \* tools[s]: names in the tools table
    trust,     \* trust[s][t]: the trust record of a tool, or "none"
    secretKey, \* FALCON_SECRET_KEY is set
    process,   \* starts of the backend so far
    pc,        \* pc[d]: where thread d is
    job,       \* job[d]: the request it serves
    disturbed, \* history: syncs whose server row has changed since they read it
    found,     \* history: found[s]: what the last sync to commit had discovered
    regraded,  \* history: slugs whose row has changed since the last sync to
               \* commit had read it
    haunted    \* history: slugs with a disturbed sync since the last delete

registry == <<servers, tools, trust>>
history == <<disturbed, found, regraded, haunted>>
vars == <<registry, secretKey, process, pc, job, history>>

Keys     == 1..MaxProcesses
Trusts   == {"Trusted", "Needs review"}
Rows     == [endpoint : {"http", "other"}, trust : Trusts, sealed : {0} \cup Keys]
NoServer == [endpoint |-> "none", trust |-> "none", sealed |-> 0]
Grades   == {"none", "Needs approval", "Verified"}
Ops      == {"create", "update", "delete", "sync"}
PCs      == {"idle", "check", "list", "read", "discover", "write"}

(* row is the row to be saved, or the one a sync has read; tools is what a *)
(* delete has listed or a sync has discovered; authenticated, for the      *)
(* properties, whether the discovery carried the credentials.              *)
Jobs  == [op : Ops, slug : Slugs, row : Rows \cup {NoServer},
          tools : SUBSET Tools, authenticated : BOOLEAN]

TypeOK ==
    /\ servers \in [Slugs -> Rows \cup {NoServer}]
    /\ tools \in [Slugs -> SUBSET Tools]
    /\ trust \in [Slugs -> [Tools -> Grades]]
    /\ secretKey \in BOOLEAN
    /\ process \in 1..MaxProcesses
    /\ pc \in [Threads -> PCs]
    /\ job \in [Threads -> Jobs]
    /\ disturbed \subseteq Threads
    /\ found \in [Slugs -> SUBSET Tools]
    /\ regraded \subseteq Slugs /\ haunted \subseteq Slugs

Request(op, s, row) ==
    [op |-> op, slug |-> s, row |-> row, tools |-> {}, authenticated |-> FALSE]

NoJob == Request("sync", CHOOSE s \in Slugs : TRUE, NoServer)

Init ==
    /\ servers = [s \in Slugs |-> NoServer]
    /\ tools = [s \in Slugs |-> {}]
    /\ trust = [s \in Slugs |-> [t \in Tools |-> "none"]]
    /\ secretKey \in BOOLEAN
    /\ process = 1
    /\ pc = [d \in Threads |-> "idle"]
    /\ job = [d \in Threads |-> NoJob]
    /\ disturbed = {} /\ found = [s \in Slugs |-> {}]
    /\ regraded = {} /\ haunted = {}

Slug(d) == job[d].slug
There(d) == servers[Slug(d)] # NoServer

(* Thread d goes on with the job j, or is done.                            *)
Step(d, from, to, j) ==
    /\ pc[d] = from
    /\ pc' = [pc EXCEPT ![d] = to]
    /\ job' = [job EXCEPT ![d] = j]
    /\ UNCHANGED <<secretKey, process>>

Finish(d, from) == Step(d, from, "idle", NoJob)

-----------------------------------------------------------------------------
(* Keys and credentials (security.py): the key is derived from             *)
(* FALCON_SECRET_KEY, or made up by each process.                          *)
Key == IF secretKey THEN 1 ELSE process

(* Mutant of Readable: credentials are read by the process that wrote them.*)
ReadableByWriter(row) == row.sealed = process

(* _auth_headers: none, if the credentials do not decrypt.                 *)
Readable(row) == row.sealed = Key

(* A request of the console reaches a thread.  Credentials left empty in a *)
(* form are saved as none.                                                 *)
Ask(d, op, s, row) ==
    /\ Step(d, "idle", "check", Request(op, s, row))
    /\ UNCHANGED <<registry, history>>

AskAny(d) ==
    \E s \in Slugs :
       \/ Ask(d, "delete", s, NoServer) \/ Ask(d, "sync", s, NoServer)
       \/ \E op \in {"create", "update"}, row \in Rows :
             row.sealed \in {0, Key} /\ Ask(d, op, s, row)

-----------------------------------------------------------------------------
(* exists or get, a SELECT of its own: on to the next step, 404 or 409.    *)
AfterCheck == [create |-> "write", update |-> "write", delete |-> "list",
               sync |-> "read"]

Check(d) ==
    /\ There(d) <=> job[d].op # "create"
    /\ job[d].op = "sync" => servers[Slug(d)].endpoint = "http"
    /\ Step(d, "check", AfterCheck[job[d].op], job[d])
    /\ UNCHANGED <<registry, history>>

Reject(d) ==
    /\ There(d) <=> job[d].op = "create"
    /\ Finish(d, "check")
    /\ UNCHANGED <<registry, history>>

(* The row of s changes under the syncs that have read it.                 *)
RowChanges(d, s) ==
    /\ disturbed' = {c \in Threads : c # d /\
                       (c \in disturbed \/
                         (Slug(c) = s /\ job[c].op = "sync"
                                      /\ pc[c] \in {"discover", "write"}))}
    /\ regraded' = regraded \cup {s}
    /\ UNCHANGED found

(* INSERT, or an UPDATE that finds the row or does not.                    *)
Save(d) ==
    /\ job[d].op \in {"create", "update"}
    /\ There(d) <=> job[d].op = "update"
    /\ Finish(d, "write")
    /\ servers' = [servers EXCEPT ![Slug(d)] = job[d].row]
    /\ RowChanges(d, Slug(d))
    /\ UNCHANGED <<tools, trust, haunted>>

(* The row has gone since the check: the UPDATE changes nothing.           *)
SaveNothing(d) ==
    /\ job[d].op = "update" /\ ~There(d)
    /\ Finish(d, "write")
    /\ UNCHANGED <<registry, history>>

-----------------------------------------------------------------------------
(* delete: list_for_server, then one transaction.                          *)

ListTools(d) ==
    /\ Step(d, "list", "write", [job[d] EXCEPT !.tools = tools[Slug(d)]])
    /\ UNCHANGED <<registry, history>>

Without(s, gone) ==
    [trust EXCEPT ![s] = [t \in Tools |-> IF t \in gone THEN "none" ELSE @[t]]]

DeleteServer(d) ==
    /\ job[d].op = "delete"
    /\ Finish(d, "write")
    /\ servers' = [servers EXCEPT ![Slug(d)] = NoServer]
    /\ RowChanges(d, Slug(d))
    /\ haunted' = haunted \ {Slug(d)}

(* Mutants of Delete: the tools are deleted one by one as listed and the   *)
(* trust records by their slug; the tools are left to the next sync.       *)
DeleteListedTools(d) ==
    /\ DeleteServer(d)
    /\ tools' = [tools EXCEPT ![Slug(d)] = @ \ job[d].tools]
    /\ trust' = Without(Slug(d), Tools)

DeleteTrustOnly(d) ==
    /\ DeleteServer(d)
    /\ trust' = Without(Slug(d), job[d].tools)
    /\ UNCHANGED tools

(* All the tools there are now, the trust records of those listed before.  *)
Delete(d) ==
    /\ DeleteServer(d)
    /\ tools' = [tools EXCEPT ![Slug(d)] = {}]
    /\ trust' = Without(Slug(d), job[d].tools)

-----------------------------------------------------------------------------
(* sync.                                                                   *)

(* An endpoint that is not http has nothing to discover.                   *)
NothingToSync(d) ==
    /\ job[d].op = "sync" /\ servers[Slug(d)].endpoint = "other"
    /\ Finish(d, "check")
    /\ UNCHANGED <<registry, history>>

(* The row is read a second time, and is None by then or not.              *)
ReadServer(d) ==
    /\ There(d)
    /\ Step(d, "read", "discover", [job[d] EXCEPT !.row = servers[Slug(d)]])
    /\ UNCHANGED <<registry, history>>

(* initialize, notifications/initialized and tools/list upstream, with the *)
(* headers of the row as it was read.                                      *)
Discover(d, names) ==
    /\ job[d].row.endpoint = "http"
    /\ Step(d, "discover", "write",
            [job[d] EXCEPT !.tools = names,
                           !.authenticated = Readable(job[d].row)])
    /\ UNCHANGED <<registry, history>>

(* Mutants of Grade: the tools take over the server's trust as it is; the  *)
(* test is for a value the server form does not have.                      *)
GradeVerbatim(serverTrust) == serverTrust

GradeUnlessUntrusted(serverTrust) ==
    IF serverTrust = "Untrusted" THEN "Needs approval" ELSE "Verified"

Grade(serverTrust) ==
    IF serverTrust = "Trusted" THEN "Verified" ELSE "Needs approval"

Graded(d) ==
    [trust EXCEPT ![Slug(d)] =
       [t \in Tools |-> IF t \in job[d].tools THEN Grade(job[d].row.trust)
                        ELSE @[t]]]

RegisterAs(d, names, grades) ==
    LET s == Slug(d)
    IN /\ job[d].op = "sync"
       /\ Finish(d, "write")
       /\ tools' = [tools EXCEPT ![s] = names]
       /\ trust' = grades
       /\ found' = [found EXCEPT ![s] = job[d].tools]
       /\ regraded' = IF d \in disturbed THEN regraded \cup {s}
                      ELSE regraded \ {s}
       /\ haunted' = IF d \in disturbed THEN haunted \cup {s} ELSE haunted
       /\ disturbed' = disturbed \ {d}
       /\ UNCHANGED servers

(* Mutant of Register: the tools that are gone upstream are kept.          *)
RegisterAdding(d) == RegisterAs(d, tools[Slug(d)] \cup job[d].tools, Graded(d))

(* One transaction: the server's tools are replaced, each has its trust    *)
(* record replaced.  Whether the server is still there is not looked at.   *)
Register(d) == RegisterAs(d, job[d].tools, Graded(d))

-----------------------------------------------------------------------------
(* A lock not had in time, an upstream server that does not answer, a row  *)
(* inserted or gone meanwhile, a tool listed twice: nothing is committed.  *)
Fail(d) ==
    /\ \E from \in PCs \ {"idle"} : Finish(d, from)
    /\ disturbed' = disturbed \ {d}
    /\ UNCHANGED <<registry, found, regraded, haunted>>

ThreadStep(d) ==
    \/ Check(d) \/ Reject(d) \/ Save(d) \/ SaveNothing(d)
    \/ ListTools(d) \/ Delete(d)
    \/ ReadServer(d) \/ NothingToSync(d)
    \/ \E names \in SUBSET Tools : Discover(d, names)
    \/ Register(d) \/ Fail(d)

Restart ==
    /\ process < MaxProcesses
    /\ process' = process + 1
    /\ pc' = [d \in Threads |-> "idle"]
    /\ job' = [d \in Threads |-> NoJob]
    /\ disturbed' = {}
    /\ UNCHANGED <<registry, secretKey, found, regraded, haunted>>

Next == Restart \/ \E d \in Threads : AskAny(d) \/ ThreadStep(d)

Spec == Init /\ [][Next]_vars

(* A thread that serves a request goes on: its database calls return or    *)
(* fail after five seconds, its upstream call after fifteen.  It is idle   *)
(* again and again, or takes steps again and again.                        *)
ThreadGoesOn(d) == []<>(pc[d] = "idle") \/ []<><<ThreadStep(d)>>_vars

-----------------------------------------------------------------------------
(* Properties.                                                             *)

(* Whatever overlaps, no tool is in the registry without a trust record,   *)
(* without which the policy engine denies every call of it.                *)
(* (delete lists the records to remove before it locks; sync)              *)
ToolsHaveTrust ==
    \A s \in Slugs : \A t \in tools[s] : trust[s][t] # "none"

(* The tools of a server are those that one discovery returned, the last   *)
(* to commit: never a mixture of two syncs.  (delete_for_server, add)      *)
ToolsAreOneDiscovery == \A s \in Slugs : tools[s] \in {{}, found[s]}

(* A server's tools are graded by its trust, "Verified if the server is     *)
(* Trusted, Needs approval otherwise" (docs/usage-guide.md, on what a sync  *)
(* does), as long as its row has not been touched since the last sync read *)
(* it: two syncs, an update and a delete of one slug never leave a tool    *)
(* with another row's grade.  (_sync_real_tools)                           *)
GradesFollowServer ==
    \A s \in Slugs \ regraded : \A t \in tools[s] :
       trust[s][t] = IF servers[s].trust = "Trusted" THEN "Verified"
                     ELSE "Needs approval"

(* A server that is gone has tools only if a sync was under way when its   *)
(* row went.  (delete; sync commits without looking)                       *)
GhostsNeedARace ==
    \A s \in Slugs \ haunted : servers[s] = NoServer => tools[s] = {}

(* Credentials stored under FALCON_SECRET_KEY, or since the last start,    *)
(* are sent to the server at every discovery.  (_auth_headers, _get_fernet)*)
CredentialsAreSent ==
    \A d \in Threads :
       /\ pc[d] = "write" /\ job[d].op = "sync" /\ job[d].row.sealed # 0
       /\ secretKey \/ job[d].row.sealed = process
       => job[d].authenticated

(* A sync holds the row it has read until it registers its tools or fails. *)
Syncing(d) == job[d].op = "sync" /\ pc[d] \in {"discover", "write"}

ReadBy(d) == [by |-> d, slug |-> Slug(d), row |-> job[d].row]

AsCatalogue == INSTANCE Catalogue
    WITH Requests <- Threads,
         reading <- {ReadBy(d) : d \in {c \in Threads : Syncing(c)}}

(* Whatever overlaps, fails or restarts, the three tables change as if     *)
(* each save, delete and registration were one step: a registration        *)
(* replaces the tools of one server by one discovery and grades them by    *)
(* one row that was that server's when the sync read it.  (server_service, *)
(* one transaction at the end of each request)                             *)
ImplementsCatalogue == AsCatalogue!Spec

(* Every request of the registry ends, a sync of an unreachable server and *)
(* one whose server is deleted under it too.  (server_service.py)          *)
EveryRequestEnds == \A d \in Threads : pc[d] # "idle" ~> pc[d] = "idle"

=============================================================================
