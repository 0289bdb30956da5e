------------------------------ MODULE Catalogue ------------------------------
(***************************************************************************)
(* What the server registry promises whatever requests overlap and wherever*)
(* they fail: every request that changes it does so in one step.  A save   *)
(* writes one row and nothing else; a delete takes the row and all the     *)
(* tools; a sync replaces a server's tools by one discovery, and grades    *)
(* each of them by the one row of that server it has read, once for each   *)
(* time it has read one.                                                   *)
(*                                                                         *)
(* It does not promise that the row is still the one that was read, or     *)
(* still there, nor that a delete takes every trust record.                *)
(***************************************************************************)
CONSTANTS
    Slugs, Tools, Rows, NoServer,
    Requests \* those that may sync

VARIABLES
    servers, \* servers[s]: the row of slug s, or NoServer
    tools,   \* tools[s]: names in the tools table
    trust,   \* trust[s][t]: the trust record of a tool, or "none"
    reading  \* the rows that syncs under way have read

catalogue == <<servers, tools, trust, reading>>

Init ==
    /\ servers = [s \in Slugs |-> NoServer]
    /\ tools = [s \in Slugs |-> {}]
    /\ trust = [s \in Slugs |-> [t \in Tools |-> "none"]]
    /\ reading = {}

Save(s, row) ==
    /\ servers' = [servers EXCEPT ![s] = row]
    /\ UNCHANGED <<tools, trust, reading>>

Delete(s, gone) ==
    /\ servers' = [servers EXCEPT ![s] = NoServer]
    /\ tools' = [tools EXCEPT ![s] = {}]
    /\ trust' = [trust EXCEPT ![s] = [t \in Tools |-> IF t \in gone THEN "none"
                                                      ELSE @[t]]]
    /\ UNCHANGED reading

Read(r, s) ==
    /\ servers[s] # NoServer
    /\ \A read \in reading : read.by # r
    /\ reading' = reading \cup {[by |-> r, slug |-> s, row |-> servers[s]]}
    /\ UNCHANGED <<servers, tools, trust>>

Earned(row) == IF row.trust = "Trusted" THEN "Verified" ELSE "Needs approval"

Register(read, names) ==
    /\ tools' = [tools EXCEPT ![read.slug] = names]
    /\ trust' = [trust EXCEPT ![read.slug] =
                   [t \in Tools |-> IF t \in names THEN Earned(read.row)
                                    ELSE @[t]]]
    /\ reading' = reading \ {read}
    /\ UNCHANGED servers

(* Syncs fail, or die with the process, and register nothing.              *)
Leave == reading' \subseteq reading /\ UNCHANGED <<servers, tools, trust>>

Next ==
    \/ \E s \in Slugs, row \in Rows : Save(s, row)
    \/ \E s \in Slugs, gone \in SUBSET Tools : Delete(s, gone)
    \/ \E r \in Requests, s \in Slugs : Read(r, s)
    \/ \E read \in reading, names \in SUBSET Tools : Register(read, names)
    \/ Leave

Spec == Init /\ [][Next]_catalogue

=============================================================================
