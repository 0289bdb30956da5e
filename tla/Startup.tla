------------------------------ MODULE Startup -------------------------------
(***************************************************************************)
(* Database.init_schema (database.py), which main.py's lifespan runs       *)
(* before the first request: the schema, the column migrations and the     *)
(* rows a database must have.  Each CREATE TABLE and each ALTER TABLE      *)
(* commits by itself, the rows are one transaction, and the process may be *)
(* stopped between any two steps and started again on what is there.       *)
(*                                                                         *)
(* Passwords are numbers in the order in which they are made up.           *)
(***************************************************************************)
EXTENDS Naturals

CONSTANTS
    Names,        \* usernames, "admin" among them
    Agents,       \* agent names
    MaxPasswords  \* bound: passwords ever made up

ASSUME StartupAssumption ==
    /\ "admin" \in Names /\ MaxPasswords \in Nat \ {0}
    /\ Names \cap {"none", "unused", "ended"} = {}

VARIABLES
    boot,      \* "off", "booting", "filled" (rows written, uncommitted), "up"
    tables,    \* tables of the schema that exist
    columns,   \* tables whose late column exists
    settings,  \* the rows of the settings table, "none" when missing
    keys,      \* keys[a]: agent a's api_key_hash
    users,     \* users[n]: the row of username n
    passwords, \* passwords made up so far
    buffered,  \* the password print() left in the process's stdout buffer, 0
               \* when there is none
    known      \* history: passwords that came out in the log or were chosen
               \* by their owner

database == <<tables, columns, settings, keys>>
log == <<buffered, known>>
startup == <<boot, database, users, passwords, log>>

(* "users" stands for all the tables that came with logins and alerts.     *)
Tables   == {"agents", "servers", "tools", "settings", "users"}
Late     == {"agents", "servers", "tools"}
SettingKeys == {"policy_yaml", "alert_rules"}
Values   == {"none", "default", "own"}
Roles    == {"admin", "user"}
Accounts == [password : 1..MaxPasswords, role : Roles,
             status : {"Active", "Suspended"}]
NoUser   == [password |-> 0, role |-> "none", status |-> "none"]

StartupTypeOK ==
    /\ boot \in {"off", "booting", "filled", "up"}
    /\ tables \subseteq Tables
    /\ columns \subseteq Late
    /\ settings \in [SettingKeys -> Values]
    /\ keys \in [Agents -> {"no agent", "null", "demo", "own"}]
    /\ users \in [Names -> Accounts \cup {NoUser}]
    /\ passwords \in 0..MaxPasswords
    /\ buffered \in 0..passwords
    /\ known \subseteq 1..passwords

(* Mutant of Account: not the spelling login and resolve_session look for. *)
AccountInLowerCase(password, role) ==
    [password |-> password, role |-> role, status |-> "active"]

Account(password, role) ==
    [password |-> password, role |-> role, status |-> "Active"]

NoUsers == \A n \in Names : users[n] = NoUser
NoAccounts == [n \in Names |-> NoUser]

Settings(policy, rules) ==
    [key \in SettingKeys |-> IF key = "policy_yaml" THEN policy ELSE rules]

-----------------------------------------------------------------------------
(* The databases a process may be started on.                              *)

NewFile ==
    /\ tables = {} /\ columns = {}
    /\ settings = Settings("none", "none")
    /\ keys = [a \in Agents |-> "no agent"]
    /\ users = NoAccounts /\ passwords = 0 /\ known = {}

(* From before api_key_hash, logins and alerts.                            *)
OlderFile ==
    /\ tables = Tables \ {"users"} /\ columns = {}
    /\ settings = Settings("own", "none")
    /\ keys = [a \in Agents |-> "null"]
    /\ users = NoAccounts /\ passwords = 0 /\ known = {}

(* In use, with what the console has stored in it while the server was up, *)
(* or with "every user [...] since deleted".                               *)
FileInUse ==
    /\ tables = Tables /\ columns = Late
    /\ settings = Settings("own", "own")
    /\ keys \in [Agents -> {"no agent", "own"}]
    /\ \/ users = NoAccounts /\ passwords = 0 /\ known = {}
       \/ /\ users = [NoAccounts EXCEPT !["admin"] = Account(1, "admin")]
          /\ passwords = 1 /\ known = {1}

StartupInit ==
    /\ boot = "off" /\ buffered = 0
    /\ NewFile \/ OlderFile \/ FileInUse

-----------------------------------------------------------------------------
Start ==
    /\ boot = "off"
    /\ boot' = "booting"
    /\ UNCHANGED <<database, users, passwords, log>>

(* One statement of _SCHEMA_SQL; a table is created with its late column.  *)
CreateTable(t) ==
    /\ boot = "booting" /\ t \in Tables \ tables
    /\ tables' = tables \cup {t}
    /\ columns' = columns \cup ({t} \cap Late)
    /\ UNCHANGED <<boot, settings, keys, users, passwords, log>>

(* One ALTER TABLE of _migrate.  Their order makes no difference.          *)
AddColumn(t) ==
    /\ boot = "booting" /\ tables = Tables /\ t \in Late \ columns
    /\ columns' = columns \cup {t}
    /\ UNCHANGED <<boot, tables, settings, keys, users, passwords, log>>

(* Mutant of Fill: the password is printed only when the policy is missing *)
(* too, so not for a file from before logins.                              *)
FillPrintingWhenSeeded ==
    /\ boot = "booting" /\ tables = Tables /\ columns = Late
    /\ NoUsers => passwords < MaxPasswords
    /\ boot' = "filled"
    /\ passwords' = IF NoUsers THEN passwords + 1 ELSE passwords
    /\ buffered' = IF NoUsers /\ settings["policy_yaml"] = "none"
                   THEN passwords' ELSE buffered
    /\ UNCHANGED <<database, users, known>>

(* The rows are written, and the new admin's password is printed before    *)
(* they are committed.  print() does not flush.                            *)
Fill ==
    /\ boot = "booting" /\ tables = Tables /\ columns = Late
    /\ NoUsers => passwords < MaxPasswords
    /\ boot' = "filled"
    /\ passwords' = IF NoUsers THEN passwords + 1 ELSE passwords
    /\ buffered' = IF NoUsers THEN passwords' ELSE buffered
    /\ UNCHANGED <<database, users, known>>

(* The buffer is written out: at once on a terminal; on a pipe, as under   *)
(* Docker, with the first line of the access log or when the process ends  *)
(* by itself.                                                              *)
Flush ==
    /\ buffered # 0
    /\ known' = known \cup {buffered}
    /\ buffered' = 0
    /\ UNCHANGED <<boot, database, users, passwords>>

(* Mutant of Seeded: a database without agents is taken for a fresh one.   *)
SeededByAgents ==
    Settings(IF \A a \in Agents : keys[a] = "no agent" THEN "default"
             ELSE settings["policy_yaml"],
             IF settings["alert_rules"] = "none" THEN "default"
             ELSE settings["alert_rules"])

(* _seed and the default alert rules: a missing row only.                  *)
Seeded ==
    [key \in SettingKeys |->
       IF settings[key] = "none" THEN "default" ELSE settings[key]]

(* Mutant of Backfilled: the agents left over are forgotten.               *)
BackfilledNothing == keys

Backfilled ==
    [a \in Agents |-> IF keys[a] = "null" THEN "demo" ELSE keys[a]]

(* The commit that ends init_schema; the server takes requests from here.  *)
CommitBoot ==
    /\ boot = "filled"
    /\ boot' = "up"
    /\ settings' = Seeded
    /\ keys' = Backfilled
    /\ users' = IF NoUsers
                THEN [users EXCEPT !["admin"] = Account(passwords, "admin")]
                ELSE users
    /\ UNCHANGED <<tables, columns, passwords, log>>

BootStep ==
    \/ Start \/ Fill \/ CommitBoot
    \/ \E t \in Tables : CreateTable(t) \/ AddColumn(t)

=============================================================================
