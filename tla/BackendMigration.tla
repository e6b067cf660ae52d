-------------------------- MODULE BackendMigration --------------------------
(***************************************************************************)
(* The move of the whole database between its two backends and the switch  *)
(* to the other one (src/internal/handler/admin_migration.go,              *)
(* src/internal/store/migrate.go, dbconfig.go, main.go).  A request starts *)
(* a goroutine that clears the target, copies table by table from a server *)
(* that goes on serving, compares row counts, and reports through a        *)
(* channel that drops what does not fit.  The backend is chosen anew at    *)
(* every start of the server.                                              *)
(***************************************************************************)
EXTENDS Naturals, Sequences, FiniteSets

CONSTANTS
    Start,        \* requests to handleMigrateStart under way at once
    Table,        \* the tables followed
    Row,          \* rows a table may hold
    Capacity,     \* buffer of the status channel
    EnvPostgres,  \* AUTH_POSTGRES_URL is set
    FirstRows,    \* rows a table of the backend in use may hold at first
    OldRows,      \* rows left in a table of the other backend
    MaxWrites     \* bound: rows written or deleted by requests

Backend == {"boltdb", "postgres"}

ASSUME MigrationConstants ==
    /\ Table \subseteq {"users", "identity_mappings", "revoked_tokens", "app_admins"}
    /\ IsFiniteSet(Row)
    /\ FirstRows \subseteq SUBSET Row /\ OldRows \subseteq SUBSET Row
    /\ Capacity \in Nat \ {0} /\ EnvPostgres \in BOOLEAN

VARIABLES
    opened,     \* the backend the server runs on, "none" while it is down
    choice,     \* the backend db.json names, "none" without the file
    postgresUp,
    data,       \* [backend -> [table -> rows]]
    status,     \* h.migration.status.State, shown to the administrator
    migrations, \* the requests and the goroutines they start
    writes,     \* rows written or deleted by requests so far
    result,     \* history: the last migration that reported completion
    oddities    \* history: which of those below have happened

migrationVars == <<opened, choice, postgresUp, data, status, migrations, writes, result, oddities>>

(* Two migrations at once; a request turned away after it had set the status;
   a status the channel had no room for; a table read in part.              *)
Oddity == {"overlap", "abandoned", "dropped", "cut"}

NoMigration == [step |-> "none", source |-> "boltdb", counts |-> [t \in Table |-> 0],
                left |-> {}, failed |-> FALSE, queue |-> <<>>,
                kept |-> [t \in Table |-> {}], quiet |-> TRUE]

NoResult == [kept |-> [t \in Table |-> {}], source |-> [t \in Table |-> {}],
             target |-> [t \in Table |-> {}], to |-> "none", exact |-> FALSE]

MigrationInit ==
    /\ opened \in Backend
    /\ choice = IF opened = "postgres" \/ EnvPostgres THEN "postgres" ELSE "none"
    /\ opened = "boltdb" => ~EnvPostgres
    /\ postgresUp = TRUE
    /\ \E live \in [Table -> FirstRows], old \in [Table -> OldRows] :
         data = [b \in Backend |-> IF b = opened THEN live ELSE old]
    /\ status = "idle"
    /\ migrations = [s \in Start |-> NoMigration]
    /\ writes = 0
    /\ result = NoResult
    /\ oddities = {}

Target(s) == IF migrations[s].source = "boltdb" THEN "postgres" ELSE "boltdb"

Step(s, from, to) ==
    /\ migrations[s].step = from
    /\ migrations' = [migrations EXCEPT ![s].step = to]

(* m with one more status in the channel, if there is room. *)
Sent(m, state) ==
    IF Len(m.queue) < Capacity THEN [m EXCEPT !.queue = Append(@, state)] ELSE m

SentOddity(m) == IF Len(m.queue) < Capacity THEN {} ELSE {"dropped"}

(* The goroutine stops at an error. *)
Failed(m) == Sent([m EXCEPT !.step = "drain", !.failed = TRUE], "failed")

-----------------------------------------------------------------------------
(* handleMigrateStart *)

(* Under the read lock only "running" turns a request away. *)
CheckNotRunning(s, source) ==
    /\ opened # "none"
    /\ migrations[s] = NoMigration
    /\ status # "running"
    /\ migrations' = [migrations EXCEPT ![s].step = "mark", ![s].source = source]
    /\ oddities' = oddities \cup
         (IF \E o \in Start : migrations[o].step # "none" THEN {"overlap"} ELSE {})
    /\ UNCHANGED <<opened, choice, postgresUp, data, status, writes, result>>

MarkRunning(s) ==
    /\ Step(s, "mark", "open")
    /\ status' = "running"
    /\ UNCHANGED <<opened, choice, postgresUp, data, writes, result, oddities>>

(* A request for the wrong direction, or whose target does not open, ends
   without a goroutine and leaves the status as it set it.                  *)
OpenTarget(s) ==
    /\ migrations[s].step = "open"
    /\ IF migrations[s].source = opened /\ (Target(s) = "postgres" => postgresUp)
       THEN Step(s, "open", "clear") /\ UNCHANGED oddities
       ELSE /\ migrations' = [migrations EXCEPT ![s] = NoMigration]
            /\ oddities' = oddities \cup {"abandoned"}
    /\ UNCHANGED <<opened, choice, postgresUp, data, status, writes, result>>

-----------------------------------------------------------------------------
(* MigrateToPostgres, MigrateFromPostgres *)

(* Mutant of MigratedTables: the revocations are not on the list. *)
TablesWithoutRevocations(s) == Table \ {"revoked_tokens"}

(* The tables a migration counts, copies and verifies. *)
MigratedTables(s) == Table

(* The truncation of Postgres names every table but the one of the app
   administrators; BoltDB clears every bucket.                              *)
ClearsNothing(s) == {}

ClearedTables(s) == IF Target(s) = "postgres" THEN Table \ {"app_admins"} ELSE Table

(* The target is cleared and the rows of the source are counted. *)
ClearAndCount(s) ==
    LET m == migrations[s]
        src == data[m.source]
    IN
    /\ m.step = "clear"
    /\ data' = [data EXCEPT ![Target(s)] =
                  [t \in Table |-> IF t \in ClearedTables(s) THEN {} ELSE @[t]]]
    /\ migrations' = [migrations EXCEPT ![s] =
         Sent([m EXCEPT !.step = "copy", !.left = MigratedTables(s), !.kept = src,
                        !.counts = [t \in Table |-> IF t \in MigratedTables(s)
                                                    THEN Cardinality(src[t]) ELSE 0]],
              "running")]
    /\ oddities' = oddities \cup SentOddity(m)
    /\ UNCHANGED <<opened, choice, postgresUp, status, writes, result>>

(* The tables are copied in this order. *)
CopyOrder == [users |-> 1, identity_mappings |-> 2, revoked_tokens |-> 3, app_admins |-> 4]

IsNext(t, left) == t \in left /\ \A o \in left : CopyOrder[t] <= CopyOrder[o]

(* One table, as one transaction of the source shows it, is written over
   what the target holds under the same keys.                               *)
CopyTable(s, t) ==
    LET m == migrations[s] IN
    /\ m.step = "copy" /\ IsNext(t, m.left)
    /\ Target(s) = "postgres" => postgresUp
    /\ data' = [data EXCEPT ![Target(s)][t] = @ \cup data[m.source][t]]
    /\ migrations' = [migrations EXCEPT ![s] = Sent([m EXCEPT !.left = @ \ {t}], "running")]
    /\ oddities' = oddities \cup SentOddity(m)
    /\ UNCHANGED <<opened, choice, postgresUp, status, writes, result>>

(* The read of a table of Postgres ends early: the loop over its rows takes
   the error for the end and goes on with the next table.                   *)
CutTable(s, t) ==
    LET m == migrations[s] IN
    /\ m.step = "copy" /\ IsNext(t, m.left) /\ m.source = "postgres"
    /\ \E read \in SUBSET data["postgres"][t] :
         /\ read # data["postgres"][t]
         /\ data' = [data EXCEPT !["boltdb"][t] = @ \cup read]
    /\ migrations' = [migrations EXCEPT ![s] = Sent([m EXCEPT !.left = @ \ {t}], "running")]
    /\ oddities' = oddities \cup SentOddity(m) \cup {"cut"}
    /\ UNCHANGED <<opened, choice, postgresUp, status, writes, result>>

(* A write fails, after some rows of the table. *)
CopyFails(s, t) ==
    LET m == migrations[s] IN
    /\ m.step = "copy" /\ IsNext(t, m.left)
    /\ \E written \in SUBSET data[m.source][t] :
         data' = [data EXCEPT ![Target(s)][t] = @ \cup written]
    /\ migrations' = [migrations EXCEPT ![s] = Failed(m)]
    /\ oddities' = oddities \cup SentOddity(m)
    /\ UNCHANGED <<opened, choice, postgresUp, status, writes, result>>

BeginVerify(s) ==
    LET m == migrations[s] IN
    /\ m.step = "copy" /\ m.left = {}
    /\ migrations' = [migrations EXCEPT ![s] = Sent([m EXCEPT !.step = "verify"], "verifying")]
    /\ oddities' = oddities \cup SentOddity(m)
    /\ UNCHANGED <<opened, choice, postgresUp, data, status, writes, result>>

(* Towards Postgres a table that was empty is not compared, towards BoltDB
   the mappings are not.                                                    *)
Verified(s) ==
    LET m == migrations[s] IN
    \A t \in MigratedTables(s) :
      \/ IF Target(s) = "postgres" THEN m.counts[t] = 0 ELSE t = "identity_mappings"
      \/ Cardinality(data[Target(s)][t]) = m.counts[t]

Verify(s) ==
    LET m == migrations[s] IN
    /\ m.step = "verify"
    /\ IF Verified(s)
       THEN /\ migrations' = [migrations EXCEPT ![s] = Sent([m EXCEPT !.step = "drain"], "completed")]
            /\ result' = [kept |-> m.kept, source |-> data[m.source], target |-> data[Target(s)],
                          to |-> Target(s), exact |-> m.quiet]
       ELSE /\ migrations' = [migrations EXCEPT ![s] = Failed(m)]
            /\ UNCHANGED result
    /\ oddities' = oddities \cup SentOddity(m)
    /\ UNCHANGED <<opened, choice, postgresUp, data, status, writes>>

-----------------------------------------------------------------------------
(* consumeStatus, and the end of the goroutine. *)

ConsumeStatus(s) ==
    /\ migrations[s].queue # <<>>
    /\ status' = Head(migrations[s].queue)
    /\ migrations' = [migrations EXCEPT ![s].queue = Tail(@)]
    /\ UNCHANGED <<opened, choice, postgresUp, data, writes, result, oddities>>

(* Mutant of EndMigration: a failure is left to the channel. *)
EndMigrationSilently(s) ==
    /\ migrations[s].step = "drain" /\ migrations[s].queue = <<>>
    /\ migrations' = [migrations EXCEPT ![s] = NoMigration]
    /\ UNCHANGED <<opened, choice, postgresUp, data, status, writes, result, oddities>>

(* Once the channel is drained, a failure is set whatever the channel said. *)
EndMigration(s) ==
    /\ migrations[s].step = "drain" /\ migrations[s].queue = <<>>
    /\ status' = IF migrations[s].failed THEN "failed" ELSE status
    /\ migrations' = [migrations EXCEPT ![s] = NoMigration]
    /\ UNCHANGED <<opened, choice, postgresUp, data, writes, result, oddities>>

-----------------------------------------------------------------------------
(* The server around it. *)

(* A request saves a row, a logout or the pruner deletes one. *)
WriteRow(t, r) ==
    /\ opened # "none" /\ writes < MaxWrites
    /\ LET rows == IF r \in data[opened][t] THEN data[opened][t] \ {r} ELSE data[opened][t] \cup {r} IN
       /\ data' = [data EXCEPT ![opened][t] = rows]
       /\ migrations' = [s \in Start |->
            IF migrations[s].step \in {"copy", "verify"}
            THEN [migrations[s] EXCEPT !.kept[t] = @ \cap rows, !.quiet = FALSE]
            ELSE migrations[s]]
    /\ writes' = writes + 1
    /\ UNCHANGED <<opened, choice, postgresUp, status, result, oddities>>

(* handleSwitchBackend; a Postgres that cannot be reached is refused. *)
SwitchBackend(b) ==
    /\ opened # "none"
    /\ b = "postgres" => postgresUp
    /\ choice' = b
    /\ UNCHANGED <<opened, postgresUp, data, status, migrations, writes, result, oddities>>

(* OpenSmart at a start of the server.  A Postgres that db.json names must
   open; one that only the environment names is written to db.json when it
   opens, and gives way to BoltDB when it does not.                         *)
OpenSmart ==
    CASE choice = "postgres" -> IF postgresUp THEN "postgres" ELSE "none"
      [] choice # "postgres" /\ EnvPostgres /\ postgresUp -> "postgres"
      [] OTHER -> "boltdb"

(* A stop ends every migration: its source is closed under it. *)
StartServer ==
    /\ opened' = OpenSmart
    /\ choice' = IF opened' = "postgres" THEN "postgres" ELSE choice
    /\ status' = "idle"
    /\ migrations' = [s \in Start |-> NoMigration]
    /\ oddities' = {}
    /\ result' = NoResult
    /\ UNCHANGED <<postgresUp, data, writes>>

PostgresChanges ==
    /\ postgresUp' = ~postgresUp
    /\ UNCHANGED <<opened, choice, data, status, migrations, writes, result, oddities>>

MigrationNext ==
    \/ \E s \in Start :
         \/ \E b \in Backend : CheckNotRunning(s, b)
         \/ MarkRunning(s) \/ OpenTarget(s) \/ ClearAndCount(s)
         \/ \E t \in Table : CopyTable(s, t) \/ CutTable(s, t) \/ CopyFails(s, t)
         \/ BeginVerify(s) \/ Verify(s) \/ ConsumeStatus(s) \/ EndMigration(s)
    \/ \E t \in Table, r \in Row : WriteRow(t, r)
    \/ \E b \in Backend : SwitchBackend(b)
    \/ StartServer \/ PostgresChanges

MigrationSpec == MigrationInit /\ [][MigrationNext]_migrationVars

-----------------------------------------------------------------------------

(***************************************************************************)
(* A migration that reports completion, with no other beside it, has every *)
(* row the source held from the count to the report, revocations and       *)
(* administrators included, whatever requests wrote meanwhile, if every    *)
(* table was read to its end.  With nothing written meanwhile the target   *)
(* holds what the source holds and nothing of its own past: only app       *)
(* administrators that Postgres had before remain, for a source that has   *)
(* none, and only of the identity mappings, which are not verified on the  *)
(* way to BoltDB, is a part taken for the whole (MigrateToPostgres,        *)
(* MigrateFromPostgres).                                                   *)
(***************************************************************************)
MigrationKeepsRows ==
    "overlap" \notin oddities => \A t \in Table :
      /\ "cut" \notin oddities => result.kept[t] \subseteq result.target[t]
      /\ result.exact =>
           \/ result.target[t] = result.source[t]
           \/ result.to = "postgres" /\ t = "app_admins" /\ result.source[t] = {}
           \/ result.to = "boltdb" /\ t = "identity_mappings" /\ "cut" \in oddities

(***************************************************************************)
(* With no request and no goroutine left, the status is a final one: it    *)
(* does not keep turning migrations away.  Left out are a request turned   *)
(* away after it had set the status and, for a migration that succeeded, a *)
(* full channel; a failure gets through a full channel all the same        *)
(* (handleMigrateStart).                                                   *)
(***************************************************************************)
StatusSettles ==
    (\A s \in Start : migrations[s].step = "none") /\ oddities \cap {"overlap", "abandoned"} = {} =>
      \/ status \in {"idle", "completed", "failed"}
      \/ "dropped" \in oddities /\ result # NoResult

=============================================================================
