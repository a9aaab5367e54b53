-------------------------------- MODULE Schema --------------------------------
(***************************************************************************)
(* The one migration of the database (alembic/versions): the statements of *)
(* upgrade and downgrade, run one by one in a transaction (alembic/env.py) *)
(* against a PostgreSQL that refuses a statement its catalog does not      *)
(* allow.  The create_index statements of a table follow each other, and   *)
(* so do its drop_index statements: each group is one statement here.      *)
(* Columns and constraints other than foreign keys are left out: no        *)
(* statement depends on them.                                              *)
(***************************************************************************)
EXTENDS Naturals, SequencesExt

CONSTANT MaxMigrations   \* bound: migrations started

ASSUME SchemaAssumption == MaxMigrations \in Nat

VARIABLES
  tables,      \* the tables that exist
  types,       \* the native ENUM types that exist
  indexes,     \* the indexes that exist, by table and number
  version,     \* alembic_version: "base" or "head"
  script,      \* statements still to run; empty: no migration is under way
  before,      \* the catalog when the transaction began
  refused,     \* ghost: the statement the database refused last
  migrations   \* bound: migrations started

schemaVars == <<tables, types, indexes, version, script, before, refused, migrations>>

(* A table, the tables its foreign keys name, the types its columns need, how *)
(* many indexes it has.                                                       *)
Table(name, refs, enums, indexed) ==
  [name |-> name, refs |-> refs, enums |-> enums, indexed |-> indexed]

IndexesOf(t) == {<<t.name, n>> : n \in 1 .. t.indexed}

(* In the order in which upgrade creates them.                                *)
Accounts == <<
  Table("organizations", {}, {}, 0),
  Table("users", {"organizations"}, {"user_role"}, 2),
  Table("api_keys", {"users"}, {}, 1),
  Table("audit_logs", {"organizations", "users"}, {}, 3),
  Table("meetings", {"organizations", "users"}, {"meeting_status"}, 3),
  Table("password_reset_tokens", {"users"}, {}, 1),
  Table("refresh_tokens", {"users"}, {}, 1) >>

Contents == <<
  Table("action_items", {"users", "meetings"},
        {"action_item_priority", "action_item_status"}, 2),
  Table("chat_sessions", {"meetings", "users"}, {}, 2),
  Table("embedding_chunks", {"meetings"}, {}, 1),
  Table("files", {"meetings"}, {"file_type"}, 1),
  Table("insights", {"meetings"}, {"insight_type"}, 1),
  Table("speakers", {"meetings"}, {}, 1),
  Table("summaries", {"meetings"}, {"summary_type"}, 1),
  Table("chat_messages", {"chat_sessions"}, {"chat_role"}, 1),
  Table("transcript_segments", {"meetings", "speakers"}, {}, 2) >>

AllTables == Accounts \o Contents
Enums == UNION {AllTables[i].enums : i \in DOMAIN AllTables}
AllIndexes == UNION {IndexesOf(AllTables[i]) : i \in DOMAIN AllTables}

-----------------------------------------------------------------------------
(* The scripts. *)

Create(t) == [op |-> "create", table |-> t, type |-> ""]
Index(t) == [op |-> "index", table |-> t, type |-> ""]
DropIndex(t) == [op |-> "drop index", table |-> t, type |-> ""]
Drop(t) == [op |-> "drop", table |-> t, type |-> ""]
DropType(e) == [op |-> "drop type", table |-> Table("", {}, {}, 0), type |-> e]

(* Two statements to a table: it, then its indexes; its indexes, then it. *)
Upgrade == [n \in 1 .. 2 * Len(AllTables) |->
  LET t == AllTables[(n + 1) \div 2] IN IF n % 2 = 1 THEN Create(t) ELSE Index(t)]

Drops == [n \in 1 .. 2 * Len(AllTables) |->
  LET t == Reverse(AllTables)[(n + 1) \div 2] IN IF n % 2 = 1 THEN DropIndex(t) ELSE Drop(t)]

(* Mutant of Downgrade: as autogenerated, without the manual fix. *)
Downgrade_AsGenerated == Drops

(* The types last: a type in use cannot be dropped. *)
Downgrade ==
  Drops \o
  << DropType("user_role"), DropType("meeting_status"), DropType("file_type"),
     DropType("summary_type"), DropType("insight_type"), DropType("action_item_priority"),
     DropType("action_item_status"), DropType("chat_role") >>

-----------------------------------------------------------------------------
(* The database. *)

Has(name) == \E t \in tables : t.name = name

(* CREATE and DROP go without IF [NOT] EXISTS, but DROP TYPE is checkfirst.   *)
Allowed(s) ==
  CASE s.op = "create" ->
         /\ ~Has(s.table.name)
         /\ \A name \in s.table.refs : Has(name)
         /\ s.table.enums \intersect types = {}
    [] s.op = "index" ->
         s.table \in tables /\ IndexesOf(s.table) \intersect indexes = {}
    [] s.op = "drop index" ->
         IndexesOf(s.table) \subseteq indexes
    [] s.op = "drop" ->
         s.table \in tables /\ \A t \in tables : s.table.name \notin t.refs
    [] s.op = "drop type" ->
         \A t \in tables : s.type \notin t.enums

(* With a table go its indexes; its types stay. *)
Apply(s) ==
  /\ tables' = CASE s.op = "create" -> tables \union {s.table}
                 [] s.op = "drop" -> tables \ {s.table}
                 [] OTHER -> tables
  /\ types' = CASE s.op = "create" -> types \union s.table.enums
                [] s.op = "drop type" -> types \ {s.type}
                [] OTHER -> types
  /\ indexes' = CASE s.op = "index" -> indexes \union IndexesOf(s.table)
                  [] s.op \in {"drop index", "drop"} -> indexes \ IndexesOf(s.table)
                  [] OTHER -> indexes

Catalog == [tables |-> tables, types |-> types, indexes |-> indexes, version |-> version]

SchemaInit ==
  /\ tables = {} /\ types = {} /\ indexes = {} /\ version = "base"
  /\ script = <<>> /\ before = Catalog /\ refused = ""
  /\ migrations = 0

(* alembic upgrade head / downgrade base: nothing to do if the version is     *)
(* already there.                                                             *)
Start(from, statements) ==
  /\ script = <<>> /\ version = from
  /\ migrations < MaxMigrations
  /\ script' = statements
  /\ before' = Catalog
  /\ migrations' = migrations + 1
  /\ UNCHANGED <<tables, types, indexes, version, refused>>

(* One statement; with the last one alembic_version is stamped and the        *)
(* transaction committed.                                                     *)
Execute ==
  /\ script # <<>> /\ Allowed(Head(script))
  /\ Apply(Head(script))
  /\ script' = Tail(script)
  /\ version' = IF Len(script) > 1 THEN version
                ELSE IF version = "base" THEN "head" ELSE "base"
  /\ UNCHANGED <<before, refused, migrations>>

(* Mutant of Rollback: each statement was committed on its own. *)
Rollback_Autocommit == UNCHANGED <<tables, types, indexes, version>> /\ script' = <<>>

(* begin_transaction: the schema is as it was. *)
Rollback ==
  /\ tables' = before.tables /\ types' = before.types
  /\ indexes' = before.indexes /\ version' = before.version
  /\ script' = <<>>

(* The transaction ends early: the database refuses the statement, or the     *)
(* connection or the process dies.                                            *)
Abort ==
  /\ script # <<>>
  /\ refused' = IF Allowed(Head(script)) THEN refused ELSE Head(script).op
  /\ Rollback
  /\ UNCHANGED <<before, migrations>>

SchemaNext ==
  \/ Start("base", Upgrade) \/ Start("head", Downgrade)
  \/ Execute \/ Abort

SchemaSpec == SchemaInit /\ [][SchemaNext]_schemaVars

-----------------------------------------------------------------------------
(* No statement of any sequence of upgrades and downgrades is refused, those  *)
(* that were cut short included: "a later re-upgrade then fails with          *)
(* DuplicateObject" (downgrade, 304) does not happen.                         *)
NothingRefused == refused = ""

(* Between migrations the catalog is the one of the recorded version: all     *)
(* tables with their types and indexes, or nothing at all.                    *)
WholeVersions ==
  script = <<>> =>
    IF version = "head"
      THEN /\ tables = {AllTables[i] : i \in DOMAIN AllTables}
           /\ types = Enums /\ indexes = AllIndexes
      ELSE tables = {} /\ types = {} /\ indexes = {}

=============================================================================
