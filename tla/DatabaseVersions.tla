-------------------------- MODULE DatabaseVersions --------------------------
(***************************************************************************)
(* The versions of one database, with their tables and columns:            *)
(* DatabaseManager.soft_delete, DatabaseVersionManager and the managers of *)
(* tables and columns, in src/apps/back/src/managers.                      *)
(*                                                                         *)
(* One version at a time is meant to be active.  Activating another reads  *)
(* which ones are, archives them and stamps the activity windows, all in   *)
(* one commit; other requests commit between the reads and that commit.    *)
(* An UPDATE carries only the columns whose value the handler changed from *)
(* what it had read.                                                       *)
(*                                                                         *)
(* A locked row refuses its own PATCH and DELETE, like a request not sent. *)
(*                                                                         *)
(* A definition named X_Something is a mutated form of X, the next one: it *)
(* is no part of the specification.                                        *)
(***************************************************************************)
EXTENDS Naturals

CONSTANTS
  Version,  \* bound: the database_version rows there is room for
  Table,    \* bound: the database_table rows there is room for
  Null,     \* no version, for a table row not yet there
  Worker,   \* threads that serve requests
  Serial    \* TRUE: a request starts only when no other is in flight

ASSUME NullIsNoVersion == Null \notin Version
ASSUME SerialIsBoolean == Serial \in BOOLEAN

VARIABLES
  database,  \* the database's enabled column
  version,   \* the version rows
  table,     \* the table rows
  columns,   \* the tables that have an enabled column
  request    \* what each worker is doing and has read

vars == <<database, version, table, columns, request>>

----------------------------------------------------------------------------
(* Rows and requests.                                                      *)

RowState == {"none", "enabled", "disabled"}
Status == {"draft", "active", "archived"}

\* start, end: whether start_date and end_date are set.
VersionRow == [state : RowState, status : Status, start : BOOLEAN, end : BOOLEAN]

TableRow == [state : RowState, version : Version \cup {Null}]

Idle == [op |-> "idle"]

CreateRequest == [op : {"create"}]

\* A PATCH of the status: the row as it was read, and the active versions.
StatusRequest ==
  [op : {"status"}, at : {"reread", "others", "write"}, version : Version,
   to : Status, start : BOOLEAN, end : BOOLEAN, others : SUBSET Version]

\* A DELETE of versions, all of them with the database, and the tables found.
DropRequest ==
  [op : {"drop", "drop all"}, at : {"tables", "write"},
   versions : SUBSET Version, tables : SUBSET Table]

AddTableRequest == [op : {"add table"}, version : Version]

TableRequest == [op : {"drop table", "put columns", "drop columns"}, table : Table]

Request ==
  {Idle} \cup CreateRequest \cup StatusRequest \cup DropRequest
         \cup AddTableRequest \cup TableRequest

TypeOK ==
  /\ database \in BOOLEAN
  /\ version \in [Version -> VersionRow]
  /\ table \in [Table -> TableRow]
  /\ columns \in SUBSET Table
  /\ request \in [Worker -> Request]

----------------------------------------------------------------------------
(* Queries.                                                                *)

Enabled == {v \in Version : version[v].state = "enabled"}
Active == {v \in Enabled : version[v].status = "active"}
EnabledTables == {t \in Table : table[t].state = "enabled"}

\* get_current_database_version and get_current_database_table.
Found(v) == database /\ v \in Enabled
TableFound(t) == t \in EnabledTables /\ Found(table[t].version)

TablesOf(V) == {t \in Table : table[t].state # "none" /\ table[t].version \in V}

----------------------------------------------------------------------------
(* Starting, ending and abandoning a request.                              *)

CanStart(w) ==
  /\ request[w] = Idle
  /\ Serial => \A v \in Worker : request[v] = Idle

Start(w, r) == CanStart(w) /\ request' = [request EXCEPT ![w] = r]
Finish(w) == request' = [request EXCEPT ![w] = Idle]
Continue(w, r) == request' = [request EXCEPT ![w] = r]

\* An exception or a killed worker: the transaction is rolled back.
Abort(w) ==
  /\ request[w] # Idle
  /\ Finish(w)
  /\ UNCHANGED <<database, version, table, columns>>

----------------------------------------------------------------------------
(* Creating versions, alone or in bulk.                                    *)

LoadCreate(w) ==
  /\ database
  /\ Start(w, [op |-> "create"])
  /\ UNCHANGED <<database, version, table, columns>>

\* A new version is a draft that was never active.
NewVersion_ActiveIfNone ==
  [state |-> "enabled", status |-> IF Active = {} THEN "active" ELSE "draft",
   start |-> Active = {}, end |-> FALSE]

NewVersion_NoWindow == [state |-> "enabled", status |-> "draft"]

NewVersion ==
  [state |-> "enabled", status |-> "draft", start |-> FALSE, end |-> FALSE]

\* A bulk call goes on with the next item.
WriteCreate(w) ==
  /\ request[w] \in CreateRequest
  /\ \E v \in Version :
       /\ version[v].state = "none"
       /\ version' = [version EXCEPT ![v] = NewVersion]
  /\ UNCHANGED request \/ Finish(w)
  /\ UNCHANGED <<database, table, columns>>

----------------------------------------------------------------------------
(* The status of a version: update, and the method of each transition.     *)

\* Only activate queries for the other active versions.
FirstStep(to) == IF to = "active" THEN "others" ELSE "write"

Transition(at, v, to, others) ==
  [op |-> "status", at |-> at, version |-> v, to |-> to,
   start |-> version[v].start, end |-> version[v].end, others |-> others]

\* A PATCH that also changes the version tuple commits that first, and looks
\* at the row as it is then; a status it already has is no transition.
LoadStatus(w) ==
  \E v \in Version, to \in Status :
    /\ Found(v)
    /\ \/ Start(w, Transition("reread", v, to, {}))
       \/ /\ to # version[v].status
          /\ Start(w, Transition(FirstStep(to), v, to, {}))
    /\ UNCHANGED <<database, version, table, columns>>

Reread(w) ==
  LET r == request[w] IN
  /\ r \in StatusRequest /\ r.at = "reread"
  /\ IF r.to = version[r.version].status
     THEN Finish(w)
     ELSE Continue(w, Transition(FirstStep(r.to), r.version, r.to, {}))
  /\ UNCHANGED <<database, version, table, columns>>

\* The query of activate for the versions to archive.
Superseded_Drafts(v) ==
  {o \in Enabled : version[o].status = "draft"} \ {v}

Superseded(v) == Active \ {v}

QueryOthers(w) ==
  LET r == request[w] IN
  /\ r \in StatusRequest /\ r.at = "others"
  /\ Continue(w, [r EXCEPT !.at = "write", !.others = Superseded(r.version)])
  /\ UNCHANGED <<database, version, table, columns>>

Archived(row) == [row EXCEPT !.status = "archived", !.end = TRUE]

\* The row after the UPDATE of request r.
Stamped_StatusOnly(r, row) == [row EXCEPT !.status = r.to]

Stamped_KeepsWindow(r, row) ==
  CASE r.to = "active"   -> [row EXCEPT !.status = r.to, !.start = TRUE]
    [] r.to = "archived" -> Archived(row)
    [] r.to = "draft"    -> [row EXCEPT !.status = r.to]

Stamped(r, row) ==
  CASE r.to = "active" ->
         [row EXCEPT !.status = r.to, !.start = TRUE, !.end = @ /\ ~r.end]
    [] r.to = "archived" -> Archived(row)
    [] r.to = "draft" ->
         [row EXCEPT !.status = r.to, !.start = @ /\ ~r.start, !.end = @ /\ ~r.end]

WriteStatus(w) ==
  LET r == request[w] IN
  /\ r \in StatusRequest /\ r.at = "write"
  /\ version' = [v \in Version |->
       IF v = r.version THEN Stamped(r, version[v])
       ELSE IF v \in r.others THEN Archived(version[v])
       ELSE version[v]]
  /\ Finish(w)
  /\ UNCHANGED <<database, table, columns>>

----------------------------------------------------------------------------
(* Deleting a version, or the database.                                    *)

LoadDrop(w) ==
  \E v \in Version :
    /\ Found(v)
    /\ Start(w, [op |-> "drop", at |-> "tables", versions |-> {v}, tables |-> {}])
    /\ UNCHANGED <<database, version, table, columns>>

LoadDropAll(w) ==
  /\ database
  /\ Start(w, [op |-> "drop all", at |-> "tables", versions |-> Version,
               tables |-> {}])
  /\ UNCHANGED <<database, version, table, columns>>

\* The ids of the enabled tables, whose columns are to be disabled.
QueryTables(w) ==
  LET r == request[w] IN
  /\ r \in DropRequest /\ r.at = "tables"
  /\ Continue(w, [r EXCEPT !.at = "write",
                           !.tables = TablesOf(r.versions) \cap EnabledTables])
  /\ UNCHANGED <<database, version, table, columns>>

Disabled(row) == IF row.state = "enabled" THEN [row EXCEPT !.state = "disabled"]
                 ELSE row

DisableTables(T) ==
  table' = [t \in Table |-> IF t \in T THEN Disabled(table[t]) ELSE table[t]]

\* Versions, tables and columns in one commit; the tables are selected by
\* their version, the columns by the table ids found before.
ColumnsLeft_All(r) == columns

ColumnsLeft(r) == columns \ r.tables

WriteDrop(w) ==
  LET r == request[w] IN
  /\ r \in DropRequest /\ r.at = "write"
  /\ database' = (database /\ r.op # "drop all")
  /\ version' = [v \in Version |->
       IF v \in r.versions THEN Disabled(version[v]) ELSE version[v]]
  /\ DisableTables(TablesOf(r.versions))
  /\ columns' = ColumnsLeft(r)
  /\ Finish(w)

----------------------------------------------------------------------------
(* Tables and their columns.                                               *)

LoadAddTable(w) ==
  \E v \in Version :
    /\ Found(v)
    /\ Start(w, [op |-> "add table", version |-> v])
    /\ UNCHANGED <<database, version, table, columns>>

\* DatabaseTableManager.create: the table, with or without columns.
WriteAddTable(w) ==
  /\ request[w] \in AddTableRequest
  /\ \E t \in Table :
       /\ table[t].state = "none"
       /\ table' = [table EXCEPT
            ![t] = [state |-> "enabled", version |-> request[w].version]]
       /\ columns' \in {columns, columns \cup {t}}
  /\ UNCHANGED request \/ Finish(w)
  /\ UNCHANGED <<database, version>>

LoadTable(w) ==
  \E t \in Table, op \in {"drop table", "put columns", "drop columns"} :
    /\ TableFound(t)
    /\ op = "drop columns" => t \in columns
    /\ Start(w, [op |-> op, table |-> t])
    /\ UNCHANGED <<database, version, table, columns>>

\* DatabaseTableManager.soft_delete.
WriteDropTable(w) ==
  LET t == request[w].table IN
  /\ request[w] \in TableRequest /\ request[w].op = "drop table"
  /\ DisableTables({t})
  /\ columns' = columns \ {t}
  /\ Finish(w)
  /\ UNCHANGED <<database, version>>

\* A column is added, or columns replace the others; a column is deleted, or
\* none replaces the others, and some or none are left.
WriteColumns(w) ==
  LET t == request[w].table IN
  /\ request[w] \in TableRequest
  /\ \/ request[w].op = "put columns" /\ columns' = columns \cup {t}
     \/ request[w].op = "drop columns" /\ columns' \in {columns, columns \ {t}}
  /\ Finish(w)
  /\ UNCHANGED <<database, version, table>>

----------------------------------------------------------------------------

Init ==
  /\ database = TRUE
  /\ version = [v \in Version |->
       [state |-> "none", status |-> "draft", start |-> FALSE, end |-> FALSE]]
  /\ table = [t \in Table |-> [state |-> "none", version |-> Null]]
  /\ columns = {}
  /\ request = [w \in Worker |-> Idle]

VersionStep(w) ==
  \/ LoadCreate(w) \/ WriteCreate(w)
  \/ LoadStatus(w) \/ Reread(w) \/ QueryOthers(w) \/ WriteStatus(w)
  \/ LoadDrop(w) \/ LoadDropAll(w) \/ QueryTables(w) \/ WriteDrop(w)

TableStep(w) ==
  \/ LoadAddTable(w) \/ WriteAddTable(w)
  \/ LoadTable(w) \/ WriteDropTable(w) \/ WriteColumns(w)

Next == \E w \in Worker : VersionStep(w) \/ TableStep(w) \/ Abort(w)

Spec == Init /\ [][Next]_vars

----------------------------------------------------------------------------
(* Properties that hold however requests interleave.                       *)

\* An active version has its start date and an archived one its end date:
\* update dispatches a status to the method that dates it, and no other
\* commit takes the date away without changing the status.
DatedByStatus ==
  \A v \in Version :
    /\ version[v].status = "active" => version[v].start
    /\ version[v].status = "archived" => version[v].end

----------------------------------------------------------------------------
(* Properties that hold while certain requests are kept apart, and so with *)
(* Serial: DatabaseVersionsProofs says which.                              *)

\* database_version.py: "a database has at most one active version at a time".
AtMostOneActive == \A u, v \in Active : u = v

\* draft: the activity window "is cleared rather than left behind"; the
\* active version's window is open.
WindowMatchesStatus ==
  \A v \in Version :
    /\ version[v].status = "draft" => ~version[v].start
    /\ version[v].status # "archived" => ~version[v].end

\* database.py: "Soft-delete the database with its versions, tables and
\* columns", and the same of a version and of a table.
ColumnsUnderTables == columns \subseteq EnabledTables

NothingOutlivesItsVersion ==
  /\ Enabled # {} => database
  /\ \A t \in EnabledTables : table[t].version \in Enabled
  /\ ColumnsUnderTables

\* The versions in being and the active one change as CurrentVersion allows.
AsCurrent ==
  INSTANCE CurrentVersion WITH
    versions <- Enabled,
    current <- Active
CurrentSpec == AsCurrent!Spec
=============================================================================
