----------------------- MODULE DatabaseVersionsProofs -----------------------
(***************************************************************************)
(* Theorems about DatabaseVersions, for any versions, tables and workers.  *)
(***************************************************************************)
EXTENDS DatabaseVersions, TLAPS

(* Type correctness. *)

LEMMA RequestType ==
  ASSUME TypeOK, NEW w \in Worker, NEW r \in Request,
         Start(w, r) \/ Continue(w, r)
  PROVE  request' \in [Worker -> Request]
BY DEF TypeOK, Start, Continue

LEMMA FinishType ==
  ASSUME TypeOK, NEW w \in Worker, Finish(w)
  PROVE  request' \in [Worker -> Request]
BY DEF TypeOK, Finish, Request

LEMMA TransitionType ==
  ASSUME TypeOK, NEW at \in {"reread", "others", "write"}, NEW v \in Version,
         NEW to \in Status, NEW others \in SUBSET Version
  PROVE  Transition(at, v, to, others) \in StatusRequest
BY DEF TypeOK, Transition, StatusRequest, VersionRow

LEMMA DisableTablesType ==
  ASSUME TypeOK, NEW T, DisableTables(T)
  PROVE  table' \in [Table -> TableRow]
BY DEF TypeOK, DisableTables, Disabled, TableRow, RowState

LEMMA StampedType ==
  ASSUME NEW r \in StatusRequest, NEW row \in VersionRow
  PROVE  Stamped(r, row) \in VersionRow /\ Archived(row) \in VersionRow
BY DEF StatusRequest, Stamped, Archived, VersionRow, Status

LEMMA VersionStepType ==
  ASSUME TypeOK, NEW w \in Worker, VersionStep(w)
  PROVE  TypeOK'
<1>1. CASE LoadCreate(w)
  <2>1. [op |-> "create"] \in Request
    BY DEF Request, CreateRequest
  <2>2. QED BY <1>1, <2>1, RequestType DEF LoadCreate, TypeOK
<1>2. CASE WriteCreate(w)
  <2>1. version' \in [Version -> VersionRow]
    BY <1>2 DEF WriteCreate, NewVersion, TypeOK, VersionRow, RowState, Status
  <2>2. request' \in [Worker -> Request]
    BY <1>2, FinishType DEF WriteCreate, TypeOK
  <2>3. QED BY <1>2, <2>1, <2>2 DEF WriteCreate, TypeOK
<1>3. CASE LoadStatus(w)
  <2>1. PICK at \in {"reread", "others", "write"}, v \in Version, to \in Status :
          Start(w, Transition(at, v, to, {}))
    BY <1>3 DEF LoadStatus, FirstStep
  <2>2. Transition(at, v, to, {}) \in Request
    BY TransitionType DEF Request
  <2>3. QED BY <1>3, <2>1, <2>2, RequestType DEF LoadStatus, TypeOK
<1>4. CASE Reread(w)
  <2>1. request[w].to \in Status /\ request[w].version \in Version
    BY <1>4 DEF Reread, StatusRequest
  <2>2. FirstStep(request[w].to) \in {"reread", "others", "write"}
    BY DEF FirstStep
  <2>3. Transition(FirstStep(request[w].to), request[w].version, request[w].to, {})
          \in Request
    BY <2>1, <2>2, TransitionType DEF Request
  <2>4. request' \in [Worker -> Request]
    BY <1>4, <2>3, RequestType, FinishType DEF Reread
  <2>5. QED BY <1>4, <2>4 DEF Reread, TypeOK
<1>5. CASE QueryOthers(w)
  <2>1. Superseded(request[w].version) \in SUBSET Version
    BY DEF Superseded, Active, Enabled
  <2>2. [request[w] EXCEPT !.at = "write",
                           !.others = Superseded(request[w].version)] \in Request
    BY <1>5, <2>1 DEF QueryOthers, StatusRequest, Request
  <2>3. QED BY <1>5, <2>2, RequestType DEF QueryOthers, TypeOK
<1>6. CASE WriteStatus(w)
  <2>1. version' \in [Version -> VersionRow]
    BY <1>6, StampedType DEF WriteStatus, TypeOK
  <2>2. QED BY <1>6, <2>1, FinishType DEF WriteStatus, TypeOK
<1>7. CASE LoadDrop(w) \/ LoadDropAll(w)
  <2>1. PICK r \in Request : Start(w, r)
    BY <1>7 DEF LoadDrop, LoadDropAll, Request, DropRequest
  <2>2. QED BY <1>7, <2>1, RequestType DEF LoadDrop, LoadDropAll, TypeOK
<1>8. CASE QueryTables(w)
  <2>1. TablesOf(request[w].versions) \cap EnabledTables \in SUBSET Table
    BY DEF TablesOf
  <2>2. [request[w] EXCEPT !.at = "write",
           !.tables = TablesOf(request[w].versions) \cap EnabledTables] \in Request
    BY <1>8, <2>1 DEF QueryTables, DropRequest, Request
  <2>3. QED BY <1>8, <2>2, RequestType DEF QueryTables, TypeOK
<1>9. CASE WriteDrop(w)
  <2>1. version' \in [Version -> VersionRow]
    BY <1>9 DEF WriteDrop, Disabled, TypeOK, VersionRow, RowState
  <2>2. QED
    BY <1>9, <2>1, FinishType, DisableTablesType DEF WriteDrop, ColumnsLeft, TypeOK
<1>10. QED
  BY <1>1, <1>2, <1>3, <1>4, <1>5, <1>6, <1>7, <1>8, <1>9 DEF VersionStep

LEMMA TableStepType ==
  ASSUME TypeOK, NEW w \in Worker, TableStep(w)
  PROVE  TypeOK'
<1>1. CASE LoadAddTable(w) \/ LoadTable(w)
  <2>1. PICK r \in Request : Start(w, r)
    BY <1>1 DEF LoadAddTable, LoadTable, Request, AddTableRequest, TableRequest
  <2>2. QED BY <1>1, <2>1, RequestType DEF LoadAddTable, LoadTable, TypeOK
<1>2. CASE WriteAddTable(w)
  <2>1. request[w].version \in Version
    BY <1>2 DEF WriteAddTable, AddTableRequest
  <2>2. table' \in [Table -> TableRow] /\ columns' \in SUBSET Table
    BY <1>2, <2>1 DEF WriteAddTable, TypeOK, TableRow, RowState
  <2>3. request' \in [Worker -> Request]
    BY <1>2, FinishType DEF WriteAddTable, TypeOK
  <2>4. QED BY <1>2, <2>2, <2>3 DEF WriteAddTable, TypeOK
<1>3. CASE WriteDropTable(w)
  BY <1>3, FinishType, DisableTablesType DEF WriteDropTable, TypeOK
<1>4. CASE WriteColumns(w)
  <2>1. request[w].table \in Table
    BY <1>4 DEF WriteColumns, TableRequest
  <2>2. columns' \in SUBSET Table
    BY <1>4, <2>1 DEF WriteColumns, TypeOK
  <2>3. QED BY <1>4, <2>2, FinishType DEF WriteColumns, TypeOK
<1>5. QED BY <1>1, <1>2, <1>3, <1>4 DEF TableStep

\* Every reachable state is well typed.
THEOREM TypeCorrect == Spec => []TypeOK
<1>1. Init => TypeOK
  BY DEF Init, TypeOK, VersionRow, TableRow, RowState, Status, Request
<1>2. TypeOK /\ [Next]_vars => TypeOK'
  <2> SUFFICES ASSUME TypeOK, [Next]_vars PROVE TypeOK'
    OBVIOUS
  <2>1. CASE UNCHANGED vars
    BY <2>1 DEF vars, TypeOK
  <2>2. ASSUME NEW w \in Worker, Abort(w) PROVE TypeOK'
    BY <2>2, FinishType DEF Abort, TypeOK
  <2>3. QED BY <2>1, <2>2, VersionStepType, TableStepType DEF Next
<1>3. QED BY <1>1, <1>2, PTL DEF Spec

----------------------------------------------------------------------------
(* The dates of a version, however requests interleave.                    *)

\* The commits that change a version row.
LEMMA VersionWriters ==
  ASSUME [Next]_vars
  PROVE  \/ UNCHANGED version
         \/ \E w \in Worker : WriteCreate(w) \/ WriteStatus(w) \/ WriteDrop(w)
BY DEF Next, vars, VersionStep, TableStep, Abort, LoadCreate, LoadStatus, Reread,
       QueryOthers, LoadDrop, LoadDropAll, QueryTables, LoadAddTable,
       WriteAddTable, LoadTable, WriteDropTable, WriteColumns

\* The row has the date its status calls for.
Dated(row) ==
  (row.status = "active" => row.start) /\ (row.status = "archived" => row.end)

LEMMA StampedIsDated ==
  ASSUME NEW r \in StatusRequest, NEW row \in VersionRow
  PROVE  Dated(Stamped(r, row)) /\ Dated(Archived(row))
<1> USE DEF Dated, Archived, VersionRow
<1>1. CASE r.to = "active"
  BY <1>1 DEF Stamped
<1>2. CASE r.to = "archived"
  BY <1>2 DEF Stamped
<1>3. CASE r.to = "draft"
  BY <1>3 DEF Stamped
<1>4. QED BY <1>1, <1>2, <1>3 DEF StatusRequest, Status

\* The commit that changes a version's status writes its date with it.
THEOREM DatedByStatusCorrect == Spec => []DatedByStatus
<1>1. Init => DatedByStatus
  <2> SUFFICES ASSUME Init, NEW v \in Version
               PROVE  version[v].status = "draft"
    BY DEF DatedByStatus
  <2>1. QED BY DEF Init
<1>2. TypeOK /\ DatedByStatus /\ [Next]_vars => DatedByStatus'
  <2> SUFFICES ASSUME TypeOK, DatedByStatus, [Next]_vars,
                      NEW v \in Version
               PROVE  Dated(version'[v])
    BY DEF Dated, DatedByStatus
  <2>1. Dated(version[v])
    BY DEF Dated, DatedByStatus
  <2>2. ASSUME NEW w \in Worker, WriteCreate(w) PROVE Dated(version'[v])
    BY <2>1, <2>2 DEF WriteCreate, NewVersion, Dated, TypeOK
  <2>3. ASSUME NEW w \in Worker, WriteStatus(w) PROVE Dated(version'[v])
    BY <2>1, <2>3, StampedIsDated DEF WriteStatus, TypeOK
  <2>4. ASSUME NEW w \in Worker, WriteDrop(w) PROVE Dated(version'[v])
    BY <2>1, <2>4 DEF WriteDrop, Disabled, Dated, TypeOK, VersionRow
  <2>5. QED BY <2>1, <2>2, <2>3, <2>4, VersionWriters
<1>3. QED BY <1>1, <1>2, TypeCorrect, PTL DEF Spec

----------------------------------------------------------------------------
(* Requests: how they change, and what Serial makes of them.               *)

\* A record changes by the worker's own steps only.
Loads(w) ==
  \/ LoadCreate(w) \/ LoadStatus(w) \/ LoadDrop(w) \/ LoadDropAll(w)
  \/ LoadAddTable(w) \/ LoadTable(w)

Continues(w) == Reread(w) \/ QueryOthers(w) \/ QueryTables(w)

Writes(w) ==
  \/ WriteCreate(w) \/ WriteStatus(w) \/ WriteDrop(w)
  \/ WriteAddTable(w) \/ WriteDropTable(w) \/ WriteColumns(w)

LEMMA IdleNamesNothing ==
  /\ Idle \notin CreateRequest /\ Idle \notin StatusRequest
  /\ Idle \notin DropRequest /\ Idle \notin AddTableRequest
  /\ Idle \notin TableRequest
BY DEF Idle, CreateRequest, StatusRequest, DropRequest, AddTableRequest,
       TableRequest

LEMMA OpTellsKind ==
  ASSUME NEW r
  PROVE  /\ r \in CreateRequest => r.op = "create"
         /\ r \in StatusRequest => r.op = "status"
         /\ r \in DropRequest => r.op \in {"drop", "drop all"}
         /\ r \in AddTableRequest => r.op = "add table"
         /\ r \in TableRequest =>
              r.op \in {"drop table", "put columns", "drop columns"}
BY DEF CreateRequest, StatusRequest, DropRequest, AddTableRequest, TableRequest

LEMMA NextSteps ==
  ASSUME [Next]_vars
  PROVE  \/ UNCHANGED vars
         \/ \E w \in Worker : Loads(w) \/ Continues(w) \/ Writes(w) \/ Abort(w)
BY DEF Next, VersionStep, TableStep, Loads, Continues, Writes

\* A load starts a request; another step takes one further, or ends it.
LEMMA LoadsStart ==
  ASSUME NEW w \in Worker, Loads(w)
  PROVE  (\E x : Start(w, x)) /\ UNCHANGED <<database, version, table, columns>>
BY DEF Loads, LoadCreate, LoadStatus, LoadDrop, LoadDropAll, LoadAddTable, LoadTable

LEMMA ReadsChangeNothing ==
  ASSUME NEW w \in Worker, Loads(w) \/ Continues(w) \/ Abort(w)
  PROVE  UNCHANGED <<database, version, table, columns>>
BY LoadsStart DEF Continues, Reread, QueryOthers, QueryTables, Abort

\* Which load it was, by the request it started.
LEMMA LoadedKind ==
  ASSUME TypeOK, NEW w \in Worker, Loads(w)
  PROVE  /\ request'[w].op = "create" => LoadCreate(w)
         /\ request'[w].op = "status" => LoadStatus(w)
         /\ request'[w].op \in {"drop", "drop all"} => LoadDrop(w) \/ LoadDropAll(w)
         /\ request'[w].op = "add table" => LoadAddTable(w)
         /\ request'[w].op \in {"drop table", "put columns", "drop columns"}
              => LoadTable(w)
<1>1. LoadCreate(w) => request'[w].op = "create"
  BY DEF LoadCreate, Start, TypeOK
<1>2. LoadStatus(w) => request'[w].op = "status"
  <2> SUFFICES ASSUME LoadStatus(w) PROVE request'[w].op = "status"
    OBVIOUS
  <2>1. PICK at \in {"reread", "others", "write"}, v \in Version, to \in Status :
          Start(w, Transition(at, v, to, {}))
    BY DEF LoadStatus, FirstStep
  <2>2. QED BY <2>1 DEF Transition, Start, TypeOK
<1>3. LoadDrop(w) => request'[w].op = "drop"
  BY DEF LoadDrop, Start, TypeOK
<1>4. LoadDropAll(w) => request'[w].op = "drop all"
  <2> SUFFICES ASSUME LoadDropAll(w) PROVE request'[w].op = "drop all"
    OBVIOUS
  <2>1. Start(w, [op |-> "drop all", at |-> "tables", versions |-> Version,
                  tables |-> {}])
    BY DEF LoadDropAll
  <2>2. QED BY <2>1 DEF Start, TypeOK
<1>5. LoadAddTable(w) => request'[w].op = "add table"
  <2> SUFFICES ASSUME LoadAddTable(w) PROVE request'[w].op = "add table"
    OBVIOUS
  <2>1. PICK v \in Version : Start(w, [op |-> "add table", version |-> v])
    BY DEF LoadAddTable
  <2>2. QED BY <2>1 DEF Start, TypeOK
<1>6. LoadTable(w) => request'[w].op \in {"drop table", "put columns", "drop columns"}
  <2> SUFFICES ASSUME LoadTable(w)
               PROVE  request'[w].op \in {"drop table", "put columns", "drop columns"}
    OBVIOUS
  <2>1. PICK t \in Table, op \in {"drop table", "put columns", "drop columns"} :
          TableFound(t) /\ Start(w, [op |-> op, table |-> t])
    BY DEF LoadTable
  <2>2. request'[w].op = op /\ request'[w].table = t
    BY <2>1 DEF Start, TypeOK
  <2>3. QED BY <2>2
<1>7. QED BY <1>1, <1>2, <1>3, <1>4, <1>5, <1>6 DEF Loads

\* A request is loaded, continued, ended, or as it was.
LEMMA RequestWriters ==
  ASSUME TypeOK, [Next]_vars, NEW w \in Worker
  PROVE  \/ request'[w] = request[w]
         \/ request'[w] = Idle
         \/ Loads(w)
         \/ Continues(w)
<1>1. CASE UNCHANGED vars
  BY <1>1 DEF vars
<1>2. ASSUME NEW v \in Worker, Loads(v)
      PROVE  request'[w] = request[w] \/ Loads(w)
  <2>1. PICK x : Start(v, x)
    BY <1>2, LoadsStart
  <2>2. QED BY <1>2, <2>1 DEF Start, TypeOK
<1>3. ASSUME NEW v \in Worker, Continues(v)
      PROVE  request'[w] = request[w] \/ Continues(w)
  <2>1. (\E x : Continue(v, x)) \/ Finish(v)
    BY <1>3 DEF Continues, Reread, QueryOthers, QueryTables
  <2>2. QED BY <1>3, <2>1 DEF Continue, Finish, TypeOK
<1>4. ASSUME NEW v \in Worker, Writes(v) \/ Abort(v)
      PROVE  request'[w] = request[w] \/ request'[w] = Idle
  <2>1. Finish(v) \/ UNCHANGED request
    BY <1>4
    DEF Writes, WriteCreate, WriteStatus, WriteDrop, WriteAddTable,
        WriteDropTable, WriteColumns, Abort
  <2>2. QED BY <2>1 DEF Finish, TypeOK
<1>5. QED BY <1>1, <1>2, <1>3, <1>4, NextSteps

\* At most one request is in flight.
SoleRequest ==
  \A u, w \in Worker : request[u] # Idle /\ request[w] # Idle => u = w

LEMMA SoleRequestStep ==
  ASSUME TypeOK, Serial, SoleRequest, [Next]_vars
  PROVE  SoleRequest'
<1>1. CASE \E w \in Worker : Loads(w)
  <2>1. PICK w \in Worker : \E x : Start(w, x)
    BY <1>1, LoadsStart
  <2>2. QED BY <2>1 DEF Start, CanStart, SoleRequest, TypeOK
<1>2. CASE ~(\E w \in Worker : Loads(w))
  <2>1. ASSUME NEW w \in Worker, request[w] = Idle PROVE request'[w] = Idle
    BY <1>2, <2>1, RequestWriters, IdleNamesNothing
    DEF Continues, Reread, QueryOthers, QueryTables
  <2>2. QED BY <2>1 DEF SoleRequest
<1>3. QED BY <1>1, <1>2

\* With Serial, a request has the rows to itself from its load to its commit.
THEOREM SoleRequestCorrect ==
  ASSUME Serial
  PROVE  Spec => []SoleRequest
<1>1. Init => SoleRequest
  BY DEF Init, SoleRequest
<1>2. TypeOK /\ SoleRequest /\ [Next]_vars => SoleRequest'
  BY SoleRequestStep
<1>3. QED BY <1>1, <1>2, TypeCorrect, PTL DEF Spec

----------------------------------------------------------------------------
(* What the commits do to the rows.                                        *)

LEMMA CreateEffect ==
  ASSUME TypeOK, NEW w \in Worker, WriteCreate(w)
  PROVE  \E n \in Version \ Enabled :
           /\ version' = [version EXCEPT ![n] = NewVersion]
           /\ version[n].state = "none"
           /\ Enabled' = Enabled \cup {n} /\ Active' = Active
<1>1. PICK n \in Version : /\ version[n].state = "none"
                           /\ version' = [version EXCEPT ![n] = NewVersion]
  BY DEF WriteCreate
<1>2. /\ version'[n].state = "enabled" /\ version'[n].status = "draft"
      /\ \A v \in Version \ {n} : version'[v] = version[v]
  BY <1>1 DEF TypeOK, NewVersion
<1>3. Enabled' = Enabled \cup {n} /\ n \notin Enabled
  BY <1>1, <1>2 DEF Enabled
<1>4. Active' = Active
  <2>1. ASSUME NEW v \in Version PROVE v \in Active' <=> v \in Active
    BY <1>1, <1>2 DEF Active, Enabled
  <2>2. QED BY <2>1 DEF Active, Enabled
<1>5. QED BY <1>1, <1>3, <1>4

LEMMA StampedEffect ==
  ASSUME NEW r \in StatusRequest, NEW row \in VersionRow
  PROVE  LET new == Stamped(r, row) IN
         /\ new.state = row.state /\ new.status = r.to
         /\ r.start = row.start => (r.to = "draft" => ~new.start)
         /\ r.end = row.end => (r.to # "archived" => ~new.end)
         /\ Archived(row).state = row.state /\ Archived(row).status = "archived"
<1> USE DEF Archived, VersionRow
<1>1. CASE r.to = "active"
  BY <1>1 DEF Stamped
<1>2. CASE r.to = "archived"
  BY <1>2 DEF Stamped
<1>3. CASE r.to = "draft"
  BY <1>3 DEF Stamped
<1>4. QED BY <1>1, <1>2, <1>3 DEF StatusRequest, Status

\* A change of status changes no other row than its own and those it archives.
LEMMA StatusEffect ==
  ASSUME TypeOK, NEW w \in Worker, WriteStatus(w)
  PROVE  LET r == request[w] IN
         /\ r \in StatusRequest /\ Enabled' = Enabled
         /\ \A u \in Version :
              /\ version'[u].state = version[u].state
              /\ version'[u].status = IF u = r.version THEN r.to
                                      ELSE IF u \in r.others THEN "archived"
                                      ELSE version[u].status
              /\ u \notin {r.version} \cup r.others => version'[u] = version[u]
<1> DEFINE r == request[w]
<1>1. r \in StatusRequest
  BY DEF WriteStatus
<1>2. ASSUME NEW u \in Version
      PROVE  /\ version'[u].state = version[u].state
             /\ version'[u].status = IF u = r.version THEN r.to
                                     ELSE IF u \in r.others THEN "archived"
                                     ELSE version[u].status
             /\ u \notin {r.version} \cup r.others => version'[u] = version[u]
  BY <1>1, StampedEffect DEF WriteStatus, TypeOK
<1>3. Enabled' = Enabled
  BY <1>2 DEF Enabled
<1>4. QED BY <1>1, <1>2, <1>3

LEMMA DropEffect ==
  ASSUME TypeOK, NEW w \in Worker, WriteDrop(w)
  PROVE  LET V == request[w].versions IN
         /\ Enabled' = Enabled \ V /\ Active' = Active \ V
         /\ \A v \in Version : /\ version'[v].status = version[v].status
                               /\ version'[v].start = version[v].start
                               /\ version'[v].end = version[v].end
                               /\ version'[v].state = "none" =>
                                    version[v].state = "none"
<1> DEFINE V == request[w].versions
<1>1. ASSUME NEW v \in Version
      PROVE  /\ v \in Enabled' <=> v \in Enabled \ V
             /\ version'[v].status = version[v].status
             /\ version'[v].start = version[v].start
             /\ version'[v].end = version[v].end
             /\ version'[v].state = "none" => version[v].state = "none"
  BY DEF WriteDrop, Disabled, TypeOK, VersionRow, Enabled
<1>2. Enabled' = Enabled \ V
  BY <1>1 DEF Enabled
<1>3. Active' = Active \ V
  BY <1>1, <1>2 DEF Active, Enabled
<1>4. QED BY <1>1, <1>2, <1>3

LEMMA DisableTablesEffect ==
  ASSUME TypeOK, NEW T, DisableTables(T)
  PROVE  /\ EnabledTables' = EnabledTables \ T
         /\ \A t \in Table : table'[t].version = table[t].version
<1>1. ASSUME NEW t \in Table
      PROVE  /\ table'[t].version = table[t].version
             /\ t \in EnabledTables' <=> t \in EnabledTables \ T
  BY DEF DisableTables, Disabled, TypeOK, TableRow, EnabledTables
<1>2. EnabledTables' = EnabledTables \ T
  BY <1>1 DEF EnabledTables
<1>3. QED BY <1>1, <1>2

----------------------------------------------------------------------------
(* One active version.                                                     *)

\* An activation that has listed the versions to archive, and not yet written.
Activates(r) == r \in StatusRequest /\ r.at = "write" /\ r.to = "active"

\* What a lock on the database, taken before that list and held until the
\* commit, would give; two activations of the same version may overlap.
ActivationsApart ==
  \A u, w \in Worker :
    Activates(request[u]) /\ Activates(request[w])
      => request[u].version = request[w].version

\* The list still has every version to archive.
ListComplete(r) == Activates(r) => Superseded(r.version) \subseteq r.others

ActiveInv ==
  /\ \A w \in Worker : ListComplete(request[w])
  /\ AtMostOneActive

\* Only an activation makes a version active, and at most its own.
LEMMA ActiveStep ==
  ASSUME TypeOK, ActiveInv, [Next]_vars
  PROVE  \/ Active' \subseteq Active
         \/ \E w \in Worker : /\ Activates(request[w]) /\ WriteStatus(w)
                              /\ Active' = {request[w].version} \cap Enabled
<1>1. CASE UNCHANGED version
  BY <1>1 DEF Active, Enabled
<1>2. ASSUME NEW w \in Worker, WriteCreate(w) PROVE Active' \subseteq Active
  BY <1>2, CreateEffect
<1>3. ASSUME NEW w \in Worker, WriteDrop(w) PROVE Active' \subseteq Active
  BY <1>3, DropEffect
<1>4. ASSUME NEW w \in Worker, WriteStatus(w)
      PROVE  \/ Active' \subseteq Active
             \/ /\ Activates(request[w])
                /\ Active' = {request[w].version} \cap Enabled
  <2> DEFINE r == request[w]
  <2>1. /\ r \in StatusRequest /\ r.at = "write" /\ Enabled' = Enabled
        /\ \A u \in Version :
             version'[u].status = IF u = r.version THEN r.to
                                  ELSE IF u \in r.others THEN "archived"
                                  ELSE version[u].status
    BY <1>4, StatusEffect DEF WriteStatus
  <2>2. CASE r.to # "active"
    BY <2>1, <2>2 DEF Active, Enabled
  <2>3. CASE r.to = "active"
    <3>1. Activates(r) /\ Superseded(r.version) \subseteq r.others
      BY <2>1, <2>3 DEF Activates, ActiveInv, ListComplete
    <3>2. \A u \in Enabled :
            u # r.version /\ version'[u].status = "active" => u \in Superseded(r.version)
      BY <2>1 DEF Superseded, Active, Enabled
    <3>3. \A u \in Enabled : version'[u].status = "active" => u = r.version
      BY <2>1, <3>1, <3>2 DEF Enabled
    <3>4. r.version \in Enabled => version'[r.version].status = "active"
      BY <2>1, <2>3 DEF Enabled
    <3>5. QED BY <2>1, <3>1, <3>3, <3>4 DEF Active
  <2>4. QED BY <2>2, <2>3
<1>5. QED BY <1>1, <1>2, <1>3, <1>4, VersionWriters

LEMMA ActiveInvInit == Init => ActiveInv
<1> SUFFICES ASSUME Init PROVE ActiveInv
  OBVIOUS
<1>1. Active = {}
  BY DEF Init, Active, Enabled
<1>2. \A w \in Worker : ~Activates(request[w])
  BY IdleNamesNothing DEF Init, Activates
<1>3. QED BY <1>1, <1>2 DEF ActiveInv, ListComplete, AtMostOneActive

\* An activation reaches its write with the list just read, and it is only
\* another one's commit that could add to what the list should hold.
LEMMA ActiveInvStep ==
  ASSUME TypeOK, ActivationsApart, ActiveInv, [Next]_vars
  PROVE  ActiveInv'
<1>1. ASSUME NEW w \in Worker, Activates(request[w])'
      PROVE  Superseded(request[w].version)' \subseteq request'[w].others
  <2>1. CASE request'[w] = request[w]
    <3> DEFINE v == request[w].version
    <3>1. Activates(request[w]) /\ Superseded(v) \subseteq request[w].others
      BY <1>1, <2>1 DEF ActiveInv, ListComplete, Activates
    <3>2. CASE Active' \subseteq Active
      BY <2>1, <3>1, <3>2 DEF Superseded
    <3>3. ASSUME NEW u \in Worker, Activates(request[u]),
                 Active' = {request[u].version} \cap Enabled
          PROVE  Superseded(v)' \subseteq request'[w].others
      BY <2>1, <3>1, <3>3 DEF ActivationsApart, Superseded
    <3>4. QED BY <2>1, <3>2, <3>3, ActiveStep
  <2>2. CASE Continues(w)
    <3>1. CASE QueryOthers(w)
      <4>1. /\ request'[w].version = request[w].version
            /\ request'[w].others = Superseded(request[w].version)
        BY <3>1 DEF QueryOthers, Continue, StatusRequest, TypeOK
      <4>2. Active' = Active
        BY <3>1 DEF QueryOthers, Active, Enabled
      <4>3. QED BY <4>1, <4>2 DEF Superseded
    <3>2. CASE Reread(w)
      <4>1. request'[w] # Idle
        BY <1>1, IdleNamesNothing DEF Activates
      <4>2. /\ request'[w].at = FirstStep(request[w].to)
            /\ request'[w].to = request[w].to
        BY <3>2, <4>1 DEF Reread, Continue, Finish, Transition, TypeOK
      <4>3. QED BY <1>1, <4>2 DEF FirstStep, Activates
    <3>3. CASE QueryTables(w)
      BY <1>1, <3>3, OpTellsKind
      DEF QueryTables, Continue, DropRequest, Activates, TypeOK
    <3>4. QED BY <2>2, <3>1, <3>2, <3>3 DEF Continues
  <2>3. CASE Loads(w)
    <3>3. LoadStatus(w)
      BY <1>1, <2>3, OpTellsKind, LoadedKind DEF Activates
    <3>4. PICK at \in {"reread", "others", "write"}, v \in Version, to \in Status :
            /\ Start(w, Transition(at, v, to, {}))
            /\ at = "reread" \/ at = FirstStep(to)
      BY <3>3 DEF LoadStatus, FirstStep
    <3>5. request'[w].at = at /\ request'[w].to = to
      BY <3>4 DEF Start, Transition, TypeOK
    <3>6. QED BY <1>1, <3>4, <3>5 DEF FirstStep, Activates
  <2>4. CASE request'[w] = Idle
    BY <1>1, <2>4, IdleNamesNothing DEF Activates
  <2>5. QED BY <2>1, <2>2, <2>3, <2>4, RequestWriters
<1>2. AtMostOneActive'
  BY ActiveStep DEF ActiveInv, AtMostOneActive
<1>3. QED BY <1>1, <1>2 DEF ActiveInv, ListComplete

\* However requests overlap otherwise, at most one version is active as long
\* as no two activations of different versions are between the list of the
\* active ones and the commit: activate() archives every one it listed.
THEOREM AtMostOneActiveApart == Spec /\ []ActivationsApart => []AtMostOneActive
<1>1. TypeOK /\ ActivationsApart /\ ActiveInv /\ [Next]_vars => ActiveInv'
  BY ActiveInvStep
<1>2. ActiveInv => AtMostOneActive
  BY DEF ActiveInv
<1>3. QED BY <1>1, <1>2, ActiveInvInit, TypeCorrect, PTL DEF Spec

LEMMA SoleActivation ==
  ASSUME SoleRequest
  PROVE  ActivationsApart
BY IdleNamesNothing DEF SoleRequest, ActivationsApart, Activates

\* So it is when requests do not overlap.
THEOREM AtMostOneActiveCorrect ==
  ASSUME Serial
  PROVE  Spec => []AtMostOneActive
<1>1. Spec => []SoleRequest
  BY SoleRequestCorrect
<1>2. SoleRequest => ActivationsApart
  BY SoleActivation
<1>3. QED BY <1>1, <1>2, AtMostOneActiveApart, PTL

----------------------------------------------------------------------------
(* The versions implement CurrentVersion: each commit is one of its steps. *)

LEMMA CurrentStep ==
  ASSUME TypeOK, ActiveInv, [Next]_vars
  PROVE  AsCurrent!Next \/ UNCHANGED <<Enabled, Active>>
<1> USE DEF AsCurrent!Next, AsCurrent!Add, AsCurrent!Publish, AsCurrent!Withdraw,
            AsCurrent!Remove
<1>1. Active \subseteq Enabled /\ Enabled \subseteq Version /\ AtMostOneActive
  BY DEF Active, Enabled, ActiveInv
<1>2. CASE UNCHANGED version
  BY <1>2 DEF Enabled, Active
<1>3. ASSUME NEW w \in Worker, WriteCreate(w) PROVE AsCurrent!Next
  BY <1>3, CreateEffect
<1>4. ASSUME NEW w \in Worker, WriteStatus(w)
      PROVE  AsCurrent!Next \/ UNCHANGED <<Enabled, Active>>
  <2>1. Enabled' = Enabled
    BY <1>4, StatusEffect
  <2>2. CASE Active' \subseteq Active
    <3>1. Active' = Active \/ (Active # {} /\ Active' = {})
      BY <1>1, <2>2 DEF AtMostOneActive
    <3>2. QED BY <2>1, <3>1
  <2>3. ASSUME NEW u \in Worker, Active' = {request[u].version} \cap Enabled
        PROVE  AsCurrent!Next \/ UNCHANGED <<Enabled, Active>>
    <3> DEFINE v == request[u].version
    <3>1. CASE v \in Enabled \ Active
      BY <1>1, <2>1, <2>3, <3>1
    <3>2. CASE v \in Active
      BY <1>1, <2>1, <2>3, <3>2 DEF AtMostOneActive
    <3>3. CASE v \notin Enabled
      BY <2>1, <2>3, <3>3
    <3>4. QED BY <3>1, <3>2, <3>3
  <2>4. QED BY <2>2, <2>3, ActiveStep
<1>5. ASSUME NEW w \in Worker, WriteDrop(w) PROVE AsCurrent!Next
  <2>1. request[w].versions \in SUBSET Version
    BY <1>5 DEF WriteDrop, DropRequest
  <2>2. QED BY <1>5, <2>1, DropEffect
<1>6. QED BY <1>2, <1>3, <1>4, <1>5, VersionWriters

\* With activations kept apart, publishing, withdrawing and removing versions
\* are single steps, however requests overlap otherwise: readers never see a
\* database between two of them.
THEOREM CurrentSpecApart == Spec /\ []ActivationsApart => CurrentSpec
<1>1. Init => AsCurrent!Init
  BY DEF Init, AsCurrent!Init, Enabled, Active
<1>2. TypeOK /\ ActiveInv /\ [Next]_vars
        => [AsCurrent!Next]_<<Enabled, Active>>
  BY CurrentStep
<1>3. TypeOK /\ ActivationsApart /\ ActiveInv /\ [Next]_vars => ActiveInv'
  BY ActiveInvStep
<1>4. QED
  BY <1>1, <1>2, <1>3, ActiveInvInit, TypeCorrect, PTL
  DEF Spec, CurrentSpec, AsCurrent!Spec

\* So it is when requests do not overlap.
THEOREM CurrentSpecCorrect ==
  ASSUME Serial
  PROVE  Spec => CurrentSpec
<1>1. Spec => []SoleRequest
  BY SoleRequestCorrect
<1>2. SoleRequest => ActivationsApart
  BY SoleActivation
<1>3. QED BY <1>1, <1>2, CurrentSpecApart, PTL

----------------------------------------------------------------------------
(* The activity window.                                                    *)

\* A change of status to one that clears dates, by what it has read of them.
DatesRead(r) == r \in StatusRequest /\ r.at # "reread" /\ r.to # "archived"

\* A change of status about to commit the dates of version v.
Dates(r, v) == r \in StatusRequest /\ r.at = "write" /\ v \in {r.version} \cup r.others

\* What a lock on the version row, or an UPDATE of every column, would give:
\* no commit to a row's dates while another request goes by what it read.
WindowsApart ==
  \A u, w \in Worker :
    DatesRead(request[u]) /\ Dates(request[w], request[u].version) => u = w

\* The dates it has read are still the row's.
DatesCurrent(r) ==
  /\ r \in StatusRequest => version[r.version].state # "none"
  /\ DatesRead(r) => /\ r.start = version[r.version].start
                     /\ r.end = version[r.version].end

WindowInv ==
  /\ \A w \in Worker : DatesCurrent(request[w])
  /\ WindowMatchesStatus

\* The dates of a row in use change by a change of status only, and no row is
\* freed.
LEMMA DatesWriters ==
  ASSUME TypeOK, [Next]_vars, NEW v \in Version, version[v].state # "none"
  PROVE  /\ version'[v].state # "none"
         /\ \/ /\ version'[v].start = version[v].start
               /\ version'[v].end = version[v].end
            \/ \E w \in Worker : WriteStatus(w) /\ Dates(request[w], v)
<1>1. ASSUME NEW w \in Worker, WriteCreate(w) PROVE version'[v] = version[v]
  BY <1>1, CreateEffect DEF TypeOK
<1>2. ASSUME NEW w \in Worker, WriteStatus(w)
      PROVE  /\ version'[v].state # "none"
             /\ version'[v] = version[v] \/ Dates(request[w], v)
  BY <1>2, StatusEffect DEF Dates, WriteStatus
<1>3. ASSUME NEW w \in Worker, WriteDrop(w)
      PROVE  /\ version'[v].state # "none"
             /\ version'[v].start = version[v].start
             /\ version'[v].end = version[v].end
  BY <1>3, DropEffect
<1>4. QED BY <1>1, <1>2, <1>3, VersionWriters

\* What a load or a reread takes from the row is what the row holds.
LEMMA DatesJustRead ==
  ASSUME TypeOK, NEW w \in Worker, request'[w] \in StatusRequest,
         Loads(w) \/ Continues(w), DatesCurrent(request[w])
  PROVE  DatesCurrent(request[w])'
<1>1. UNCHANGED version
  BY ReadsChangeNothing
<1>2. CASE Loads(w)
  <2>1. LoadStatus(w)
    BY <1>2, OpTellsKind, LoadedKind
  <2>2. PICK at \in {"reread", "others", "write"}, v \in Version, to \in Status :
          Start(w, Transition(at, v, to, {})) /\ Found(v)
    BY <2>1 DEF LoadStatus, FirstStep
  <2>3. /\ request'[w].version = v /\ request'[w].start = version[v].start
        /\ request'[w].end = version[v].end
    BY <2>2 DEF Start, Transition, TypeOK
  <2>4. version[v].state # "none"
    BY <2>2 DEF Found, Enabled
  <2>5. QED BY <1>1, <2>3, <2>4 DEF DatesCurrent
<1>3. CASE Reread(w)
  <2> DEFINE r == request[w]
  <2>1. request'[w] # Idle
    BY IdleNamesNothing
  <2>2. /\ request'[w].version = r.version
        /\ request'[w].start = version[r.version].start
        /\ request'[w].end = version[r.version].end
    BY <1>3, <2>1 DEF Reread, Continue, Finish, Transition, TypeOK
  <2>3. version[r.version].state # "none"
    BY <1>3 DEF Reread, DatesCurrent
  <2>4. QED BY <1>1, <2>2, <2>3 DEF DatesCurrent
<1>4. CASE QueryOthers(w)
  <2> DEFINE r == request[w]
  <2>1. /\ r \in StatusRequest /\ r.at = "others"
        /\ request'[w].version = r.version /\ request'[w].to = r.to
        /\ request'[w].start = r.start /\ request'[w].end = r.end
    BY <1>4 DEF QueryOthers, Continue, StatusRequest, TypeOK
  <2>2. QED BY <1>1, <2>1 DEF DatesCurrent, DatesRead
<1>5. CASE QueryTables(w)
  <2>1. request'[w].op = request[w].op /\ request[w] \in DropRequest
    BY <1>5 DEF QueryTables, Continue, DropRequest, TypeOK
  <2>2. QED BY <2>1, OpTellsKind
<1>6. QED BY <1>2, <1>3, <1>4, <1>5 DEF Continues

LEMMA DatesCurrentStep ==
  ASSUME TypeOK, WindowsApart, WindowInv, [Next]_vars, NEW w \in Worker
  PROVE  DatesCurrent(request[w])'
<1>1. DatesCurrent(request[w])
  BY DEF WindowInv
<1>2. CASE request'[w] \notin StatusRequest
  BY <1>2 DEF DatesCurrent, DatesRead
<1>3. CASE request'[w] = request[w] /\ request[w] \in StatusRequest
  <2> DEFINE v == request[w].version
  <2>1. v \in Version /\ version[v].state # "none"
    BY <1>1, <1>3 DEF DatesCurrent, StatusRequest
  <2>2. version'[v].state # "none"
    BY <2>1, DatesWriters
  <2>3. ASSUME DatesRead(request[w])
        PROVE  version'[v].start = version[v].start /\ version'[v].end = version[v].end
    <3>1. ~WriteStatus(w)
      BY <1>3, IdleNamesNothing DEF WriteStatus, Finish, TypeOK
    <3>2. \A u \in Worker : WriteStatus(u) => ~Dates(request[u], v)
      BY <2>3, <3>1 DEF WindowsApart
    <3>3. QED BY <2>1, <3>2, DatesWriters
  <2>4. QED BY <1>1, <1>3, <2>2, <2>3 DEF DatesCurrent, DatesRead
<1>4. CASE request'[w] \in StatusRequest /\ (Loads(w) \/ Continues(w))
  BY <1>1, <1>4, DatesJustRead
<1>5. QED BY <1>2, <1>3, <1>4, RequestWriters, IdleNamesNothing

LEMMA WindowStep ==
  ASSUME TypeOK, WindowInv, [Next]_vars
  PROVE  WindowMatchesStatus'
<1> USE DEF WindowMatchesStatus
<1>1. WindowMatchesStatus
  BY DEF WindowInv
<1>2. CASE UNCHANGED version
  BY <1>1, <1>2
<1>3. ASSUME NEW w \in Worker, WriteCreate(w) PROVE WindowMatchesStatus'
  <2>1. PICK n \in Version : version' = [version EXCEPT ![n] = NewVersion]
    BY <1>3 DEF WriteCreate
  <2>2. /\ ~version'[n].start /\ ~version'[n].end
        /\ \A v \in Version \ {n} : version'[v] = version[v]
    BY <2>1 DEF TypeOK, NewVersion
  <2>3. QED BY <1>1, <2>2
<1>4. ASSUME NEW w \in Worker, WriteStatus(w), NEW v \in Version
      PROVE  /\ version'[v].status = "draft" => ~version'[v].start
             /\ version'[v].status # "archived" => ~version'[v].end
  <2> DEFINE r == request[w]
  <2>1. r \in StatusRequest /\ version[v] \in VersionRow
    BY <1>4 DEF WriteStatus, TypeOK
  <2>2. CASE v = r.version
    <3>1. version'[v] = Stamped(r, version[v]) /\ r.at = "write"
      BY <1>4, <2>2 DEF WriteStatus
    <3>2. r.to # "archived" =>
            r.start = version[v].start /\ r.end = version[v].end
      BY <2>1, <2>2, <3>1 DEF WindowInv, DatesCurrent, DatesRead
    <3>3. QED BY <2>1, <3>1, <3>2, StampedEffect
  <2>3. CASE v # r.version /\ v \in r.others
    <3>1. version'[v] = Archived(version[v])
      BY <1>4, <2>3 DEF WriteStatus
    <3>2. QED BY <2>1, <3>1, StampedEffect
  <2>4. CASE v # r.version /\ v \notin r.others
    BY <1>1, <1>4, <2>4 DEF WriteStatus
  <2>5. QED BY <2>2, <2>3, <2>4
<1>5. ASSUME NEW w \in Worker, WriteDrop(w) PROVE WindowMatchesStatus'
  BY <1>1, <1>5, DropEffect
<1>6. QED BY <1>2, <1>3, <1>4, <1>5, VersionWriters

LEMMA WindowInvInit == Init => WindowInv
<1> SUFFICES ASSUME Init PROVE WindowInv
  OBVIOUS
<1>1. \A w \in Worker : DatesCurrent(request[w])
  BY IdleNamesNothing DEF Init, DatesCurrent, DatesRead
<1>2. WindowMatchesStatus
  <2>1. ASSUME NEW v \in Version PROVE ~version[v].start /\ ~version[v].end
    BY DEF Init
  <2>2. QED BY <2>1 DEF WindowMatchesStatus
<1>3. QED BY <1>1, <1>2 DEF WindowInv

\* However requests overlap otherwise, a version has no date that its status
\* does not call for, as long as no commit dates a version while another
\* change of its status goes by the dates it read: draft() and activate()
\* clear what an earlier status left.
THEOREM WindowMatchesStatusApart == Spec /\ []WindowsApart => []WindowMatchesStatus
<1>1. TypeOK /\ WindowsApart /\ WindowInv /\ [Next]_vars => WindowInv'
  BY DatesCurrentStep, WindowStep DEF WindowInv
<1>2. WindowInv => WindowMatchesStatus
  BY DEF WindowInv
<1>3. QED BY <1>1, <1>2, WindowInvInit, TypeCorrect, PTL DEF Spec

\* So it is when requests do not overlap.
THEOREM WindowMatchesStatusCorrect ==
  ASSUME Serial
  PROVE  Spec => []WindowMatchesStatus
<1>1. Spec => []SoleRequest
  BY SoleRequestCorrect
<1>2. SoleRequest => WindowsApart
  BY IdleNamesNothing DEF SoleRequest, WindowsApart, DatesRead, Dates
<1>3. QED BY <1>1, <1>2, WindowMatchesStatusApart, PTL

----------------------------------------------------------------------------
(* Nothing outlives its version.                                           *)

Drops(r) == r \in DropRequest /\ r.at = "write"
DropsTable(r) == r \in TableRequest /\ r.op = "drop table"
PutsColumns(r) == r \in TableRequest /\ r.op = "put columns"

\* What a lock on the row above, shared by those that create under it and
\* taken alone by those that delete it, would give: no creation in flight
\* under a row that another request is about to delete.
DropsApart ==
  \A u, w \in Worker :
    /\ Drops(request[u]) =>
         /\ request[u].op = "drop all" => request[w] \notin CreateRequest
         /\ request[w] \in AddTableRequest
              => request[w].version \notin request[u].versions
         /\ PutsColumns(request[w])
              => request[w].table \notin TablesOf(request[u].versions)
    /\ DropsTable(request[u]) /\ PutsColumns(request[w])
         => request[w].table # request[u].table

\* What a request creates under is still there, and what it deletes with the
\* versions is all there is under them.
Placed(r) ==
  /\ r \in CreateRequest => database
  /\ r \in AddTableRequest => r.version \in Enabled
  /\ PutsColumns(r) => r.table \in EnabledTables
  /\ r \in DropRequest =>
       /\ r.op = "drop all" => r.versions = Version
       /\ r.at = "write" => TablesOf(r.versions) \cap EnabledTables \subseteq r.tables

DropInv ==
  /\ \A w \in Worker : Placed(request[w])
  /\ NothingOutlivesItsVersion

LEMMA IdlePlaced ==
  ASSUME NEW w \in Worker, request'[w] = Idle
  PROVE  Placed(request[w])'
BY IdleNamesNothing DEF Placed, PutsColumns

\* The rows above stay, unless a deletion of theirs commits.
LEMMA AboveStays ==
  ASSUME TypeOK, [Next]_vars
  PROVE  /\ database' = database \/
              \E w \in Worker : WriteDrop(w) /\ request[w].op = "drop all"
         /\ \A v \in Enabled : v \in Enabled' \/
              \E w \in Worker : WriteDrop(w) /\ v \in request[w].versions
         /\ \A t \in EnabledTables : t \in EnabledTables' \/
              \E w \in Worker :
                \/ WriteDrop(w) /\ t \in TablesOf(request[w].versions)
                \/ WriteDropTable(w) /\ t = request[w].table
<1>1. CASE UNCHANGED <<database, version, table, columns>>
  BY <1>1 DEF Enabled, EnabledTables
<1>2. ASSUME NEW w \in Worker, WriteCreate(w)
      PROVE  /\ database' = database /\ Enabled \subseteq Enabled'
             /\ EnabledTables' = EnabledTables
  BY <1>2, CreateEffect DEF WriteCreate, EnabledTables
<1>3. ASSUME NEW w \in Worker, WriteStatus(w)
      PROVE  /\ database' = database /\ Enabled' = Enabled
             /\ EnabledTables' = EnabledTables
  BY <1>3, StatusEffect DEF WriteStatus, EnabledTables
<1>4. ASSUME NEW w \in Worker, WriteDrop(w)
      PROVE  /\ request[w].op # "drop all" => database' = database
             /\ Enabled' = Enabled \ request[w].versions
             /\ EnabledTables' = EnabledTables \ TablesOf(request[w].versions)
  BY <1>4, DropEffect, DisableTablesEffect DEF WriteDrop, TypeOK
<1>5. ASSUME NEW w \in Worker, WriteAddTable(w)
      PROVE  /\ database' = database /\ Enabled' = Enabled
             /\ EnabledTables \subseteq EnabledTables'
  BY <1>5 DEF WriteAddTable, EnabledTables, Enabled, TypeOK
<1>6. ASSUME NEW w \in Worker, WriteDropTable(w)
      PROVE  /\ database' = database /\ Enabled' = Enabled
             /\ EnabledTables' = EnabledTables \ {request[w].table}
  BY <1>6, DisableTablesEffect DEF WriteDropTable, Enabled
<1>7. ASSUME NEW w \in Worker, WriteColumns(w)
      PROVE  UNCHANGED <<database, version, table>>
  BY <1>7 DEF WriteColumns
<1>8. CASE \E w \in Worker : Writes(w)
  <2>1. PICK w \in Worker : Writes(w)
    BY <1>8
  <2>2. CASE WriteDrop(w)
    BY <1>4, <2>2
  <2>3. CASE WriteDropTable(w)
    BY <1>6, <2>3
  <2>4. CASE WriteColumns(w)
    BY <1>7, <2>4 DEF Enabled, EnabledTables
  <2>5. CASE WriteCreate(w) \/ WriteStatus(w) \/ WriteAddTable(w)
    BY <1>2, <1>3, <1>5, <2>5
  <2>6. QED BY <2>1, <2>2, <2>3, <2>4, <2>5 DEF Writes
<1>9. QED BY <1>1, <1>8, NextSteps, ReadsChangeNothing DEF vars

\* A table in use keeps its version, and the tables of a version are added to
\* by an add on it only.
LEMMA TablesStay ==
  ASSUME TypeOK, [Next]_vars, NEW V
  PROVE  \/ TablesOf(V)' \cap EnabledTables' \subseteq TablesOf(V) \cap EnabledTables
         \/ \E w \in Worker : WriteAddTable(w) /\ request[w].version \in V
<1>1. CASE UNCHANGED table
  BY <1>1 DEF TablesOf, EnabledTables
<1>2. ASSUME NEW T, DisableTables(T)
      PROVE  TablesOf(V)' \cap EnabledTables' \subseteq TablesOf(V) \cap EnabledTables
  BY <1>2, DisableTablesEffect DEF TablesOf, EnabledTables
<1>3. ASSUME NEW w \in Worker, WriteAddTable(w), request[w].version \notin V
      PROVE  TablesOf(V)' \cap EnabledTables' \subseteq TablesOf(V) \cap EnabledTables
  <2>1. PICK n \in Table :
          table' = [table EXCEPT
            ![n] = [state |-> "enabled", version |-> request[w].version]]
    BY <1>3 DEF WriteAddTable
  <2>2. /\ table'[n].version \notin V
        /\ \A t \in Table \ {n} : table'[t] = table[t]
    BY <1>3, <2>1 DEF TypeOK
  <2>3. QED BY <2>2 DEF TablesOf, EnabledTables
<1>4. CASE \E w \in Worker : WriteDrop(w) \/ WriteDropTable(w)
  BY <1>2, <1>4 DEF WriteDrop, WriteDropTable
<1>5. QED
  BY <1>1, <1>3, <1>4, NextSteps, ReadsChangeNothing
  DEF vars, Writes, WriteCreate, WriteStatus, WriteColumns

\* A load finds the row it creates under enabled, and a deletion all there is.
LEMMA PlacedWhenRead ==
  ASSUME TypeOK, NEW w \in Worker, Loads(w) \/ Continues(w), Placed(request[w])
  PROVE  Placed(request[w])'
<1>1. UNCHANGED <<database, version, table, columns>>
  BY ReadsChangeNothing
<1>2. Enabled' = Enabled /\ EnabledTables' = EnabledTables
  BY <1>1 DEF Enabled, EnabledTables
<1>3. CASE LoadCreate(w)
  <2>1. request'[w].op = "create" /\ database'
    BY <1>3 DEF LoadCreate, Start, TypeOK
  <2>2. QED BY <2>1, OpTellsKind DEF Placed, PutsColumns
<1>4. CASE Loads(w) /\ request'[w] \in StatusRequest
  BY <1>4, OpTellsKind DEF Placed, PutsColumns
<1>5. CASE LoadDrop(w) \/ LoadDropAll(w)
  <2>1. /\ request'[w].op \in {"drop", "drop all"} /\ request'[w].at = "tables"
        /\ request'[w].op = "drop all" => request'[w].versions = Version
    <3>1. CASE LoadDrop(w)
      BY <3>1 DEF LoadDrop, Start, TypeOK
    <3>2. CASE LoadDropAll(w)
      <4>1. Start(w, [op |-> "drop all", at |-> "tables", versions |-> Version,
                      tables |-> {}])
        BY <3>2 DEF LoadDropAll
      <4>2. QED BY <4>1 DEF Start, TypeOK
    <3>3. QED BY <1>5, <3>1, <3>2
  <2>2. QED BY <2>1, OpTellsKind DEF Placed, PutsColumns
<1>6. CASE LoadAddTable(w)
  <2>1. PICK v \in Version :
          Found(v) /\ Start(w, [op |-> "add table", version |-> v])
    BY <1>6 DEF LoadAddTable
  <2>2. request'[w].op = "add table" /\ request'[w].version = v
    BY <2>1 DEF Start, TypeOK
  <2>3. QED BY <1>2, <2>1, <2>2, OpTellsKind DEF Placed, PutsColumns, Found
<1>7. CASE LoadTable(w)
  <2>1. PICK t \in Table, op \in {"drop table", "put columns", "drop columns"} :
          TableFound(t) /\ Start(w, [op |-> op, table |-> t])
    BY <1>7 DEF LoadTable
  <2>2. request'[w].op = op /\ request'[w].table = t
    BY <2>1 DEF Start, TypeOK
  <2>3. QED BY <1>2, <2>1, <2>2, OpTellsKind DEF Placed, PutsColumns, TableFound
<1>8. CASE Continues(w) /\ ~QueryTables(w)
  <2>1. CASE request'[w] = Idle
    BY <2>1, IdlePlaced
  <2>2. CASE request'[w] # Idle /\ Reread(w)
    <3>1. request'[w].op = "status"
      BY <2>2 DEF Reread, Continue, Finish, Transition, TypeOK
    <3>2. QED BY <3>1, OpTellsKind DEF Placed, PutsColumns
  <2>3. CASE QueryOthers(w)
    <3>1. request'[w].op = request[w].op /\ request[w] \in StatusRequest
      BY <2>3 DEF QueryOthers, Continue, StatusRequest, TypeOK
    <3>2. QED BY <3>1, OpTellsKind DEF Placed, PutsColumns
  <2>4. QED BY <1>8, <2>1, <2>2, <2>3 DEF Continues
<1>9. CASE QueryTables(w)
  <2> DEFINE r == request[w]
  <2>1. /\ r \in DropRequest
        /\ request'[w].op = r.op /\ request'[w].versions = r.versions
        /\ request'[w].tables = TablesOf(r.versions) \cap EnabledTables
    BY <1>9 DEF QueryTables, Continue, DropRequest, TypeOK
  <2>2. TablesOf(r.versions)' = TablesOf(r.versions)
    BY <1>1, <2>1 DEF TablesOf
  <2>3. QED BY <1>2, <2>1, <2>2, OpTellsKind DEF Placed, PutsColumns, TablesOf
<1>10. Loads(w) => \/ LoadCreate(w) \/ request'[w] \in StatusRequest
                   \/ LoadDrop(w) \/ LoadDropAll(w) \/ LoadAddTable(w) \/ LoadTable(w)
  <2> SUFFICES ASSUME LoadStatus(w) PROVE request'[w] \in StatusRequest
    BY DEF Loads
  <2>1. PICK at \in {"reread", "others", "write"}, v \in Version, to \in Status :
          Start(w, Transition(at, v, to, {}))
    BY DEF LoadStatus, FirstStep
  <2>2. QED BY <2>1, TransitionType DEF Start, TypeOK
<1>11. QED BY <1>3, <1>4, <1>5, <1>6, <1>7, <1>8, <1>9, <1>10

\* It is so until the request commits, deletions being apart from creations.
LEMMA PlacedStep ==
  ASSUME TypeOK, DropsApart, DropInv, [Next]_vars, NEW w \in Worker
  PROVE  Placed(request[w])'
<1> DEFINE r == request[w]
<1>1. Placed(r)
  BY DEF DropInv
<1>2. CASE request'[w] = r
  <2>1. ASSUME NEW u \in Worker, WriteDrop(u) PROVE Drops(request[u])
    BY <2>1 DEF WriteDrop, Drops
  <2>2. r \in CreateRequest => database'
    BY <1>1, <2>1, AboveStays DEF Placed, DropsApart
  <2>3. r \in AddTableRequest => r.version \in Enabled'
    BY <1>1, <2>1, AboveStays DEF Placed, DropsApart
  <2>4. PutsColumns(r) => r.table \in EnabledTables'
    <3> SUFFICES ASSUME PutsColumns(r) PROVE r.table \in EnabledTables'
      OBVIOUS
    <3>1. r.table \in EnabledTables
      BY <1>1 DEF Placed
    <3>2. ASSUME NEW u \in Worker, WriteDrop(u)
          PROVE  r.table \notin TablesOf(request[u].versions)
      BY <2>1, <3>2 DEF DropsApart
    <3>3. ASSUME NEW u \in Worker, WriteDropTable(u)
          PROVE  r.table # request[u].table
      BY <3>3 DEF WriteDropTable, DropsTable, DropsApart
    <3>4. QED BY <3>1, <3>2, <3>3, AboveStays
  <2>5. Drops(r) => TablesOf(r.versions)' \cap EnabledTables' \subseteq r.tables
    <3>1. ASSUME NEW u \in Worker, WriteAddTable(u), Drops(r)
          PROVE  request[u].version \notin r.versions
      BY <3>1 DEF WriteAddTable, DropsApart
    <3>2. TablesOf(r.versions)' = {t \in Table : table'[t].state # "none"
                                     /\ table'[t].version \in r.versions}
      BY <1>2 DEF TablesOf
    <3>3. Drops(r) => {t \in Table : table'[t].state # "none"
                                     /\ table'[t].version \in r.versions}
                        \cap EnabledTables' \subseteq r.tables
      <4> HIDE DEF r
      <4>1. PICK V : V = r.versions
        OBVIOUS
      <4>2. TablesOf(V)' = {t \in Table : table'[t].state # "none"
                                          /\ table'[t].version \in V}
        BY DEF TablesOf
      <4>3. TablesOf(V)' \cap EnabledTables' \subseteq TablesOf(V) \cap EnabledTables
              \/ \E u \in Worker : WriteAddTable(u) /\ request[u].version \in V
        BY TablesStay
      <4>4. Drops(r) => TablesOf(V) \cap EnabledTables \subseteq r.tables
        BY <1>1, <4>1 DEF Placed, Drops
      <4>5. QED BY <3>1, <4>1, <4>2, <4>3, <4>4
    <3>4. QED BY <3>2, <3>3
  <2>6. r \in DropRequest => (r.op = "drop all" => r.versions = Version)
    BY <1>1 DEF Placed
  <2>7. QED BY <1>2, <2>2, <2>3, <2>4, <2>5, <2>6 DEF Placed, Drops, PutsColumns
<1>3. CASE request'[w] = Idle
  BY <1>3, IdlePlaced
<1>4. CASE Loads(w) \/ Continues(w)
  BY <1>1, <1>4, PlacedWhenRead
<1>5. QED BY <1>2, <1>3, <1>4, RequestWriters

LEMMA NothingOutlivesStep ==
  ASSUME TypeOK, DropInv, [Next]_vars
  PROVE  NothingOutlivesItsVersion'
<1> USE DEF NothingOutlivesItsVersion, ColumnsUnderTables
<1>1. NothingOutlivesItsVersion
  BY DEF DropInv
<1>2. ASSUME UNCHANGED <<database, table, columns>>, Enabled \subseteq Enabled',
             Enabled' # {} => database
      PROVE  NothingOutlivesItsVersion'
  BY <1>1, <1>2 DEF EnabledTables
<1>3. ASSUME UNCHANGED <<database, version>>, EnabledTables' \subseteq EnabledTables,
             \A t \in EnabledTables' : table'[t].version = table[t].version,
             columns' \subseteq EnabledTables'
      PROVE  NothingOutlivesItsVersion'
  <2>1. Enabled' = Enabled
    BY <1>3 DEF Enabled
  <2>2. QED BY <1>1, <1>3, <2>1
<1>4. ASSUME NEW w \in Worker, WriteCreate(w) PROVE NothingOutlivesItsVersion'
  <2>1. database /\ UNCHANGED <<database, table, columns>>
    BY <1>4 DEF WriteCreate, DropInv, Placed
  <2>2. Enabled \subseteq Enabled'
    BY <1>4, CreateEffect
  <2>3. QED BY <1>2, <2>1, <2>2
<1>5. ASSUME NEW w \in Worker, WriteStatus(w) PROVE NothingOutlivesItsVersion'
  <2>1. Enabled' = Enabled
    BY <1>5, StatusEffect
  <2>2. QED BY <1>1, <1>2, <1>5, <2>1 DEF WriteStatus
<1>6. ASSUME NEW w \in Worker, WriteDrop(w) PROVE NothingOutlivesItsVersion'
  <2> DEFINE r == request[w]
             T == TablesOf(r.versions)
  <2>1. /\ r \in DropRequest /\ r.at = "write"
        /\ r.op = "drop all" => r.versions = Version
        /\ T \cap EnabledTables \subseteq r.tables
    BY <1>6 DEF WriteDrop, DropInv, Placed
  <2>2. /\ EnabledTables' = EnabledTables \ T
        /\ \A t \in Table : table'[t].version = table[t].version
    BY <1>6, DisableTablesEffect DEF WriteDrop
  <2>3. Enabled' = Enabled \ r.versions
    BY <1>6, DropEffect
  <2>4. Enabled' # {} => database'
    BY <1>1, <1>6, <2>1, <2>3 DEF WriteDrop, Enabled
  <2>5. ASSUME NEW t \in EnabledTables' PROVE table'[t].version \in Enabled'
    BY <1>1, <2>2, <2>3 DEF TablesOf, EnabledTables
  <2>6. columns' \subseteq EnabledTables'
    BY <1>1, <1>6, <2>1, <2>2 DEF WriteDrop, ColumnsLeft
  <2>7. QED BY <2>4, <2>5, <2>6
<1>7. ASSUME NEW w \in Worker, WriteAddTable(w) PROVE NothingOutlivesItsVersion'
  <2>1. request[w].version \in Enabled /\ UNCHANGED <<database, version>>
    BY <1>7 DEF WriteAddTable, DropInv, Placed
  <2>2. PICK n \in Table :
          /\ table' = [table EXCEPT
               ![n] = [state |-> "enabled", version |-> request[w].version]]
          /\ columns' \subseteq columns \cup {n}
    BY <1>7 DEF WriteAddTable
  <2>3. /\ EnabledTables' = EnabledTables \cup {n}
        /\ table'[n].version = request[w].version
        /\ \A t \in EnabledTables \ {n} : table'[t].version = table[t].version
    BY <2>2 DEF EnabledTables, TypeOK
  <2>4. Enabled' = Enabled
    BY <2>1 DEF Enabled
  <2>5. QED BY <1>1, <2>1, <2>2, <2>3, <2>4
<1>8. ASSUME NEW w \in Worker, WriteDropTable(w) PROVE NothingOutlivesItsVersion'
  <2>1. /\ EnabledTables' = EnabledTables \ {request[w].table}
        /\ \A t \in Table : table'[t].version = table[t].version
    BY <1>8, DisableTablesEffect DEF WriteDropTable
  <2>2. EnabledTables' \subseteq Table
    BY DEF EnabledTables
  <2>3. QED BY <1>1, <1>3, <1>8, <2>1, <2>2 DEF WriteDropTable
<1>9. ASSUME NEW w \in Worker, WriteColumns(w) PROVE NothingOutlivesItsVersion'
  <2>1. /\ PutsColumns(request[w]) => request[w].table \in EnabledTables
        /\ UNCHANGED <<database, version, table>>
    BY <1>9 DEF WriteColumns, DropInv, Placed
  <2>2. EnabledTables' = EnabledTables
    BY <2>1 DEF EnabledTables
  <2>3. columns' \subseteq EnabledTables'
    BY <1>1, <1>9, <2>1, <2>2 DEF WriteColumns, PutsColumns
  <2>4. QED BY <1>3, <2>1, <2>2, <2>3
<1>10. CASE UNCHANGED <<database, version, table, columns>>
  BY <1>1, <1>10 DEF Enabled, EnabledTables
<1>11. QED
  BY <1>4, <1>5, <1>6, <1>7, <1>8, <1>9, <1>10, ReadsChangeNothing, NextSteps
  DEF vars, Writes

LEMMA DropInvInit == Init => DropInv
<1> SUFFICES ASSUME Init PROVE DropInv
  OBVIOUS
<1>1. \A w \in Worker : Placed(request[w])
  BY IdleNamesNothing DEF Init, Placed, PutsColumns
<1>2. Enabled = {} /\ EnabledTables = {} /\ columns = {}
  BY DEF Init, Enabled, EnabledTables
<1>3. QED BY <1>1, <1>2 DEF DropInv, NothingOutlivesItsVersion, ColumnsUnderTables

\* However requests overlap otherwise, no table or column is enabled under a
\* version, a table or a database they deleted, as long as none is created in
\* between: each deletion disables in its commit all there is below.
THEOREM NothingOutlivesApart == Spec /\ []DropsApart => []NothingOutlivesItsVersion
<1>1. TypeOK /\ DropsApart /\ DropInv /\ [Next]_vars => DropInv'
  BY PlacedStep, NothingOutlivesStep DEF DropInv
<1>2. DropInv => NothingOutlivesItsVersion
  BY DEF DropInv
<1>3. QED BY <1>1, <1>2, DropInvInit, TypeCorrect, PTL DEF Spec

LEMMA SoleDeletion ==
  ASSUME SoleRequest
  PROVE  DropsApart
<1>1. ASSUME NEW u \in Worker, NEW w \in Worker
      PROVE  /\ Drops(request[u]) => /\ request[w] \notin CreateRequest
                                     /\ request[w] \notin AddTableRequest
                                     /\ ~PutsColumns(request[w])
             /\ DropsTable(request[u]) => ~PutsColumns(request[w])
  BY IdleNamesNothing, OpTellsKind
  DEF SoleRequest, Drops, DropsTable, PutsColumns
<1>2. QED BY <1>1 DEF DropsApart

\* So it is when requests do not overlap.
THEOREM NothingOutlivesCorrect ==
  ASSUME Serial
  PROVE  Spec => []NothingOutlivesItsVersion
<1>1. Spec => []SoleRequest
  BY SoleRequestCorrect
<1>2. SoleRequest => DropsApart
  BY SoleDeletion
<1>3. QED BY <1>1, <1>2, NothingOutlivesApart, PTL
=============================================================================
