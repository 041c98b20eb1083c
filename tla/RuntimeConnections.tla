-------------------------- MODULE RuntimeConnections --------------------------
(***************************************************************************)
(* Runtime database connections of a tenant: create, update, delete, test, *)
(* synchronise the schema metadata, grant table permissions, run a query.  *)
(* Requests share the platform's PostgreSQL only; every test, discovery    *)
(* and query works on the copy of the connection row its session loaded,   *)
(* across awaits on a remote database during which others may commit.      *)
(*                                                                         *)
(* As in DocumentPipeline a commit writes the attributes that differ from  *)
(* the loaded ones.  No service of this component catches SQLAlchemyError. *)
(***************************************************************************)
EXTENDS Naturals, FiniteSets

CONSTANTS
    Requests,           \* HTTP requests, each served once
    Conns,              \* the UUIDs that a new connection may get
    Users, Admins,      \* callers; those whose role is tenant administrator
    Tenants, TenantOf,  \* the tenant of a user
    Names,              \* connection names, stripped
    Params, Complete,   \* connection parameters; those that are complete
    Kinds, Postgres,    \* database types; the one that is supported
    MaxFaults,          \* bound: requests hit by a database fault or a crash
    NoConn, NoUser, NoRequest, NoOwner, NoRow

ASSUME ConstantsAssumption ==
    /\ Admins \subseteq Users
    /\ TenantOf \in [Users -> Tenants]
    /\ Complete \subseteq Params
    /\ Postgres \in Kinds
    /\ MaxFaults \in Nat
    /\ NoConn \notin Conns
    /\ NoRequest \notin Requests

VARIABLES
    conns,     \* database_connections: the committed rows
    owner,     \* database_connections: tenant_id and database_type
    row,       \* database_connections: the columns that change
    meta,      \* database_schemas, _tables, _columns cached for a connection
    perms,     \* table_permissions on the cached tables: their subjects
    pc,        \* where each handler is
    subject,   \* the user a grant or a query is about
    conn,      \* the connection a request works on
    loaded,    \* the row as the handler's session last loaded it
    change,    \* the row with the values the handler has assigned
    seen,      \* the generation of metadata the handler has looked at
    resp,      \* the HTTP status answered; 0: none
    faulted,   \* history: requests that met a database fault or a crash
    verified,  \* history: parameters a test of the connection has proved good
    overlapped \* history: connections two requests have worked on at once

database == <<conns, owner, row, meta, perms>>
history == <<faulted, verified, overlapped>>
memory == <<subject, conn, loaded, change, seen>>
vars == <<conns, owner, row, meta, perms, pc, subject, conn, loaded, change,
          seen, resp, faulted, verified, overlapped>>

-----------------------------------------------------------------------------
(* Rows.                                                                   *)

NullableRequest == Requests \cup {NoRequest}

\* tested stands for last_tested_at: the test request that stamped it.
ConnectionRow ==
    [name : Names, params : Params, active : BOOLEAN,
     status : {"pending", "connected", "failed"},
     tested : NullableRequest,
     sync : {"pending", "processing", "completed", "failed"}]

ConnectionOwner == [tenant : Tenants, kind : Kinds]

\* The metadata of a connection is replaced as a whole: gen is the sync that
\* wrote it (NoRequest: none is cached), params where it was discovered.
Metadata == [gen : NullableRequest, params : Params \cup {NoRow}]
NoMetadata == [gen |-> NoRequest, params |-> NoRow]

\* Mutant: a status the schema does not know.
NewRowMistyped(name, params) ==
    [name |-> name, params |-> params, active |-> TRUE, status |-> "untested",
     tested |-> NoRequest, sync |-> "pending"]

NewRow(name, params) ==
    [name |-> name, params |-> params, active |-> TRUE, status |-> "pending",
     tested |-> NoRequest, sync |-> "pending"]

\* A commit leaves out the columns whose value equals the loaded one.
Flushed(now, old, new) ==
    [f \in DOMAIN now |-> IF new[f] = old[f] THEN now[f] ELSE new[f]]

SaveLabels == {"saveUpdate", "saveTest", "saveUnsupported", "markSync",
               "markSyncFailed", "markSynced"}
RefreshLabels == {"createRefresh", "updateRefresh", "testRefresh",
                  "unsupportedRefresh", "syncRefresh", "syncFailedRefresh",
                  "syncedRefresh"}
WorkingLabels == SaveLabels \cup RefreshLabels \cup
                 {"insert", "delete", "probe", "discover", "clear", "cache",
                  "grant", "grantRefresh", "plan", "execute"}
Labels == WorkingLabels \cup {"idle", "done"}

TypeOK ==
    /\ conns \in SUBSET Conns
    /\ owner \in [Conns -> ConnectionOwner \cup {NoOwner}]
    /\ row \in [Conns -> ConnectionRow \cup {NoRow}]
    /\ meta \in [Conns -> Metadata]
    /\ perms \in [Conns -> SUBSET Users]
    /\ pc \in [Requests -> Labels]
    /\ subject \in [Requests -> Users \cup {NoUser}]
    /\ conn \in [Requests -> Conns \cup {NoConn}]
    /\ loaded \in [Requests -> ConnectionRow \cup {NoRow}]
    /\ change \in [Requests -> ConnectionRow \cup {NoRow}]
    /\ seen \in [Requests -> NullableRequest]
    /\ resp \in [Requests -> Nat]
    /\ faulted \in SUBSET Requests
    /\ verified \in [Conns -> SUBSET Params]
    /\ overlapped \in SUBSET Conns

Init ==
    /\ conns = {}
    /\ owner = [c \in Conns |-> NoOwner]
    /\ row = [c \in Conns |-> NoRow]
    /\ meta = [c \in Conns |-> NoMetadata]
    /\ perms = [c \in Conns |-> {}]
    /\ pc = [r \in Requests |-> "idle"]
    /\ subject = [r \in Requests |-> NoUser]
    /\ conn = [r \in Requests |-> NoConn]
    /\ loaded = [r \in Requests |-> NoRow]
    /\ change = [r \in Requests |-> NoRow]
    /\ seen = [r \in Requests |-> NoRequest]
    /\ resp = [r \in Requests |-> 0]
    /\ faulted = {}
    /\ verified = [c \in Conns |-> {}]
    /\ overlapped = {}

-----------------------------------------------------------------------------
(* Exceptions and the HTTP status the routes make of each.                 *)

ConnectionStatus(error) ==
    CASE error = "TenantAdministratorRequiredError" -> 403
      [] error = "DatabaseConnectionNotFoundError"  -> 404
      [] error = "DuplicateConnectionNameError"     -> 409
      [] error = "IntegrityError"                   -> 409
      [] error = "UnsupportedDatabaseTypeError"     -> 501
      [] OTHER                                      -> 500

SyncStatus(error) ==
    CASE error = "TenantAdministratorRequiredError" -> 403
      [] error = "DatabaseConnectionNotFoundError"  -> 404
      [] error = "SchemaDiscoveryError"             -> 502
      [] OTHER                                      -> 500

PermissionStatus(error) ==
    CASE error = "TenantAdministratorRequiredError" -> 403
      [] error = "DatabaseConnectionNotFoundError"  -> 404
      [] error = "PermissionResourceNotFoundError"  -> 404
      [] error = "DuplicateTablePermissionError"    -> 409
      [] error = "IntegrityError"                   -> 409
      [] OTHER                                      -> 500

QueryStatus(error) ==
    CASE error = "DatabaseConnectionNotFoundError" -> 404
      [] error = "QuerySecurityError"              -> 403
      [] error = "QueryExecutionError"             -> 502
      [] error = "ValueError"                      -> 409
      [] OTHER                                     -> 500

-----------------------------------------------------------------------------
(* Steps shared by the handlers.                                           *)

Goto(r, label) == pc' = [pc EXCEPT ![r] = label]

Answer(r, status) ==
    /\ pc' = [pc EXCEPT ![r] = "done"]
    /\ resp' = [resp EXCEPT ![r] = status]

\* The request is over and its session is closed.
Close(r) ==
    /\ subject' = [subject EXCEPT ![r] = NoUser]
    /\ loaded' = [loaded EXCEPT ![r] = NoRow]
    /\ change' = [change EXCEPT ![r] = NoRow]
    /\ seen' = [seen EXCEPT ![r] = NoRequest]
    /\ UNCHANGED conn

\* Answer without a further change of the database.
Refuse(r, status) ==
    /\ Answer(r, status)
    /\ Close(r)
    /\ UNCHANGED <<database, history>>

Working(r) == pc[r] \in WorkingLabels
Busy(c) == \E q \in Requests : conn[q] = c /\ Working(q)

RequireTenantAdministrator(u) == u \in Admins

GetDatabaseConnection(u, c) ==
    /\ c \in conns
    /\ owner[c].tenant = TenantOf[u]

\* The row of another connection of the tenant with this name.
NameTaken(tenant, name, c) ==
    \E o \in conns \ {c} : owner[o].tenant = tenant /\ row[o].name = name

\* The checks of every handler that changes a connection.
AdminChecks(u, c) ==
    IF ~RequireTenantAdministrator(u) THEN "TenantAdministratorRequiredError"
    ELSE IF ~GetDatabaseConnection(u, c) THEN "DatabaseConnectionNotFoundError"
    ELSE "ok"

\* The handler goes on with the row loaded and the values it assigns to it.
Admit(r, u, c, new, label) ==
    /\ subject' = [subject EXCEPT ![r] = u]
    /\ conn' = [conn EXCEPT ![r] = c]
    /\ loaded' = [loaded EXCEPT ![r] = row[c]]
    /\ change' = [change EXCEPT ![r] = new]
    /\ seen' = [seen EXCEPT ![r] = meta[c].gen]
    /\ overlapped' = IF Busy(c) THEN overlapped \cup {c} ELSE overlapped
    /\ Goto(r, label)
    /\ UNCHANGED <<database, resp, faulted, verified>>

\* The handler assigns values to the row it loaded.
Assign(r, new) == change' = [change EXCEPT ![r] = new]

\* save_connection, first half: the commit.  The row is still there; a name
\* that changes is free.
Save(r, next) ==
    /\ conn[r] \in conns
    /\ \/ change[r].name = loaded[r].name
       \/ ~NameTaken(owner[conn[r]].tenant, change[r].name, conn[r])
    /\ row' = [row EXCEPT ![conn[r]] = Flushed(@, loaded[r], change[r])]
    /\ Goto(r, next)
    /\ UNCHANGED <<conns, owner, meta, perms, memory, resp, history>>

\* The row was deleted meanwhile: the UPDATE matches nothing, or the refresh
\* finds nothing; either error is caught nowhere.
SaveMissing(r) ==
    /\ pc[r] \in SaveLabels \cup RefreshLabels
    /\ conn[r] \notin conns
    /\ Refuse(r, 500)

\* save_connection, second half, where the handler only has to answer.
FinalStatus(label) ==
    CASE label = "createRefresh"      -> 201
      [] label = "updateRefresh"      -> 200
      [] label = "unsupportedRefresh" -> 501
      [] label = "syncFailedRefresh"  -> 502
      [] label = "syncedRefresh"      -> 200

FinalRefresh(r) ==
    /\ pc[r] \in RefreshLabels \ {"testRefresh", "syncRefresh"}
    /\ conn[r] \in conns
    /\ Refuse(r, FinalStatus(pc[r]))

-----------------------------------------------------------------------------
(* create_database_connection.                                             *)

CreateChecks(u, name) ==
    IF ~RequireTenantAdministrator(u) THEN "TenantAdministratorRequiredError"
    ELSE IF NameTaken(TenantOf[u], name, NoConn)
         THEN "DuplicateConnectionNameError"
    ELSE "ok"

CreateRejected(r, u, name) ==
    /\ pc[r] = "idle"
    /\ CreateChecks(u, name) # "ok"
    /\ Refuse(r, ConnectionStatus(CreateChecks(u, name)))

\* The id is a new UUID.
CreateAccepted(r, u, c, name, params, kind) ==
    /\ pc[r] = "idle"
    /\ CreateChecks(u, name) = "ok"
    /\ \A q \in Requests : conn[q] # c
    /\ conn' = [conn EXCEPT ![r] = c]
    /\ owner' = [owner EXCEPT ![c] = [tenant |-> TenantOf[u], kind |-> kind]]
    /\ Assign(r, NewRow(name, params))
    /\ Goto(r, "insert")
    /\ UNCHANGED <<conns, row, meta, perms, subject, loaded, seen, resp,
                   history>>

\* Mutant: no unique constraint behind the look-up.
InsertUnchecked(r) ==
    /\ pc[r] = "insert"
    /\ conns' = conns \cup {conn[r]}
    /\ row' = [row EXCEPT ![conn[r]] = change[r]]
    /\ Goto(r, "createRefresh")
    /\ UNCHANGED <<owner, meta, perms, memory, resp, history>>

InsertConnection(r) ==
    /\ pc[r] = "insert"
    /\ ~NameTaken(owner[conn[r]].tenant, change[r].name, conn[r])
    /\ conns' = conns \cup {conn[r]}
    /\ row' = [row EXCEPT ![conn[r]] = change[r]]
    /\ Goto(r, "createRefresh")
    /\ UNCHANGED <<owner, meta, perms, memory, resp, history>>

\* uq_database_connections_tenant_name.
InsertConflict(r) ==
    /\ pc[r] = "insert"
    /\ NameTaken(owner[conn[r]].tenant, change[r].name, conn[r])
    /\ Refuse(r, ConnectionStatus("IntegrityError"))

-----------------------------------------------------------------------------
(* update_database_connection.  A field the request does not set keeps the *)
(* loaded value.  Test and synchronisation results are always reset.       *)

UpdateChecks(u, c, name) ==
    IF AdminChecks(u, c) # "ok" THEN AdminChecks(u, c)
    ELSE IF NameTaken(TenantOf[u], name, c) THEN "DuplicateConnectionNameError"
    ELSE "ok"

UpdateRejected(r, u, c, name) ==
    /\ pc[r] = "idle"
    /\ UpdateChecks(u, c, name) # "ok"
    /\ Refuse(r, ConnectionStatus(UpdateChecks(u, c, name)))

\* Mutants: the test result, or the state of the synchronisation, survives.
UpdatedRowKeepsStatus(c, name, params, active) ==
    [row[c] EXCEPT !.name = name, !.params = params, !.active = active,
                   !.sync = "pending"]

UpdatedRowKeepsSync(c, name, params, active) ==
    [row[c] EXCEPT !.name = name, !.params = params, !.active = active,
                   !.status = "pending", !.tested = NoRequest]

UpdatedRow(c, name, params, active) ==
    [row[c] EXCEPT !.name = name, !.params = params, !.active = active,
                   !.status = "pending", !.tested = NoRequest,
                   !.sync = "pending"]

UpdateAccepted(r, u, c, name, params, active) ==
    /\ pc[r] = "idle"
    /\ UpdateChecks(u, c, name) = "ok"
    /\ Admit(r, u, c, UpdatedRow(c, name, params, active), "saveUpdate")

SaveUpdate(r) ==
    /\ pc[r] = "saveUpdate"
    /\ Save(r, "updateRefresh")

SaveUpdateConflict(r) ==
    /\ pc[r] = "saveUpdate"
    /\ conn[r] \in conns
    /\ change[r].name # loaded[r].name
    /\ NameTaken(owner[conn[r]].tenant, change[r].name, conn[r])
    /\ Refuse(r, ConnectionStatus("IntegrityError"))

-----------------------------------------------------------------------------
(* remove_database_connection, with what the foreign keys cascade to.  A   *)
(* DELETE that matches no row any more is only a warning.                  *)

DeleteAccepted(r, u, c) ==
    /\ pc[r] = "idle"
    /\ AdminChecks(u, c) = "ok"
    /\ Admit(r, u, c, row[c], "delete")

DeleteConnection(r) ==
    /\ pc[r] = "delete"
    /\ conns' = conns \ {conn[r]}
    /\ row' = [row EXCEPT ![conn[r]] = NoRow]
    /\ meta' = [meta EXCEPT ![conn[r]] = NoMetadata]
    /\ perms' = [perms EXCEPT ![conn[r]] = {}]
    /\ Answer(r, 204)
    /\ Close(r)
    /\ UNCHANGED <<owner, history>>

-----------------------------------------------------------------------------
(* test_stored_database_connection.                                        *)

\* Refusals of delete, test and sync are the same.
AdminRejected(r, u, c) ==
    /\ pc[r] = "idle"
    /\ AdminChecks(u, c) # "ok"
    /\ Refuse(r, ConnectionStatus(AdminChecks(u, c)))

TestAccepted(r, u, c) ==
    /\ pc[r] = "idle"
    /\ AdminChecks(u, c) = "ok"
    /\ Admit(r, u, c, row[c], "probe")

\* UnsupportedDatabaseTypeError: the result is stored and the error raised.
ProbeUnsupported(r) ==
    /\ pc[r] = "probe"
    /\ owner[conn[r]].kind # Postgres
    /\ Assign(r, [loaded[r] EXCEPT !.status = "failed", !.tested = r])
    /\ Goto(r, "saveUnsupported")
    /\ UNCHANGED <<database, subject, conn, loaded, seen, resp, history>>

\* build_postgresql_parameters raises ValueError before the tester's try.
ProbeIncomplete(r) ==
    /\ pc[r] = "probe"
    /\ owner[conn[r]].kind = Postgres
    /\ loaded[r].params \notin Complete
    /\ Refuse(r, ConnectionStatus("ValueError"))

\* The remote database answers SELECT 1 in time, or it does not.
Probe(r) ==
    /\ pc[r] = "probe"
    /\ owner[conn[r]].kind = Postgres
    /\ loaded[r].params \in Complete
    /\ \/ /\ Assign(r, [loaded[r] EXCEPT !.status = "connected", !.tested = r])
          /\ verified' = [verified EXCEPT ![conn[r]] = @ \cup {loaded[r].params}]
       \/ /\ Assign(r, [loaded[r] EXCEPT !.status = "failed", !.tested = r])
          /\ UNCHANGED verified
    /\ Goto(r, "saveTest")
    /\ UNCHANGED <<database, subject, conn, loaded, seen, resp, faulted,
                   overlapped>>

SaveTest(r) ==
    \/ pc[r] = "saveTest" /\ Save(r, "testRefresh")
    \/ pc[r] = "saveUnsupported" /\ Save(r, "unsupportedRefresh")

\* The route answers 500 when the refreshed row has no last_tested_at.
TestRefresh(r) ==
    /\ pc[r] = "testRefresh"
    /\ conn[r] \in conns
    /\ Refuse(r, IF row[conn[r]].tested = NoRequest THEN 500 ELSE 200)

-----------------------------------------------------------------------------
(* synchronize_database_schema.                                            *)

SyncAccepted(r, u, c) ==
    /\ pc[r] = "idle"
    /\ AdminChecks(u, c) = "ok"
    /\ Admit(r, u, c, [row[c] EXCEPT !.sync = "processing"], "markSync")

MarkSync(r) ==
    /\ pc[r] = "markSync"
    /\ Save(r, "syncRefresh")

SyncRefresh(r) ==
    /\ pc[r] = "syncRefresh"
    /\ conn[r] \in conns
    /\ loaded' = [loaded EXCEPT ![r] = row[conn[r]]]
    /\ Goto(r, "discover")
    /\ UNCHANGED <<database, subject, conn, change, seen, resp, history>>

Discover(r) ==
    /\ pc[r] = "discover"
    /\ owner[conn[r]].kind = Postgres
    /\ loaded[r].params \in Complete
    /\ Goto(r, "clear")
    /\ UNCHANGED <<database, memory, resp, history>>

\* ValueError of build_postgresql_parameters: no except clause takes it, and
\* the row stays "processing".
DiscoverIncomplete(r) ==
    /\ pc[r] = "discover"
    /\ owner[conn[r]].kind = Postgres
    /\ loaded[r].params \notin Complete
    /\ Refuse(r, SyncStatus("ValueError"))

\* Mutant: the error is reported without storing "failed".
DiscoverFailsUnmarked(r) ==
    /\ pc[r] = "discover"
    /\ owner[conn[r]].kind = Postgres => loaded[r].params \in Complete
    /\ Refuse(r, SyncStatus("SchemaDiscoveryError"))

\* SchemaDiscoveryError: unsupported type, timeout, or the source fails.
DiscoverFails(r) ==
    /\ pc[r] = "discover"
    /\ owner[conn[r]].kind = Postgres => loaded[r].params \in Complete
    /\ Assign(r, [loaded[r] EXCEPT !.sync = "failed"])
    /\ Goto(r, "markSyncFailed")
    /\ UNCHANGED <<database, subject, conn, loaded, seen, resp, history>>

\* clear_connection_metadata deletes what is committed at this moment.
ClearMetadata(r) ==
    /\ pc[r] = "clear"
    /\ seen' = [seen EXCEPT ![r] = meta[conn[r]].gen]
    /\ Goto(r, "cache")
    /\ UNCHANGED <<database, subject, conn, loaded, change, resp, history>>

\* Mutant: no foreign key ties the metadata to its connection.
CacheUnchecked(r) ==
    /\ pc[r] = "cache"
    /\ meta[conn[r]].gen = seen[r]
    /\ meta' = [meta EXCEPT ![conn[r]] = [gen |-> r,
                                          params |-> loaded[r].params]]
    /\ perms' = [perms EXCEPT ![conn[r]] = {}]
    /\ Assign(r, [loaded[r] EXCEPT !.sync = "completed"])
    /\ Goto(r, "markSynced")
    /\ UNCHANGED <<conns, owner, row, subject, conn, loaded, seen, resp,
                   history>>

\* The rest of cache_discovered_metadata and its commit.  Deleting the tables
\* deletes the permissions on them (table_permissions.table_id, CASCADE).
CacheMetadata(r) ==
    /\ pc[r] = "cache"
    /\ conn[r] \in conns
    /\ meta[conn[r]].gen = seen[r]
    /\ meta' = [meta EXCEPT ![conn[r]] = [gen |-> r,
                                          params |-> loaded[r].params]]
    /\ perms' = [perms EXCEPT ![conn[r]] = {}]
    /\ Assign(r, [loaded[r] EXCEPT !.sync = "completed"])
    /\ Goto(r, "markSynced")
    /\ UNCHANGED <<conns, owner, row, subject, conn, loaded, seen, resp,
                   history>>

\* uq_database_schemas_connection_name, or the connection is gone: an
\* IntegrityError nobody catches.
CacheConflict(r) ==
    /\ pc[r] = "cache"
    /\ conn[r] \notin conns \/ meta[conn[r]].gen # seen[r]
    /\ Refuse(r, SyncStatus("IntegrityError"))

MarkSynced(r) ==
    \/ pc[r] = "markSynced" /\ Save(r, "syncedRefresh")
    \/ pc[r] = "markSyncFailed" /\ Save(r, "syncFailedRefresh")

-----------------------------------------------------------------------------
(* create_permission, for a user of the tenant or one of its roles, on a   *)
(* cached table.  The table's id is new with every synchronisation.        *)

\* Mutant: validate_permission_subject does not look at the tenant.
PermissionChecksAnySubject(u, c, s) ==
    IF AdminChecks(u, c) # "ok" THEN AdminChecks(u, c)
    ELSE IF meta[c].gen = NoRequest THEN "PermissionResourceNotFoundError"
    ELSE IF s \in perms[c] THEN "DuplicateTablePermissionError"
    ELSE "ok"

PermissionChecks(u, c, s) ==
    IF AdminChecks(u, c) # "ok" THEN AdminChecks(u, c)
    ELSE IF meta[c].gen = NoRequest \/ TenantOf[s] # TenantOf[u]
         THEN "PermissionResourceNotFoundError"
    ELSE IF s \in perms[c] THEN "DuplicateTablePermissionError"
    ELSE "ok"

PermissionRejected(r, u, c, s) ==
    /\ pc[r] = "idle"
    /\ PermissionChecks(u, c, s) # "ok"
    /\ Refuse(r, PermissionStatus(PermissionChecks(u, c, s)))

PermissionAccepted(r, u, c, s) ==
    /\ pc[r] = "idle"
    /\ PermissionChecks(u, c, s) = "ok"
    /\ Admit(r, s, c, row[c], "grant")

CreatePermission(r) ==
    /\ pc[r] = "grant"
    /\ meta[conn[r]].gen = seen[r]
    /\ subject[r] \notin perms[conn[r]]
    /\ perms' = [perms EXCEPT ![conn[r]] = @ \cup {subject[r]}]
    /\ Goto(r, "grantRefresh")
    /\ UNCHANGED <<conns, owner, row, meta, memory, resp, history>>

\* The table or the connection is gone, or the subject has got a permission.
CreatePermissionConflict(r) ==
    /\ pc[r] = "grant"
    /\ meta[conn[r]].gen # seen[r] \/ subject[r] \in perms[conn[r]]
    /\ Refuse(r, PermissionStatus("IntegrityError"))

\* The refresh finds nothing where the new row went with its table.
GrantRefresh(r) ==
    /\ pc[r] = "grantRefresh"
    /\ Refuse(r, IF meta[conn[r]].gen = seen[r] /\ subject[r] \in perms[conn[r]]
                 THEN 201 ELSE PermissionStatus("InvalidRequestError"))

-----------------------------------------------------------------------------
(* run_secure_query.                                                       *)

QueryChecks(u, c) ==
    IF ~GetDatabaseConnection(u, c) THEN "DatabaseConnectionNotFoundError"
    ELSE IF ~row[c].active \/ row[c].status # "connected" THEN "ValueError"
    ELSE "ok"

QueryRejected(r, u, c) ==
    /\ pc[r] = "idle"
    /\ QueryChecks(u, c) # "ok"
    /\ Refuse(r, QueryStatus(QueryChecks(u, c)))

QueryAccepted(r, u, c) ==
    /\ pc[r] = "idle"
    /\ QueryChecks(u, c) = "ok"
    /\ Admit(r, u, c, row[c], "plan")

\* build_permission_filtered_schema and prepare_validated_sql: the statement
\* is allowed only through permissions of the caller.
PlanQuery(r) ==
    /\ pc[r] = "plan"
    /\ conn[r] \in conns
    /\ subject[r] \in perms[conn[r]]
    /\ Goto(r, "execute")
    /\ UNCHANGED <<database, memory, resp, history>>

PlanRefused(r) ==
    /\ pc[r] = "plan"
    /\ \/ /\ conn[r] \notin conns
          /\ Refuse(r, QueryStatus("DatabaseConnectionNotFoundError"))
       \/ /\ conn[r] \in conns
          /\ Refuse(r, QueryStatus("QuerySecurityError"))

\* execute_secured_query runs on the parameters the session loaded.  It may
\* time out (504), meet the size limit (413) or fail (502); incomplete
\* parameters are a ValueError.
ExecuteQuery(r) ==
    /\ pc[r] = "execute"
    /\ \E status \in {200, 413, 502, 504} :
           Refuse(r, IF loaded[r].params \in Complete
                     THEN status ELSE QueryStatus("ValueError"))

-----------------------------------------------------------------------------
\* A statement or commit raises SQLAlchemyError (500), or the worker dies;
\* nothing of the open transaction is applied.
Abort(r) ==
    /\ Working(r)
    /\ Cardinality(faulted \cup {r}) <= MaxFaults
    /\ faulted' = faulted \cup {r}
    /\ \E status \in {0, 500} : Answer(r, status)
    /\ Close(r)
    /\ UNCHANGED <<database, verified, overlapped>>

ArriveNew(r) ==
    \E u \in Users, name \in Names :
        \/ CreateRejected(r, u, name)
        \/ \E c \in Conns, params \in Params, kind \in Kinds :
               CreateAccepted(r, u, c, name, params, kind)

ArriveFor(r) ==
    \E u \in Users, c \in Conns :
        \/ AdminRejected(r, u, c) \/ DeleteAccepted(r, u, c)
        \/ TestAccepted(r, u, c) \/ SyncAccepted(r, u, c)
        \/ QueryRejected(r, u, c) \/ QueryAccepted(r, u, c)
        \/ \E s \in Users : \/ PermissionRejected(r, u, c, s)
                            \/ PermissionAccepted(r, u, c, s)
        \/ \E name \in Names :
               \/ UpdateRejected(r, u, c, name)
               \/ \E params \in Params, active \in BOOLEAN :
                      UpdateAccepted(r, u, c, name, params, active)

Serve(r) ==
    \/ InsertConnection(r) \/ InsertConflict(r)
    \/ SaveUpdate(r) \/ SaveUpdateConflict(r) \/ DeleteConnection(r)
    \/ ProbeUnsupported(r) \/ ProbeIncomplete(r) \/ Probe(r) \/ SaveTest(r)
    \/ TestRefresh(r) \/ MarkSync(r) \/ SyncRefresh(r) \/ Discover(r)
    \/ DiscoverIncomplete(r) \/ DiscoverFails(r) \/ ClearMetadata(r)
    \/ CacheMetadata(r) \/ CacheConflict(r) \/ MarkSynced(r)
    \/ CreatePermission(r) \/ CreatePermissionConflict(r) \/ GrantRefresh(r)
    \/ PlanQuery(r) \/ PlanRefused(r) \/ ExecuteQuery(r)
    \/ SaveMissing(r) \/ FinalRefresh(r)

Terminated ==
    /\ \A r \in Requests : pc[r] = "done"
    /\ UNCHANGED vars

Next ==
    \/ \E r \in Requests :
           ArriveNew(r) \/ ArriveFor(r) \/ Serve(r) \/ Abort(r)
    \/ Terminated

Spec == Init /\ [][Next]_vars

-----------------------------------------------------------------------------
(* Properties.                                                             *)

\* A synchronisation that is shown as running has a handler at work, or has
\* ended in a server error, a crash or a database fault: schema_sync_status
\* "processing" is never left behind by a sync that answered anything else,
\* although concurrent syncs and updates overwrite each other's status and
\* a session writes only what differs from the value it loaded.
RunningSyncIsAttended ==
    \A c \in conns :
        row[c].sync = "processing" =>
            \E r \in Requests :
                /\ conn[r] = c
                /\ Working(r) \/ r \in faulted \/ resp[r] = 500

\* Two connections of a tenant never carry one name, although both create
\* and update look the name up in a transaction before the one that writes.
NamesAreUnique ==
    \A c, d \in conns :
        owner[c].tenant = owner[d].tenant /\ row[c].name = row[d].name
            => c = d

\* Metadata and permissions live and die with the connection, and permissions
\* with the metadata: a sync or a grant that overtakes, or is overtaken by, a
\* delete or another sync leaves nothing that refers to rows that are gone.
NoDanglingMetadata ==
    \A c \in Conns :
        /\ meta[c].gen # NoRequest => c \in conns
        /\ perms[c] # {} => meta[c].gen # NoRequest

\* A permission on a connection's tables is only ever held by a subject of the
\* tenant that owns the connection.
SubjectsBelongToTenant ==
    \A c \in conns : \A s \in perms[c] : TenantOf[s] = owner[c].tenant

\* "connected" speaks of the parameters in the row as long as requests on the
\* connection have not overlapped: those parameters passed a test.
ConnectedMeansTested ==
    \A c \in conns \ overlapped :
        row[c].status = "connected" =>
            row[c].params \in verified[c] /\ owner[c].kind = Postgres

\* "completed" speaks of the current parameters as long as requests on the
\* connection have not overlapped: the metadata was discovered with them, by
\* the latest sync.
SyncedMeansCurrent ==
    \A c \in conns \ overlapped :
        row[c].sync = "completed" => meta[c].params = row[c].params

\* What run_secure_query says of itself: "The selected database connection
\* must be tested successfully before query execution."  The parameters of a
\* query that gets past this check have passed a test.
QueryTargetWasTested ==
    \A r \in Requests :
        pc[r] \in {"plan", "execute"} =>
            loaded[r].params \in verified[conn[r]]

\* What the README's "Idempotent metadata synchronization" says: to
\* synchronise once more from the same source changes no permission.
ResyncKeepsPermissions ==
    [][\A c \in Conns :
           (meta[c].gen # NoRequest /\ meta'[c].params = meta[c].params)
               => perms[c] \subseteq perms'[c]]_vars
=============================================================================
