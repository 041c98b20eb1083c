----------------------- MODULE RuntimeConnectionsProofs -----------------------
(***************************************************************************)
(* The runtime connections of a tenant, for any number of requests, users, *)
(* tenants, connections and faults.                                        *)
(*                                                                         *)
(* A handler works on a copy of the row across awaits.  What its commit    *)
(* writes depends on how the copy was changed (ChangeAt), and what it      *)
(* overwrites on whether another handler worked on the connection since    *)
(* the copy was taken (SoleInv).                                           *)
(***************************************************************************)
EXTENDS RuntimeConnections, TLAPS

USE DEF database, memory, history

-----------------------------------------------------------------------------
(* The parts of the inductive invariant.                                   *)

\* A committed row is complete, and some request knows its id: a new
\* connection never takes it.
RowsInv ==
    \A c \in conns :
        /\ row[c] \in ConnectionRow /\ owner[c] \in ConnectionOwner
        /\ \E q \in Requests : conn[q] = c

\* What a handler holds at each of its steps.
HandlerAt(r) ==
    /\ pc[r] = "idle" => conn[r] = NoConn
    /\ pc[r] # "done" => resp[r] = 0
    /\ Working(r) => /\ conn[r] \in Conns /\ change[r] \in ConnectionRow
                     /\ owner[conn[r]] \in ConnectionOwner
    /\ Working(r) /\ pc[r] \notin {"insert", "createRefresh"} =>
           loaded[r] \in ConnectionRow
    /\ pc[r] = "insert" =>
           /\ conn[r] \notin conns
           /\ change[r].status = "pending" /\ change[r].sync = "pending"
           /\ \A q \in Requests : conn[q] = conn[r] => q = r
    /\ pc[r] = "grant" => /\ seen[r] # NoRequest /\ subject[r] \in Users
                          /\ TenantOf[subject[r]] = owner[conn[r]].tenant

\* What a handler has assigned to the row it loaded.
ChangeAt(r) ==
    /\ pc[r] = "saveUpdate" =>
           change[r].status = "pending" /\ change[r].sync = "pending"
    /\ pc[r] \in {"saveTest", "saveUnsupported"} =>
           /\ change[r].params = loaded[r].params
           /\ change[r].sync = loaded[r].sync
           /\ change[r].status = "connected" =>
                  /\ loaded[r].params \in verified[conn[r]]
                  /\ owner[conn[r]].kind = Postgres
    /\ pc[r] \in {"markSync", "markSynced", "markSyncFailed"} =>
           /\ change[r].params = loaded[r].params
           /\ change[r].status = loaded[r].status
    /\ pc[r] = "markSync" => change[r].sync = "processing"
    /\ pc[r] = "markSynced" => change[r].sync = "completed"
    /\ pc[r] = "markSyncFailed" => change[r].sync = "failed"

\* As long as requests on a connection have not overlapped, one at most is at
\* work on it, and its copy is the row until it commits.
Sole(r) == Working(r) /\ conn[r] \notin overlapped

SoleInv ==
    /\ \A r, q \in Requests :
           Sole(r) /\ Working(q) /\ conn[q] = conn[r] => q = r
    /\ \A r \in Requests :
           Sole(r) /\ pc[r] \notin RefreshLabels \cup {"insert"} =>
               conn[r] \in conns /\ loaded[r] = row[conn[r]]
    /\ \A r \in Requests :
           Sole(r) /\ pc[r] = "markSynced" =>
               meta[conn[r]].params = loaded[r].params

\* Who is to clear "processing": a sync that has still to load the row, or
\* that loaded it as "processing" and therefore writes the end of it.
Attends(r) ==
    \/ pc[r] = "syncRefresh"
    \/ /\ pc[r] \in {"discover", "clear", "cache", "markSynced",
                     "markSyncFailed"}
       /\ loaded[r].sync = "processing"
    \/ r \in faulted \/ resp[r] = 500

AttendedInv ==
    \A c \in conns :
        row[c].sync = "processing" =>
            \E r \in Requests : conn[r] = c /\ Attends(r)

ConnInv ==
    /\ TypeOK /\ RowsInv
    /\ \A r \in Requests : HandlerAt(r) /\ ChangeAt(r)
    /\ NamesAreUnique /\ NoDanglingMetadata /\ SubjectsBelongToTenant
    /\ AttendedInv
    /\ SoleInv /\ ConnectedMeansTested /\ SyncedMeansCurrent

-----------------------------------------------------------------------------
(* What a commit writes.                                                   *)

\* An UPDATE leaves each column as it is or gives it the value assigned; a
\* session whose copy was current writes the copy as it changed it.
LEMMA FlushedRow ==
    ASSUME NEW now \in ConnectionRow, NEW old \in ConnectionRow,
           NEW new \in ConnectionRow
    PROVE  /\ Flushed(now, old, new) \in ConnectionRow
           /\ Flushed(now, old, new).name =
                  IF new.name = old.name THEN now.name ELSE new.name
           /\ Flushed(now, old, new).sync =
                  IF new.sync = old.sync THEN now.sync ELSE new.sync
           /\ now = old => Flushed(now, old, new) = new
BY DEF Flushed, ConnectionRow

-----------------------------------------------------------------------------
(* The kinds of steps.                                                     *)

SyncLabels == {"syncRefresh", "discover", "clear", "cache", "markSynced",
               "markSyncFailed"}

\* The request is answered and changes nothing; once a sync has marked the
\* row this is always a server error.
Refuses(r) ==
    /\ pc[r] # "done"
    /\ \E status \in Nat :
           Refuse(r, status) /\ (pc[r] \in SyncLabels => status = 500)

\* The request loads the row of a connection and begins its work on it.
Admits(r) ==
    /\ pc[r] = "idle"
    /\ \E u \in Users, c \in conns, new \in ConnectionRow,
          label \in WorkingLabels :
           /\ Admit(r, u, c, new, label)
           /\ \/ /\ label = "saveUpdate"
                 /\ new.status = "pending" /\ new.sync = "pending"
              \/ /\ label = "markSync" /\ new.sync = "processing"
                 /\ new.params = row[c].params /\ new.status = row[c].status
              \/ /\ label = "grant" /\ meta[c].gen # NoRequest
                 /\ TenantOf[u] = owner[c].tenant
              \/ label \in {"delete", "probe", "plan"}

Creates(r) ==
    /\ pc[r] = "idle"
    /\ \E c \in Conns, of \in ConnectionOwner, new \in ConnectionRow :
           /\ \A q \in Requests : conn[q] # c
           /\ new.status = "pending" /\ new.sync = "pending"
           /\ conn' = [conn EXCEPT ![r] = c]
           /\ owner' = [owner EXCEPT ![c] = of]
           /\ Assign(r, new)
           /\ Goto(r, "insert")
           /\ UNCHANGED <<conns, row, meta, perms, subject, loaded, seen, resp,
                          history>>

Saves(r) ==
    \/ pc[r] = "saveUpdate" /\ Save(r, "updateRefresh")
    \/ pc[r] = "saveTest" /\ Save(r, "testRefresh")
    \/ pc[r] = "saveUnsupported" /\ Save(r, "unsupportedRefresh")
    \/ pc[r] = "markSync" /\ Save(r, "syncRefresh")
    \/ pc[r] = "markSynced" /\ Save(r, "syncedRefresh")
    \/ pc[r] = "markSyncFailed" /\ Save(r, "syncFailedRefresh")

\* The handler reads, or waits for a remote database.
Reads(r) ==
    \/ ProbeUnsupported(r) \/ Probe(r) \/ SyncRefresh(r) \/ Discover(r)
    \/ DiscoverFails(r) \/ ClearMetadata(r) \/ PlanQuery(r)

Writes(r) ==
    \/ Saves(r) \/ InsertConnection(r) \/ DeleteConnection(r)
    \/ CacheMetadata(r) \/ CreatePermission(r)

Step(r) ==
    Refuses(r) \/ Admits(r) \/ Creates(r) \/ Reads(r) \/ Writes(r) \/ Abort(r)

\* What Admit needs of the checks of each handler.
LEMMA Checks ==
    ASSUME NEW u \in Users, NEW c \in Conns, AdminChecks(u, c) = "ok"
    PROVE  c \in conns /\ owner[c].tenant = TenantOf[u]
BY DEF AdminChecks, GetDatabaseConnection

\* A request that arrives is refused, loads a row, or draws a new id.
LEMMA ArrivalSteps ==
    ASSUME TypeOK, RowsInv, NEW r \in Requests, ArriveNew(r) \/ ArriveFor(r)
    PROVE  Refuses(r) \/ Admits(r) \/ Creates(r)
<1> USE DEF RowsInv
<1>1. ASSUME pc[r] = "idle", NEW status \in Nat, Refuse(r, status)
      PROVE  Refuses(r)
  BY <1>1 DEF Refuses, SyncLabels
<1>2. /\ \A e : ConnectionStatus(e) \in Nat /\ QueryStatus(e) \in Nat
      /\ \A e : PermissionStatus(e) \in Nat
  BY DEF ConnectionStatus, QueryStatus, PermissionStatus
<1>3. CASE ArriveNew(r)
  <2>1. PICK u \in Users, name \in Names :
            \/ CreateRejected(r, u, name)
            \/ \E c \in Conns, params \in Params, kind \in Kinds :
                   CreateAccepted(r, u, c, name, params, kind)
    BY <1>3 DEF ArriveNew
  <2>2. CASE CreateRejected(r, u, name)
    BY <1>1, <1>2, <2>2 DEF CreateRejected
  <2>3. ASSUME NEW c \in Conns, NEW params \in Params, NEW kind \in Kinds,
               CreateAccepted(r, u, c, name, params, kind)
        PROVE  Creates(r)
    <3>1. /\ NewRow(name, params) \in ConnectionRow
          /\ NewRow(name, params).status = "pending"
          /\ NewRow(name, params).sync = "pending"
      BY DEF NewRow, ConnectionRow, NullableRequest
    <3>2. [tenant |-> TenantOf[u], kind |-> kind] \in ConnectionOwner
      BY ConstantsAssumption DEF ConnectionOwner
    <3> QED
      BY <2>3, <3>1, <3>2 DEF CreateAccepted, Creates
  <2> QED
    BY <2>1, <2>2, <2>3
<1>4. CASE ArriveFor(r)
  <2>1. PICK u \in Users, c \in Conns :
            \/ AdminRejected(r, u, c) \/ DeleteAccepted(r, u, c)
            \/ TestAccepted(r, u, c) \/ SyncAccepted(r, u, c)
            \/ QueryRejected(r, u, c) \/ QueryAccepted(r, u, c)
            \/ \E s \in Users : \/ PermissionRejected(r, u, c, s)
                                \/ PermissionAccepted(r, u, c, s)
            \/ \E name \in Names :
                   \/ UpdateRejected(r, u, c, name)
                   \/ \E params \in Params, active \in BOOLEAN :
                          UpdateAccepted(r, u, c, name, params, active)
    BY <1>4 DEF ArriveFor
  <2>2. CASE AdminRejected(r, u, c) \/ QueryRejected(r, u, c)
    BY <1>1, <1>2, <2>2 DEF AdminRejected, QueryRejected
  <2>3. ASSUME NEW s \in Users, PermissionRejected(r, u, c, s)
        PROVE  Refuses(r)
    BY <1>1, <1>2, <2>3 DEF PermissionRejected
  <2>4. ASSUME NEW name \in Names, UpdateRejected(r, u, c, name)
        PROVE  Refuses(r)
    BY <1>1, <1>2, <2>4 DEF UpdateRejected
  <2>5. CASE DeleteAccepted(r, u, c) \/ TestAccepted(r, u, c)
    <3>1. /\ c \in conns /\ row[c] \in ConnectionRow /\ pc[r] = "idle"
          /\ \E label \in {"delete", "probe"} : Admit(r, u, c, row[c], label)
      BY <2>5, Checks DEF DeleteAccepted, TestAccepted
    <3> QED
      BY <3>1 DEF Admits, WorkingLabels
  <2>6. CASE QueryAccepted(r, u, c)
    <3>1. /\ c \in conns /\ row[c] \in ConnectionRow /\ pc[r] = "idle"
          /\ Admit(r, u, c, row[c], "plan")
      BY <2>6 DEF QueryAccepted, QueryChecks, GetDatabaseConnection
    <3> QED
      BY <3>1 DEF Admits, WorkingLabels
  <2>7. CASE SyncAccepted(r, u, c)
    <3> DEFINE new == [row[c] EXCEPT !.sync = "processing"]
    <3>1. /\ c \in conns /\ row[c] \in ConnectionRow /\ pc[r] = "idle"
          /\ Admit(r, u, c, new, "markSync")
      BY <2>7, Checks DEF SyncAccepted
    <3>2. /\ new \in ConnectionRow /\ new.sync = "processing"
          /\ new.params = row[c].params /\ new.status = row[c].status
      BY <3>1 DEF ConnectionRow
    <3> HIDE DEF new
    <3> QED
      BY <3>1, <3>2 DEF Admits, WorkingLabels, SaveLabels
  <2>8. ASSUME NEW s \in Users, PermissionAccepted(r, u, c, s) PROVE Admits(r)
    <3>1. /\ AdminChecks(u, c) = "ok" /\ meta[c].gen # NoRequest
          /\ TenantOf[s] = TenantOf[u]
          /\ pc[r] = "idle" /\ Admit(r, s, c, row[c], "grant")
      BY <2>8 DEF PermissionAccepted, PermissionChecks
    <3>2. /\ c \in conns /\ row[c] \in ConnectionRow
          /\ TenantOf[s] = owner[c].tenant
      BY <3>1, Checks
    <3> QED
      BY <3>1, <3>2 DEF Admits, WorkingLabels
  <2>9. ASSUME NEW name \in Names, NEW params \in Params,
               NEW active \in BOOLEAN,
               UpdateAccepted(r, u, c, name, params, active)
        PROVE  Admits(r)
    <3> DEFINE new == UpdatedRow(c, name, params, active)
    <3>1. /\ c \in conns /\ row[c] \in ConnectionRow /\ pc[r] = "idle"
          /\ Admit(r, u, c, new, "saveUpdate")
      BY <2>9, Checks DEF UpdateAccepted, UpdateChecks
    <3>2. /\ new \in ConnectionRow
          /\ new.status = "pending" /\ new.sync = "pending"
      BY <3>1 DEF UpdatedRow, ConnectionRow, NullableRequest
    <3> HIDE DEF new
    <3> QED
      BY <3>1, <3>2 DEF Admits, WorkingLabels, SaveLabels
  <2> QED
    BY <2>1, <2>2, <2>3, <2>4, <2>5, <2>6, <2>7, <2>8, <2>9
<1> QED
  BY <1>3, <1>4

\* A handler at work refuses, goes on without a commit, or commits.
LEMMA ServeSteps ==
    ASSUME NEW r \in Requests, Serve(r)
    PROVE  Refuses(r) \/ Reads(r) \/ Writes(r)
<1>1. ASSUME pc[r] \notin SyncLabels \cup {"done"},
             NEW status \in Nat, Refuse(r, status)
      PROVE  Refuses(r)
  BY <1>1 DEF Refuses
<1>2. ASSUME pc[r] # "done", Refuse(r, 500) PROVE Refuses(r)
  BY <1>2 DEF Refuses
<1>3. /\ \A e : ConnectionStatus(e) \in Nat /\ QueryStatus(e) \in Nat
      /\ \A e : PermissionStatus(e) \in Nat
      /\ SyncStatus("ValueError") = 500 /\ SyncStatus("IntegrityError") = 500
  BY DEF ConnectionStatus, QueryStatus, PermissionStatus, SyncStatus
<1>4. CASE \/ InsertConflict(r) \/ SaveUpdateConflict(r) \/ ProbeIncomplete(r)
           \/ TestRefresh(r) \/ CreatePermissionConflict(r) \/ PlanRefused(r)
           \/ ExecuteQuery(r) \/ GrantRefresh(r)
  <2>1. pc[r] \notin SyncLabels \cup {"done"}
    BY <1>4 DEF InsertConflict, SaveUpdateConflict, ProbeIncomplete,
                TestRefresh, CreatePermissionConflict, PlanRefused,
                ExecuteQuery, GrantRefresh, SyncLabels
  <2>2. \E status \in Nat : Refuse(r, status)
    BY <1>3, <1>4
       DEF InsertConflict, SaveUpdateConflict, ProbeIncomplete, TestRefresh,
           CreatePermissionConflict, PlanRefused, ExecuteQuery, GrantRefresh
  <2> QED
    BY <1>1, <2>1, <2>2
<1>5. CASE FinalRefresh(r)
  <2>1. /\ pc[r] \notin SyncLabels \cup {"done"}
        /\ FinalStatus(pc[r]) \in Nat /\ Refuse(r, FinalStatus(pc[r]))
    BY <1>5 DEF FinalRefresh, FinalStatus, RefreshLabels, SyncLabels
  <2> QED
    BY <1>1, <2>1
<1>6. CASE DiscoverIncomplete(r) \/ CacheConflict(r) \/ SaveMissing(r)
  BY <1>2, <1>3, <1>6 DEF DiscoverIncomplete, CacheConflict, SaveMissing,
                          SaveLabels, RefreshLabels
<1>7. CASE SaveUpdate(r) \/ SaveTest(r) \/ MarkSync(r) \/ MarkSynced(r)
  BY <1>7 DEF SaveUpdate, SaveTest, MarkSync, MarkSynced, Saves, Writes
<1> QED
  BY <1>4, <1>5, <1>6, <1>7 DEF Serve, Reads, Writes

\* Every step of the system is one of these.
LEMMA Steps ==
    ASSUME TypeOK, RowsInv, [Next]_vars
    PROVE  (\E r \in Requests : Step(r)) \/ UNCHANGED vars
BY ArrivalSteps, ServeSteps DEF Next, Terminated, Step

\* What belongs to the other requests stays as it is.
OthersUnchanged(r) ==
    \A q \in Requests \ {r} :
        /\ pc'[q] = pc[q] /\ subject'[q] = subject[q] /\ conn'[q] = conn[q]
        /\ loaded'[q] = loaded[q] /\ change'[q] = change[q]
        /\ seen'[q] = seen[q] /\ resp'[q] = resp[q]
        /\ q \in faulted' <=> q \in faulted

\* A step leaves the other requests alone, and history only grows.
LEMMA StepFrame ==
    ASSUME TypeOK, NEW r \in Requests, Step(r)
    PROVE  /\ OthersUnchanged(r)
           /\ overlapped \subseteq overlapped' /\ faulted \subseteq faulted'
           /\ \A c \in Conns : verified[c] \subseteq verified'[c]
           /\ Admits(r) \/ UNCHANGED overlapped
           /\ Creates(r) \/ UNCHANGED owner
           /\ Creates(r) \/ Admits(r) \/ UNCHANGED conn
           /\ Writes(r) \/ UNCHANGED <<conns, row, meta, perms>>
<1> USE DEF TypeOK, OthersUnchanged, Goto, Answer, Close, Assign
<1>1. CASE Refuses(r)
  BY <1>1 DEF Refuses, Refuse
<1>2. CASE Admits(r)
  <2>1. PICK u \in Users, c \in conns, new \in ConnectionRow,
             label \in WorkingLabels : Admit(r, u, c, new, label)
    BY <1>2 DEF Admits
  <2> QED
    BY <1>2, <2>1 DEF Admit
<1>3. CASE Creates(r)
  <2>1. UNCHANGED <<conns, row, meta, perms, subject, loaded, seen, resp,
                    faulted, verified, overlapped>>
    BY <1>3 DEF Creates
  <2>2. \A q \in Requests \ {r} :
            pc'[q] = pc[q] /\ conn'[q] = conn[q] /\ change'[q] = change[q]
    BY <1>3 DEF Creates
  <2> QED
    BY <1>3, <2>1, <2>2
<1>4. CASE Reads(r)
  <2>1. CASE ProbeUnsupported(r) \/ DiscoverFails(r)
    BY <1>4, <2>1 DEF ProbeUnsupported, DiscoverFails
  <2>2. CASE Probe(r)
    <3>1. PICK new : change' = [change EXCEPT ![r] = new]
      BY <2>2 DEF Probe
    <3>2. \A c \in Conns : verified[c] \subseteq verified'[c]
      BY <2>2 DEF Probe
    <3>3. /\ Goto(r, "saveTest")
          /\ UNCHANGED <<database, subject, conn, loaded, seen, resp, faulted,
                         overlapped>>
      BY <2>2 DEF Probe
    <3> QED
      BY <3>1, <3>2, <3>3
  <2>3. CASE SyncRefresh(r) \/ Discover(r)
    BY <1>4, <2>3 DEF SyncRefresh, Discover
  <2>4. CASE ClearMetadata(r) \/ PlanQuery(r)
    BY <1>4, <2>4 DEF ClearMetadata, PlanQuery
  <2> QED
    BY <1>4, <2>1, <2>2, <2>3, <2>4 DEF Reads
<1>5. CASE Writes(r)
  <2>1. CASE Saves(r)
    <3>1. PICK next : Save(r, next)
      BY <2>1 DEF Saves
    <3> QED
      BY <1>5, <3>1 DEF Save
  <2>2. CASE InsertConnection(r) \/ CacheMetadata(r)
    BY <1>5, <2>2 DEF InsertConnection, CacheMetadata
  <2>3. CASE DeleteConnection(r) \/ CreatePermission(r)
    BY <1>5, <2>3 DEF DeleteConnection, CreatePermission
  <2> QED
    BY <1>5, <2>1, <2>2, <2>3 DEF Writes
<1>6. CASE Abort(r)
  <2>1. PICK status : Answer(r, status)
    BY <1>6 DEF Abort
  <2> QED
    BY <1>6, <2>1 DEF Abort
<1> QED
  BY <1>1, <1>2, <1>3, <1>4, <1>5, <1>6 DEF Step

\* A connection that a request works on stays its own, and keeps its owner.
LEMMA Known ==
    ASSUME TypeOK, NEW r \in Requests, HandlerAt(r), Step(r),
           NEW q \in Requests, conn[q] \in Conns
    PROVE  conn'[q] = conn[q] /\ owner'[conn[q]] = owner[conn[q]]
<1>1. conn'[q] = conn[q]
  <2>1. OthersUnchanged(r) /\ (Creates(r) \/ Admits(r) \/ UNCHANGED conn)
    BY StepFrame
  <2>2. Creates(r) \/ Admits(r) => conn[r] \notin Conns
    BY ConstantsAssumption DEF Creates, Admits, HandlerAt
  <2> QED
    BY <2>1, <2>2 DEF OthersUnchanged
<1>2. owner'[conn[q]] = owner[conn[q]]
  <2>1. CASE Creates(r)
    BY <2>1 DEF Creates, TypeOK
  <2>2. CASE ~Creates(r)
    BY <2>2, StepFrame
  <2> QED
    BY <2>1, <2>2
<1> QED
  BY <1>1, <1>2

\* The commit of save_connection.
LEMMA SaveWrites ==
    ASSUME TypeOK, RowsInv, NEW r \in Requests, HandlerAt(r), Saves(r)
    PROVE  /\ conn[r] \in conns /\ conn[r] \in Conns /\ Working(r)
           /\ row[conn[r]] \in ConnectionRow /\ loaded[r] \in ConnectionRow
           /\ change[r] \in ConnectionRow
           /\ row' = [row EXCEPT ![conn[r]] =
                          Flushed(row[conn[r]], loaded[r], change[r])]
           /\ row'[conn[r]] \in ConnectionRow
           /\ row'[conn[r]].name = IF change[r].name = loaded[r].name
                                   THEN row[conn[r]].name ELSE change[r].name
           /\ row'[conn[r]].sync = IF change[r].sync = loaded[r].sync
                                   THEN row[conn[r]].sync ELSE change[r].sync
           /\ loaded[r] = row[conn[r]] => row'[conn[r]] = change[r]
           /\ \/ change[r].name = loaded[r].name
              \/ ~NameTaken(owner[conn[r]].tenant, change[r].name, conn[r])
           /\ pc[r] \in SaveLabels /\ pc'[r] \in RefreshLabels
           /\ pc'[r] = "syncRefresh" <=> pc[r] = "markSync"
           /\ UNCHANGED <<conns, owner, meta, perms, memory, resp, history>>
<1>1. PICK next \in RefreshLabels :
          /\ Save(r, next) /\ pc[r] \in SaveLabels
          /\ next = "syncRefresh" <=> pc[r] = "markSync"
  BY DEF Saves, SaveLabels, RefreshLabels
<1>2. /\ conn[r] \in conns /\ pc'[r] = next
      /\ row' = [row EXCEPT ![conn[r]] =
                     Flushed(row[conn[r]], loaded[r], change[r])]
      /\ UNCHANGED <<conns, owner, meta, perms, memory, resp, history>>
  BY <1>1 DEF Save, Goto, TypeOK
<1>3. Working(r) /\ pc[r] \notin {"insert", "createRefresh"}
  BY <1>1 DEF Working, WorkingLabels, SaveLabels
<1>4. /\ row[conn[r]] \in ConnectionRow /\ loaded[r] \in ConnectionRow
      /\ change[r] \in ConnectionRow /\ conn[r] \in Conns
  BY <1>2, <1>3 DEF RowsInv, HandlerAt
<1>5. row'[conn[r]] = Flushed(row[conn[r]], loaded[r], change[r])
  BY <1>2, <1>4 DEF TypeOK
<1>6. /\ row'[conn[r]] \in ConnectionRow
      /\ row'[conn[r]].name = IF change[r].name = loaded[r].name
                              THEN row[conn[r]].name ELSE change[r].name
      /\ row'[conn[r]].sync = IF change[r].sync = loaded[r].sync
                              THEN row[conn[r]].sync ELSE change[r].sync
      /\ loaded[r] = row[conn[r]] => row'[conn[r]] = change[r]
  BY <1>4, <1>5, FlushedRow
<1> QED
  BY <1>1, <1>2, <1>3, <1>4, <1>6 DEF Save

\* A handler that only reads keeps a legal row, and stays in its endpoint.
LEMMA ReadMoves ==
    ASSUME TypeOK, RowsInv, NEW r \in Requests, HandlerAt(r), Reads(r)
    PROVE  /\ Working(r) /\ loaded'[r] \in ConnectionRow
           /\ change'[r] \in ConnectionRow
           /\ pc'[r] \in {"saveUnsupported", "saveTest", "discover", "clear",
                          "markSyncFailed", "cache", "execute"}
           /\ pc'[r] \in SyncLabels <=> pc[r] \in SyncLabels
           /\ \/ /\ loaded'[r] = loaded[r]
                 /\ pc[r] \notin RefreshLabels \cup {"insert"}
              \/ /\ pc[r] = "syncRefresh" /\ conn[r] \in conns
                 /\ loaded'[r] = row[conn[r]]
           /\ UNCHANGED <<database, subject, conn, resp, faulted, overlapped>>
           /\ ChangeAt(r)'
<1>1. /\ pc[r] \in {"probe", "syncRefresh", "discover", "clear", "plan"}
      /\ UNCHANGED <<database, subject, conn, resp, faulted, overlapped>>
  BY DEF Reads, ProbeUnsupported, Probe, SyncRefresh, Discover, DiscoverFails,
         ClearMetadata, PlanQuery
<1>2. /\ Working(r) /\ loaded[r] \in ConnectionRow
      /\ conn[r] \in Conns /\ change[r] \in ConnectionRow
  BY <1>1 DEF HandlerAt, Working, WorkingLabels, RefreshLabels
<1>3. ASSUME NEW status \in {"pending", "connected", "failed"},
             NEW new, new = [loaded[r] EXCEPT !.status = status, !.tested = r]
      PROVE  /\ new \in ConnectionRow /\ new.status = status
             /\ new.params = loaded[r].params /\ new.sync = loaded[r].sync
  BY <1>2, <1>3 DEF ConnectionRow, NullableRequest
<1>4. ASSUME NEW new, new = [loaded[r] EXCEPT !.sync = "failed"]
      PROVE  /\ new \in ConnectionRow /\ new.sync = "failed"
             /\ new.params = loaded[r].params /\ new.status = loaded[r].status
  BY <1>2, <1>4 DEF ConnectionRow
<1> USE DEF Goto, Assign, TypeOK, SyncLabels, RefreshLabels
<1>5. CASE ProbeUnsupported(r)
  <2>1. /\ pc[r] = "probe" /\ pc'[r] = "saveUnsupported"
        /\ change'[r] = [loaded[r] EXCEPT !.status = "failed", !.tested = r]
        /\ UNCHANGED loaded
    BY <1>5 DEF ProbeUnsupported
  <2>2. /\ change'[r] \in ConnectionRow /\ change'[r].status = "failed"
        /\ change'[r].params = loaded[r].params
        /\ change'[r].sync = loaded[r].sync
    BY <1>3, <2>1
  <2>3. ChangeAt(r)'
    BY <2>1, <2>2 DEF ChangeAt
  <2> QED
    BY <1>1, <1>2, <2>1, <2>2, <2>3
<1>6. CASE Probe(r)
  <2>1. /\ pc[r] = "probe" /\ pc'[r] = "saveTest"
        /\ owner[conn[r]].kind = Postgres
        /\ UNCHANGED loaded
    BY <1>6 DEF Probe
  <2>2. PICK status \in {"connected", "failed"} :
            /\ change'[r] = [loaded[r] EXCEPT !.status = status, !.tested = r]
            /\ status = "connected" => loaded[r].params \in verified'[conn[r]]
    <3>1. \/ change'[r] = [loaded[r] EXCEPT !.status = "failed", !.tested = r]
          \/ /\ change'[r] = [loaded[r] EXCEPT !.status = "connected",
                                               !.tested = r]
             /\ loaded[r].params \in verified'[conn[r]]
      BY <1>2, <1>6 DEF Probe
    <3> QED
      BY <3>1
  <2>3. /\ change'[r] \in ConnectionRow /\ change'[r].status = status
        /\ change'[r].params = loaded[r].params
        /\ change'[r].sync = loaded[r].sync
    BY <1>3, <2>2
  <2>4. ChangeAt(r)'
    BY <1>1, <2>1, <2>2, <2>3 DEF ChangeAt
  <2> QED
    BY <1>1, <1>2, <2>1, <2>3, <2>4
<1>7. CASE SyncRefresh(r)
  <2>1. /\ pc[r] = "syncRefresh" /\ pc'[r] = "discover" /\ conn[r] \in conns
        /\ loaded'[r] = row[conn[r]] /\ UNCHANGED change
    BY <1>7 DEF SyncRefresh
  <2> QED
    BY <1>1, <1>2, <2>1 DEF RowsInv, ChangeAt
<1>8. CASE Discover(r) \/ ClearMetadata(r) \/ PlanQuery(r)
  <2>1. /\ \/ pc[r] = "discover" /\ pc'[r] = "clear"
           \/ pc[r] = "clear" /\ pc'[r] = "cache"
           \/ pc[r] = "plan" /\ pc'[r] = "execute"
        /\ UNCHANGED <<change, loaded>>
    BY <1>8 DEF Discover, ClearMetadata, PlanQuery
  <2> QED
    BY <1>1, <1>2, <2>1 DEF ChangeAt
<1>9. CASE DiscoverFails(r)
  <2>1. /\ pc[r] = "discover" /\ pc'[r] = "markSyncFailed"
        /\ change'[r] = [loaded[r] EXCEPT !.sync = "failed"]
        /\ UNCHANGED loaded
    BY <1>9 DEF DiscoverFails
  <2>2. /\ change'[r] \in ConnectionRow /\ change'[r].sync = "failed"
        /\ change'[r].params = loaded[r].params
        /\ change'[r].status = loaded[r].status
    BY <1>4, <2>1
  <2>3. ChangeAt(r)'
    BY <2>1, <2>2 DEF ChangeAt
  <2> QED
    BY <1>1, <1>2, <2>1, <2>2, <2>3
<1> QED
  BY <1>5, <1>6, <1>7, <1>8, <1>9 DEF Reads

\* The commit of cache_discovered_metadata.
LEMMA CacheWrites ==
    ASSUME TypeOK, RowsInv, NEW r \in Requests, HandlerAt(r), CacheMetadata(r)
    PROVE  /\ Working(r) /\ pc[r] = "cache" /\ pc'[r] = "markSynced"
           /\ conn[r] \in conns /\ conn[r] \in Conns
           /\ loaded[r] \in ConnectionRow /\ change'[r] \in ConnectionRow
           /\ meta' = [meta EXCEPT ![conn[r]] = [gen |-> r,
                                          params |-> loaded[r].params]]
           /\ perms' = [perms EXCEPT ![conn[r]] = {}]
           /\ UNCHANGED <<conns, owner, row, subject, conn, loaded, seen, resp,
                          history>>
           /\ ChangeAt(r)'
<1>1. /\ pc[r] = "cache" /\ pc'[r] = "markSynced" /\ conn[r] \in conns
      /\ change'[r] = [loaded[r] EXCEPT !.sync = "completed"]
      /\ meta' = [meta EXCEPT ![conn[r]] = [gen |-> r,
                                            params |-> loaded[r].params]]
      /\ perms' = [perms EXCEPT ![conn[r]] = {}]
      /\ UNCHANGED <<conns, owner, row, subject, conn, loaded, seen, resp,
                     history>>
  BY DEF CacheMetadata, Assign, Goto, TypeOK
<1>2. Working(r) /\ loaded[r] \in ConnectionRow /\ conn[r] \in Conns
  BY <1>1 DEF HandlerAt, Working, WorkingLabels
<1>3. /\ change'[r] \in ConnectionRow /\ change'[r].sync = "completed"
      /\ change'[r].params = loaded[r].params
      /\ change'[r].status = loaded[r].status
  BY <1>1, <1>2 DEF ConnectionRow
<1>4. ChangeAt(r)'
  BY <1>1, <1>3 DEF ChangeAt
<1> QED
  BY <1>1, <1>2, <1>3, <1>4

\* The steps that end a request.
LEMMA Ends ==
    ASSUME TypeOK, NEW r \in Requests,
           \/ Refuses(r) \/ Abort(r) \/ DeleteConnection(r)
    PROVE  pc[r] # "done" /\ pc'[r] = "done"
BY DEF Refuses, Refuse, Abort, Working, DeleteConnection,
       Answer, TypeOK, WorkingLabels, SaveLabels, RefreshLabels

\* The grant writes the permission; its handler goes on to the refresh.
LEMMA GrantMoves ==
    ASSUME TypeOK, NEW r \in Requests, CreatePermission(r)
    PROVE  /\ pc[r] = "grant" /\ pc'[r] = "grantRefresh"
           /\ Working(r) /\ Working(r)'
           /\ UNCHANGED <<conns, owner, row, meta, conn, loaded, change, resp,
                         overlapped>>
BY DEF CreatePermission, Goto, TypeOK, memory, history, Working, WorkingLabels

-----------------------------------------------------------------------------
(* Types, rows and handlers.                                               *)

\* Before any request there are no connections, and everything is well typed.
LEMMA TypeInit == Init => TypeOK
BY DEF Init, TypeOK, Labels, NullableRequest, Metadata, NoMetadata

\* Every step keeps the types; a commit does by FlushedRow.
LEMMA TypeStep ==
    ASSUME TypeOK, RowsInv, \A r \in Requests : HandlerAt(r), [Next]_vars
    PROVE  TypeOK'
<1> USE DEF TypeOK, Goto, Answer, Close, Assign
<1>0. /\ WorkingLabels \subseteq Labels /\ {"idle", "done"} \subseteq Labels
      /\ RefreshLabels \subseteq Labels
      /\ NoRequest \in NullableRequest /\ Requests \subseteq NullableRequest
  BY DEF Labels, WorkingLabels, NullableRequest
<1>1. ASSUME NEW r \in Requests, Refuses(r) PROVE TypeOK'
  BY <1>0, <1>1 DEF Refuses, Refuse
<1>2. ASSUME NEW r \in Requests, Admits(r) PROVE TypeOK'
  <2>1. PICK u \in Users, c \in conns, new \in ConnectionRow,
             label \in WorkingLabels : Admit(r, u, c, new, label)
    BY <1>2 DEF Admits
  <2>2. row[c] \in ConnectionRow /\ meta[c].gen \in NullableRequest
    BY DEF RowsInv, Metadata
  <2>3. overlapped' \in SUBSET Conns
    BY <2>1 DEF Admit
  <2> QED
    BY <1>0, <2>1, <2>2, <2>3 DEF Admit
<1>3. ASSUME NEW r \in Requests, Creates(r) PROVE TypeOK'
  <2>1. "insert" \in Labels
    BY DEF Labels, WorkingLabels
  <2> QED
    BY <1>3, <2>1 DEF Creates
<1>4. ASSUME NEW r \in Requests, Reads(r) PROVE TypeOK'
  <2>1. /\ loaded'[r] \in ConnectionRow /\ change'[r] \in ConnectionRow
        /\ pc'[r] \in Labels
        /\ UNCHANGED <<database, subject, conn, resp, faulted, overlapped>>
    BY <1>4, ReadMoves DEF Labels, WorkingLabels, SaveLabels
  <2>2. /\ pc' = [pc EXCEPT ![r] = pc'[r]]
        /\ change' = [change EXCEPT ![r] = change'[r]]
        /\ loaded' = [loaded EXCEPT ![r] = loaded'[r]]
    <3>1. CASE ProbeUnsupported(r) \/ DiscoverFails(r)
      BY <3>1 DEF ProbeUnsupported, DiscoverFails
    <3>2. CASE Probe(r)
      <4>1. PICK new : change' = [change EXCEPT ![r] = new]
        BY <3>2 DEF Probe
      <4> QED
        BY <3>2, <4>1 DEF Probe
    <3>3. CASE SyncRefresh(r) \/ Discover(r) \/ ClearMetadata(r) \/ PlanQuery(r)
      BY <3>3 DEF SyncRefresh, Discover, ClearMetadata, PlanQuery
    <3> QED
      BY <1>4, <3>1, <3>2, <3>3 DEF Reads
  <2>3. /\ pc' \in [Requests -> Labels]
        /\ change' \in [Requests -> ConnectionRow \cup {NoRow}]
        /\ loaded' \in [Requests -> ConnectionRow \cup {NoRow}]
    BY <2>1, <2>2
  <2>4. seen' \in [Requests -> NullableRequest]
    <3>1. conn[r] \in Conns
      BY <1>4, ReadMoves DEF HandlerAt
    <3>2. meta[conn[r]].gen \in NullableRequest
      BY <3>1 DEF Metadata
    <3> QED
      BY <1>4, <3>2 DEF Reads, ProbeUnsupported, Probe, SyncRefresh, Discover,
                        DiscoverFails, ClearMetadata, PlanQuery
  <2>5. verified' \in [Conns -> SUBSET Params]
    <3>1. CASE Probe(r)
      <4>1. loaded[r] \in ConnectionRow
        BY <3>1 DEF Probe, HandlerAt, Working, WorkingLabels
      <4>2. loaded[r].params \in Params
        BY <4>1 DEF ConnectionRow
      <4> QED
        BY <3>1, <4>2 DEF Probe
    <3>2. CASE ~Probe(r)
      BY <1>4, <3>2 DEF Reads, ProbeUnsupported, SyncRefresh, Discover,
                        DiscoverFails, ClearMetadata, PlanQuery
    <3> QED
      BY <3>1, <3>2
  <2> QED
    BY <2>1, <2>3, <2>4, <2>5
<1>5. ASSUME NEW r \in Requests, Saves(r) PROVE TypeOK'
  <2>1. PICK next \in RefreshLabels : pc' = [pc EXCEPT ![r] = next]
    BY <1>5 DEF Saves, Save, RefreshLabels
  <2> QED
    BY <1>0, <1>5, <2>1, SaveWrites
<1>6. ASSUME NEW r \in Requests, InsertConnection(r) PROVE TypeOK'
  <2>1. conn[r] \in Conns /\ change[r] \in ConnectionRow
    BY <1>6 DEF InsertConnection, HandlerAt, Working, WorkingLabels
  <2>2. "createRefresh" \in Labels
    BY DEF Labels, WorkingLabels, RefreshLabels
  <2> QED
    BY <1>6, <2>1, <2>2 DEF InsertConnection
<1>7. ASSUME NEW r \in Requests, DeleteConnection(r) PROVE TypeOK'
  <2>1. NoMetadata \in Metadata
    BY <1>0 DEF NoMetadata, Metadata
  <2>2. /\ conns' \in SUBSET Conns /\ row' \in [Conns -> ConnectionRow \cup {NoRow}]
        /\ meta' \in [Conns -> Metadata] /\ perms' \in [Conns -> SUBSET Users]
    BY <1>7, <2>1 DEF DeleteConnection
  <2>3. /\ pc' \in [Requests -> Labels] /\ resp' \in [Requests -> Nat]
        /\ subject' \in [Requests -> Users \cup {NoUser}]
        /\ loaded' \in [Requests -> ConnectionRow \cup {NoRow}]
        /\ change' \in [Requests -> ConnectionRow \cup {NoRow}]
        /\ seen' \in [Requests -> NullableRequest]
    BY <1>0, <1>7 DEF DeleteConnection
  <2> QED
    BY <1>7, <2>2, <2>3 DEF DeleteConnection
<1>8. ASSUME NEW r \in Requests, CacheMetadata(r) PROVE TypeOK'
  <2>1. [gen |-> r, params |-> loaded[r].params] \in Metadata
    BY <1>0, <1>8, CacheWrites DEF Metadata, ConnectionRow
  <2>2. "markSynced" \in Labels
    BY DEF Labels, WorkingLabels, SaveLabels
  <2>3. PICK new \in ConnectionRow : change' = [change EXCEPT ![r] = new]
    BY <1>8, CacheWrites DEF CacheMetadata
  <2> QED
    BY <1>8, <2>1, <2>2, <2>3, CacheWrites DEF CacheMetadata
<1>9. ASSUME NEW r \in Requests, CreatePermission(r) PROVE TypeOK'
  <2>1. subject[r] \in Users
    BY <1>9 DEF CreatePermission, HandlerAt
  <2>2. perms' \in [Conns -> SUBSET Users]
    BY <1>9, <2>1 DEF CreatePermission
  <2>3. pc' \in [Requests -> Labels]
    BY <1>9 DEF CreatePermission, Goto, Labels, WorkingLabels
  <2> QED
    BY <1>9, <2>2, <2>3 DEF CreatePermission
<1>10. ASSUME NEW r \in Requests, Abort(r) PROVE TypeOK'
  BY <1>0, <1>10 DEF Abort
<1>11. CASE UNCHANGED vars
  BY <1>11 DEF vars
<1> QED
  BY <1>1, <1>2, <1>3, <1>4, <1>5, <1>6, <1>7, <1>8, <1>9, <1>10, <1>11, Steps
     DEF Step, Writes

\* Rows stay complete, and somebody goes on knowing each of them.
LEMMA RowsStep ==
    ASSUME TypeOK, RowsInv, \A r \in Requests : HandlerAt(r), [Next]_vars
    PROVE  RowsInv'
<1>1. ASSUME NEW r \in Requests, Step(r), NEW c \in conns
      PROVE  owner'[c] = owner[c] /\ \E q \in Requests : conn'[q] = c
  <2>1. PICK q \in Requests : conn[q] = c
    BY DEF RowsInv
  <2>2. conn'[q] = c /\ owner'[c] = owner[c]
    BY <1>1, <2>1, Known DEF TypeOK
  <2> QED
    BY <2>2
<1>2. ASSUME NEW r \in Requests, Step(r), ~Writes(r) PROVE RowsInv'
  <2>1. UNCHANGED <<conns, row>>
    BY <1>2, StepFrame
  <2> QED
    BY <1>1, <1>2, <2>1 DEF RowsInv
<1>3. ASSUME NEW r \in Requests, Step(r), Saves(r) PROVE RowsInv'
  <2>1. UNCHANGED conns /\ \A c \in conns : row'[c] \in ConnectionRow
    BY <1>3, SaveWrites DEF RowsInv, TypeOK
  <2> QED
    BY <1>1, <1>3, <2>1 DEF RowsInv
<1>4. ASSUME NEW r \in Requests, Step(r), InsertConnection(r) PROVE RowsInv'
  <2>1. /\ conn[r] \in Conns /\ change[r] \in ConnectionRow
        /\ owner[conn[r]] \in ConnectionOwner
    BY <1>4 DEF InsertConnection, HandlerAt, Working, WorkingLabels
  <2>2. /\ conns' = conns \cup {conn[r]}
        /\ row' = [row EXCEPT ![conn[r]] = change[r]]
        /\ UNCHANGED <<owner, conn>>
    BY <1>4 DEF InsertConnection
  <2> QED
    BY <2>1, <2>2 DEF RowsInv, TypeOK
<1>5. ASSUME NEW r \in Requests, Step(r), DeleteConnection(r) PROVE RowsInv'
  <2>1. /\ conns' = conns \ {conn[r]}
        /\ row' = [row EXCEPT ![conn[r]] = NoRow]
        /\ UNCHANGED <<owner, conn>>
    BY <1>5 DEF DeleteConnection, Close
  <2> QED
    BY <2>1 DEF RowsInv, TypeOK
<1>6. ASSUME NEW r \in Requests, Step(r),
             CacheMetadata(r) \/ CreatePermission(r)
      PROVE  RowsInv'
  <2>1. UNCHANGED <<conns, row>>
    BY <1>6 DEF CacheMetadata, CreatePermission
  <2> QED
    BY <1>1, <1>6, <2>1 DEF RowsInv
<1>7. CASE UNCHANGED vars
  BY <1>7 DEF vars, RowsInv
<1> QED
  BY <1>2, <1>3, <1>4, <1>5, <1>6, <1>7, Steps DEF Writes

\* A handler keeps what it loaded until it commits or answers.
LEMMA HandlerStep ==
    ASSUME TypeOK, RowsInv, \A r \in Requests : HandlerAt(r), [Next]_vars
    PROVE  \A r \in Requests : HandlerAt(r)'
<1> USE DEF Working
<1>1. ASSUME NEW r \in Requests, Step(r), NEW q \in Requests \ {r}
      PROVE  HandlerAt(q)'
  <2>1. HandlerAt(q) /\ OthersUnchanged(r)
    BY <1>1, StepFrame
  <2>2. /\ pc'[q] = pc[q] /\ subject'[q] = subject[q] /\ conn'[q] = conn[q]
        /\ loaded'[q] = loaded[q] /\ change'[q] = change[q]
        /\ seen'[q] = seen[q] /\ resp'[q] = resp[q]
    BY <2>1 DEF OthersUnchanged
  <2>3. conn[q] \in Conns => owner'[conn[q]] = owner[conn[q]]
    BY <1>1, Known
  <2>4. ASSUME pc[q] = "insert"
        PROVE  /\ conn[q] \notin conns'
               /\ \A p \in Requests : conn'[p] = conn[q] => p = q
    <3>1. /\ conn[q] \notin conns
          /\ \A p \in Requests : conn[p] = conn[q] => p = q
      BY <2>1, <2>4 DEF HandlerAt
    <3>2. conn[q] \notin conns'
      <4>1. CASE InsertConnection(r)
        BY <3>1, <4>1 DEF InsertConnection
      <4>2. CASE Writes(r) /\ ~InsertConnection(r)
        BY <3>1, <4>2, SaveWrites
           DEF Writes, DeleteConnection, CacheMetadata, CreatePermission
      <4>3. CASE ~Writes(r)
        BY <1>1, <3>1, <4>3, StepFrame
      <4> QED
        BY <4>1, <4>2, <4>3
    <3>3. conn'[r] # conn[q]
      <4>1. CASE Admits(r)
        <5>1. PICK c \in conns : conn' = [conn EXCEPT ![r] = c]
          BY <4>1 DEF Admits, Admit
        <5> QED
          BY <3>1, <5>1 DEF TypeOK
      <4>2. CASE Creates(r)
        BY <4>2 DEF Creates, TypeOK
      <4>3. CASE ~Admits(r) /\ ~Creates(r)
        BY <1>1, <3>1, <4>3, StepFrame
      <4> QED
        BY <4>1, <4>2, <4>3
    <3> QED
      BY <2>1, <3>1, <3>2, <3>3 DEF OthersUnchanged
  <2>5. pc[q] = "grant" => Working(q)
    BY DEF WorkingLabels
  <2> QED
    BY <2>1, <2>2, <2>3, <2>4, <2>5 DEF HandlerAt
<1>2. ASSUME NEW r \in Requests, pc'[r] = "done" PROVE HandlerAt(r)'
  BY <1>2 DEF HandlerAt, WorkingLabels, SaveLabels, RefreshLabels
<1>3. ASSUME NEW r \in Requests, Admits(r) PROVE HandlerAt(r)'
  <2>1. PICK u \in Users, c \in conns, new \in ConnectionRow,
             label \in WorkingLabels :
            /\ Admit(r, u, c, new, label)
            /\ label \notin {"insert", "createRefresh"}
            /\ label = "grant" => /\ meta[c].gen # NoRequest
                                  /\ TenantOf[u] = owner[c].tenant
    BY <1>3 DEF Admits
  <2>2. /\ pc'[r] = label /\ conn'[r] = c /\ change'[r] = new
        /\ loaded'[r] = row[c] /\ subject'[r] = u /\ seen'[r] = meta[c].gen
        /\ UNCHANGED <<conns, owner, resp>>
    BY <2>1 DEF Admit, Goto, TypeOK
  <2>3. /\ row[c] \in ConnectionRow /\ owner[c] \in ConnectionOwner
        /\ c \in Conns
    BY DEF RowsInv, TypeOK
  <2>4. resp[r] = 0
    BY <1>3 DEF Admits, HandlerAt
  <2> QED
    BY <2>1, <2>2, <2>3, <2>4
       DEF HandlerAt, WorkingLabels, SaveLabels, RefreshLabels
<1>4. ASSUME NEW r \in Requests, Creates(r) PROVE HandlerAt(r)'
  <2>1. PICK c \in Conns, of \in ConnectionOwner, new \in ConnectionRow :
            /\ \A q \in Requests : conn[q] # c
            /\ new.status = "pending" /\ new.sync = "pending"
            /\ conn' = [conn EXCEPT ![r] = c]
            /\ owner' = [owner EXCEPT ![c] = of]
            /\ change' = [change EXCEPT ![r] = new]
            /\ pc' = [pc EXCEPT ![r] = "insert"]
            /\ UNCHANGED <<conns, resp>>
    BY <1>4 DEF Creates, Assign, Goto
  <2>2. c \notin conns
    BY <2>1 DEF RowsInv
  <2>3. resp[r] = 0
    BY <1>4 DEF Creates, HandlerAt
  <2> QED
    BY <2>1, <2>2, <2>3 DEF HandlerAt, TypeOK
<1>5. ASSUME NEW r \in Requests, HandlerAt(r), Working(r), Working(r)',
             pc'[r] \notin {"insert", "grant"}, change'[r] \in ConnectionRow,
             loaded'[r] \in ConnectionRow \/ pc'[r] = "createRefresh",
             UNCHANGED <<owner, conn, resp>>
      PROVE  HandlerAt(r)'
  BY <1>5 DEF HandlerAt, WorkingLabels, SaveLabels, RefreshLabels
<1>6. ASSUME NEW r \in Requests, Reads(r) PROVE HandlerAt(r)'
  <2>1. Working(r)' /\ pc'[r] \notin {"insert", "grant"}
    BY <1>6, ReadMoves DEF WorkingLabels, SaveLabels
  <2> QED
    BY <1>5, <1>6, <2>1, ReadMoves
<1>7. ASSUME NEW r \in Requests, Saves(r) PROVE HandlerAt(r)'
  <2>1. Working(r)' /\ pc'[r] \notin {"insert", "grant"}
    BY <1>7, SaveWrites DEF WorkingLabels, RefreshLabels
  <2> QED
    BY <1>5, <1>7, <2>1, SaveWrites
<1>8. ASSUME NEW r \in Requests, CacheMetadata(r) PROVE HandlerAt(r)'
  <2>1. Working(r)' /\ pc'[r] \notin {"insert", "grant"}
    BY <1>8, CacheWrites DEF WorkingLabels, SaveLabels
  <2> QED
    BY <1>5, <1>8, <2>1, CacheWrites
<1>9. ASSUME NEW r \in Requests, InsertConnection(r) PROVE HandlerAt(r)'
  <2>1. /\ pc[r] = "insert" /\ pc'[r] = "createRefresh"
        /\ UNCHANGED <<owner, conn, change, resp>>
    BY <1>9 DEF InsertConnection, Goto, TypeOK
  <2>2. Working(r) /\ Working(r)'
    BY <2>1 DEF WorkingLabels, RefreshLabels
  <2>3. change[r] \in ConnectionRow
    BY <2>2 DEF HandlerAt
  <2> QED
    BY <1>5, <2>1, <2>2, <2>3
<1>10. ASSUME NEW r \in Requests, CreatePermission(r) PROVE HandlerAt(r)'
  <2>1. change[r] \in ConnectionRow /\ loaded[r] \in ConnectionRow
    BY <1>10, GrantMoves DEF HandlerAt
  <2> QED
    BY <1>5, <1>10, <2>1, GrantMoves
<1>11. ASSUME NEW r \in Requests, Step(r) PROVE \A q \in Requests : HandlerAt(q)'
  BY <1>1, <1>2, <1>3, <1>4, <1>6, <1>7, <1>8, <1>9, <1>10, <1>11, Ends
     DEF Step, Writes
<1>12. CASE UNCHANGED vars
  BY <1>12 DEF vars, HandlerAt
<1> QED
  BY <1>11, <1>12, Steps

\* What a handler assigns between its read and its commit.
LEMMA ChangeStep ==
    ASSUME TypeOK, RowsInv,
           \A r \in Requests : HandlerAt(r) /\ ChangeAt(r), [Next]_vars
    PROVE  \A r \in Requests : ChangeAt(r)'
<1>1. ASSUME NEW r \in Requests, Step(r), NEW q \in Requests \ {r}
      PROVE  ChangeAt(q)'
  <2>1. ChangeAt(q) /\ OthersUnchanged(r)
    BY <1>1, StepFrame
  <2>2. /\ pc'[q] = pc[q] /\ conn'[q] = conn[q]
        /\ loaded'[q] = loaded[q] /\ change'[q] = change[q]
    BY <2>1 DEF OthersUnchanged
  <2>3. conn[q] \in Conns => owner'[conn[q]] = owner[conn[q]]
    BY <1>1, Known
  <2>4. pc[q] \in {"saveTest", "saveUnsupported"} => conn[q] \in Conns
    BY DEF HandlerAt, Working, WorkingLabels, SaveLabels
  <2>5. conn[q] \in Conns => verified[conn[q]] \subseteq verified'[conn[q]]
    BY <1>1, StepFrame
  <2> QED
    BY <2>1, <2>2, <2>3, <2>4, <2>5 DEF ChangeAt
<1>2. ASSUME NEW r \in Requests,
             pc'[r] \notin {"saveUpdate", "saveTest", "saveUnsupported",
                            "markSync", "markSynced", "markSyncFailed"}
      PROVE  ChangeAt(r)'
  BY <1>2 DEF ChangeAt
<1>3. ASSUME NEW r \in Requests, Admits(r) PROVE ChangeAt(r)'
  <2>1. PICK u \in Users, c \in conns, new \in ConnectionRow,
             label \in WorkingLabels :
           /\ Admit(r, u, c, new, label)
           /\ \/ /\ label = "saveUpdate"
                 /\ new.status = "pending" /\ new.sync = "pending"
              \/ /\ label = "markSync" /\ new.sync = "processing"
                 /\ new.params = row[c].params /\ new.status = row[c].status
              \/ label \in {"grant", "delete", "probe", "plan"}
    BY <1>3 DEF Admits
  <2>2. /\ pc'[r] = label /\ change'[r] = new /\ loaded'[r] = row[c]
    BY <2>1 DEF Admit, Goto, TypeOK
  <2> QED
    BY <2>1, <2>2 DEF ChangeAt
<1>4. ASSUME NEW r \in Requests, Creates(r) \/ InsertConnection(r)
      PROVE  ChangeAt(r)'
  <2>1. pc'[r] \in {"insert", "createRefresh"}
    BY <1>4 DEF Creates, InsertConnection, Goto, TypeOK
  <2> QED
    BY <1>2, <2>1
<1>5. ASSUME NEW r \in Requests, Saves(r) PROVE ChangeAt(r)'
  <2>1. pc'[r] \in RefreshLabels
    BY <1>5, SaveWrites
  <2> QED
    BY <1>2, <2>1 DEF RefreshLabels
<1>6. ASSUME NEW r \in Requests, Reads(r) \/ CacheMetadata(r) PROVE ChangeAt(r)'
  BY <1>6, ReadMoves, CacheWrites
<1>7. ASSUME NEW r \in Requests, Step(r) PROVE \A q \in Requests : ChangeAt(q)'
  BY <1>1, <1>2, <1>3, <1>4, <1>5, <1>6, <1>7, Ends, GrantMoves
     DEF Step, Writes
<1>8. CASE UNCHANGED vars
  BY <1>8 DEF vars, ChangeAt
<1> QED
  BY <1>7, <1>8, Steps

-----------------------------------------------------------------------------
(* Names, metadata and permissions.                                        *)

\* What is committed concerns the connection the handler works on.
LEMMA WritesOwn ==
    ASSUME TypeOK, RowsInv, NEW r \in Requests, HandlerAt(r), Writes(r)
    PROVE  /\ Working(r) /\ conn[r] \in Conns
           /\ UNCHANGED <<owner, conn, overlapped>>
           /\ \A c \in Conns \ {conn[r]} :
                  /\ c \in conns' <=> c \in conns
                  /\ row'[c] = row[c] /\ meta'[c] = meta[c]
                  /\ perms'[c] = perms[c]
<1>1. CASE Saves(r)
  BY <1>1, SaveWrites DEF TypeOK
<1>2. CASE ~Saves(r)
  <2>1. Working(r) /\ UNCHANGED <<owner, conn, overlapped>>
    BY <1>2 DEF Writes, InsertConnection, DeleteConnection, CacheMetadata,
                CreatePermission, Close, Working, WorkingLabels
  <2>2. conn[r] \in Conns
    BY <2>1 DEF HandlerAt
  <2>3. CASE InsertConnection(r) \/ DeleteConnection(r)
    BY <2>1, <2>2, <2>3 DEF InsertConnection, DeleteConnection, TypeOK
  <2>4. CASE CacheMetadata(r) \/ CreatePermission(r)
    BY <2>1, <2>2, <2>4 DEF CacheMetadata, CreatePermission, TypeOK
  <2> QED
    BY <1>2, <2>3, <2>4 DEF Writes
<1> QED
  BY <1>1, <1>2

\* A committed connection keeps its owner.
LEMMA OwnerStays ==
    ASSUME TypeOK, RowsInv, NEW r \in Requests, HandlerAt(r), Step(r),
           NEW c \in conns
    PROVE  owner'[c] = owner[c]
<1>1. PICK q \in Requests : conn[q] = c
  BY DEF RowsInv
<1> QED
  BY <1>1, Known DEF TypeOK

\* The look-up of a name may be stale when the row is written; the unique
\* constraint then refuses the commit, so no two rows get one name.
LEMMA NamesStep ==
    ASSUME TypeOK, RowsInv, \A r \in Requests : HandlerAt(r),
           NamesAreUnique, [Next]_vars
    PROVE  NamesAreUnique'
<1>1. ASSUME UNCHANGED <<conns, row>>, \A c \in conns : owner'[c] = owner[c]
      PROVE  NamesAreUnique'
  BY <1>1 DEF NamesAreUnique
<1>2. ASSUME NEW r \in Requests, Step(r), ~Writes(r) PROVE NamesAreUnique'
  <2>1. UNCHANGED <<conns, row>>
    BY <1>2, StepFrame
  <2> QED
    BY <1>1, <1>2, <2>1, OwnerStays
<1>3. ASSUME NEW r \in Requests, conn[r] \in Conns, UNCHANGED owner,
             conns' = conns \cup {conn[r]},
             \A c \in conns \ {conn[r]} : row'[c] = row[c],
             \/ conn[r] \in conns /\ row'[conn[r]].name = row[conn[r]].name
             \/ ~NameTaken(owner[conn[r]].tenant, row'[conn[r]].name, conn[r])
      PROVE  NamesAreUnique'
  BY <1>3 DEF NamesAreUnique, NameTaken
<1>4. ASSUME NEW r \in Requests, Saves(r) PROVE NamesAreUnique'
  <2>1. row'[conn[r]].name = IF change[r].name = loaded[r].name
                             THEN row[conn[r]].name ELSE change[r].name
    BY <1>4, SaveWrites
  <2>2. /\ conn[r] \in Conns /\ UNCHANGED owner /\ conns' = conns \cup {conn[r]}
        /\ \A c \in conns \ {conn[r]} : row'[c] = row[c]
    BY <1>4, SaveWrites DEF TypeOK
  <2> QED
    BY <1>3, <1>4, <2>1, <2>2, SaveWrites
<1>5. ASSUME NEW r \in Requests, InsertConnection(r) PROVE NamesAreUnique'
  <2>1. conn[r] \in Conns
    BY <1>5 DEF InsertConnection, HandlerAt, Working, WorkingLabels
  <2> QED
    BY <1>3, <1>5, <2>1 DEF InsertConnection, TypeOK
<1>6. ASSUME NEW r \in Requests, DeleteConnection(r) PROVE NamesAreUnique'
  <2>1. /\ conns' = conns \ {conn[r]} /\ UNCHANGED owner
        /\ \A c \in conns' : row'[c] = row[c]
    BY <1>6 DEF DeleteConnection, TypeOK
  <2> QED
    BY <2>1 DEF NamesAreUnique
<1>7. ASSUME NEW r \in Requests, CacheMetadata(r) \/ CreatePermission(r)
      PROVE  NamesAreUnique'
  BY <1>1, <1>7 DEF CacheMetadata, CreatePermission
<1>8. CASE UNCHANGED vars
  BY <1>1, <1>8 DEF vars
<1> QED
  BY <1>2, <1>4, <1>5, <1>6, <1>7, <1>8, Steps DEF Writes

\* Metadata and permissions go with the connection and the tables they refer
\* to; a grant is written only while the metadata it looked at is there.
LEMMA MetadataStep ==
    ASSUME TypeOK, RowsInv, \A r \in Requests : HandlerAt(r),
           NoDanglingMetadata, SubjectsBelongToTenant, [Next]_vars
    PROVE  NoDanglingMetadata' /\ SubjectsBelongToTenant'
<1> DEFINE Tied(c) == /\ meta[c].gen # NoRequest => c \in conns
                      /\ perms[c] # {} => meta[c].gen # NoRequest
                      /\ \A s \in perms[c] : TenantOf[s] = owner[c].tenant
<1>0. /\ \A c \in Conns : Tied(c)
      /\ (\A c \in Conns : Tied(c)')
             => NoDanglingMetadata' /\ SubjectsBelongToTenant'
  <2>1. TypeOK'
    BY TypeStep
  <2>2. \A c \in Conns : perms[c] # {} => c \in conns
    BY DEF NoDanglingMetadata
  <2> QED
    BY <2>1, <2>2 DEF NoDanglingMetadata, SubjectsBelongToTenant, TypeOK
<1> HIDE DEF Tied
<1>1. ASSUME NEW r \in Requests, Step(r), NEW c \in Conns,
             c \in conns' <=> c \in conns, meta'[c] = meta[c],
             perms'[c] = perms[c]
      PROVE  Tied(c)'
  <2>1. c \in conns => owner'[c] = owner[c]
    BY <1>1, OwnerStays
  <2>2. Tied(c)
    BY <1>0
  <2> QED
    BY <1>1, <2>1, <2>2 DEF Tied
<1>2. ASSUME NEW r \in Requests, Step(r), ~Writes(r), NEW c \in Conns
      PROVE  Tied(c)'
  BY <1>1, <1>2, StepFrame
<1>3. ASSUME NEW r \in Requests, Step(r), Writes(r),
             NEW c \in Conns \ {conn[r]}
      PROVE  Tied(c)'
  BY <1>1, <1>3, WritesOwn
<1>4. ASSUME NEW r \in Requests, Step(r), Writes(r),
             NEW c \in Conns, c = conn[r]
      PROVE  Tied(c)'
  <2>1. UNCHANGED <<owner, conn>>
    BY <1>4, WritesOwn
  <2>2. Tied(c)
    BY <1>0
  <2>3. CASE Saves(r)
    BY <1>1, <1>4, <2>1, <2>3, SaveWrites
  <2>4. CASE InsertConnection(r)
    BY <1>4, <2>1, <2>2, <2>4 DEF InsertConnection, Tied
  <2>5. CASE DeleteConnection(r)
    <3>1. meta'[c] = NoMetadata /\ perms'[c] = {}
      BY <1>4, <2>1, <2>5 DEF DeleteConnection, TypeOK
    <3> QED
      BY <2>1, <3>1 DEF Tied, NoMetadata
  <2>6. CASE CacheMetadata(r)
    <3>1. /\ c \in conns' /\ perms'[c] = {}
      BY <1>4, <2>1, <2>6 DEF CacheMetadata, TypeOK
    <3> QED
      BY <2>1, <3>1 DEF Tied
  <2>7. CASE CreatePermission(r)
    <3>1. /\ pc[r] = "grant" /\ meta[c].gen = seen[r]
          /\ perms'[c] = perms[c] \cup {subject[r]}
          /\ UNCHANGED <<conns, owner, meta>>
      BY <1>4, <2>1, <2>7 DEF CreatePermission, TypeOK
    <3>2. seen[r] # NoRequest /\ TenantOf[subject[r]] = owner[c].tenant
      BY <1>4, <3>1 DEF HandlerAt
    <3> QED
      BY <2>1, <2>2, <3>1, <3>2 DEF Tied
  <2> QED
    BY <1>4, <2>3, <2>4, <2>5, <2>6, <2>7 DEF Writes
<1>5. CASE UNCHANGED vars
  BY <1>0, <1>5 DEF vars, Tied
<1> QED
  BY <1>0, <1>2, <1>3, <1>4, <1>5, Steps

-----------------------------------------------------------------------------
(* A synchronisation that is shown as running is attended.                 *)

\* A step is taken by a request that was not answered before.
LEMMA NotDone ==
    ASSUME NEW r \in Requests, Step(r)
    PROVE  pc[r] # "done"
BY DEF Step, Refuses, Admits, Creates, Reads, ProbeUnsupported, Probe,
       SyncRefresh, Discover, DiscoverFails, ClearMetadata, PlanQuery, Writes,
       Saves, InsertConnection, DeleteConnection, CacheMetadata,
       CreatePermission, Abort, Working, WorkingLabels, SaveLabels,
       RefreshLabels

\* A sync that attends to the row goes on doing so, or takes "processing" away.
LEMMA AttendsStays ==
    ASSUME TypeOK, RowsInv, \A r \in Requests : HandlerAt(r) /\ ChangeAt(r),
           NEW r \in Requests, Step(r),
           NEW q \in Requests, conn[q] \in conns, Attends(q),
           row'[conn[q]].sync = "processing"
    PROVE  Attends(q)'
<1>1. OthersUnchanged(r) /\ faulted \subseteq faulted'
  BY StepFrame
<1>2. CASE q # r
  BY <1>1, <1>2 DEF OthersUnchanged, Attends
<1>3. CASE q = r /\ q \in faulted
  BY <1>1, <1>3 DEF Attends
<1>4. CASE q = r /\ q \notin faulted
  <2>1. resp[r] # 500
    BY NotDone DEF HandlerAt
  <2>2. /\ pc[r] \in SyncLabels
        /\ pc[r] = "syncRefresh" \/ loaded[r].sync = "processing"
    BY <1>4, <2>1 DEF Attends, SyncLabels
  <2>3. CASE Refuses(r)
    <3>1. resp'[r] = 500
      BY <2>2, <2>3 DEF Refuses, Refuse, Answer, TypeOK
    <3> QED
      BY <1>4, <3>1 DEF Attends
  <2>4. CASE Abort(r)
    BY <1>4, <2>4 DEF Abort, Attends
  <2>5. CASE Reads(r)
    <3>1. /\ pc'[r] \in SyncLabels \ {"syncRefresh"} /\ UNCHANGED row
          /\ \/ loaded'[r] = loaded[r] /\ pc[r] \notin RefreshLabels
             \/ loaded'[r] = row[conn[r]]
      BY <2>2, <2>5, ReadMoves
    <3>2. loaded'[r].sync = "processing"
      BY <1>4, <2>2, <3>1 DEF RefreshLabels
    <3> QED
      BY <1>4, <3>1, <3>2 DEF Attends, SyncLabels
  <2>6. CASE Saves(r)
    <3>1. pc[r] \in {"markSynced", "markSyncFailed"}
      BY <2>2, <2>6, SaveWrites DEF SaveLabels, SyncLabels
    <3>2. change[r].sync \in {"completed", "failed"}
      BY <3>1 DEF ChangeAt
    <3>3. row'[conn[r]].sync = change[r].sync
      BY <2>2, <2>6, <3>1, <3>2, SaveWrites
    <3> QED
      BY <1>4, <3>2, <3>3
  <2>7. CASE CacheMetadata(r)
    <3>1. pc[r] = "cache" /\ pc'[r] = "markSynced" /\ loaded' = loaded
      BY <2>7, CacheWrites
    <3> QED
      BY <1>4, <2>2, <3>1 DEF Attends
  <2>8. ~Admits(r) /\ ~Creates(r) /\ ~InsertConnection(r)
        /\ ~DeleteConnection(r) /\ ~CreatePermission(r)
    BY <2>2 DEF Admits, Creates, InsertConnection, DeleteConnection,
                CreatePermission, SyncLabels
  <2> QED
    BY <2>3, <2>4, <2>5, <2>6, <2>7, <2>8 DEF Step, Writes
<1> QED
  BY <1>2, <1>3, <1>4

\* A sync that marked a row goes on attending it until it has written the end
\* of it; a row that is newly marked is attended by the sync that marks it.
LEMMA AttendedStep ==
    ASSUME TypeOK, RowsInv, \A r \in Requests : HandlerAt(r) /\ ChangeAt(r),
           AttendedInv, [Next]_vars
    PROVE  AttendedInv'
<1>1. ASSUME NEW r \in Requests, Step(r), NEW c \in conns,
             row[c].sync = "processing", row'[c].sync = "processing"
      PROVE  \E q \in Requests : conn'[q] = c /\ Attends(q)'
  <2>1. PICK q \in Requests : conn[q] = c /\ Attends(q)
    BY <1>1 DEF AttendedInv
  <2>2. conn'[q] = c
    BY <1>1, <2>1, Known DEF TypeOK
  <2>3. Attends(q)'
    BY <1>1, <2>1, AttendsStays
  <2> QED
    BY <2>2, <2>3
<1>2. ASSUME NEW r \in Requests, Step(r), NEW c \in conns',
             row'[c].sync = "processing",
             ~(c \in conns /\ row[c].sync = "processing")
      PROVE  conn'[r] = c /\ Attends(r)'
  <2>1. Writes(r)
    BY <1>2, StepFrame
  <2>2. c \in Conns
    BY TypeStep DEF TypeOK
  <2>3. c = conn[r] /\ UNCHANGED conn
    BY <1>2, <2>1, <2>2, WritesOwn
  <2>4. CASE Saves(r)
    <3>1. /\ change[r].sync = "processing" /\ change[r].sync # loaded[r].sync
          /\ pc[r] \in SaveLabels
      BY <1>2, <2>3, <2>4, SaveWrites
    <3>2. pc[r] = "markSync"
      BY <3>1 DEF ChangeAt, SaveLabels
    <3>3. pc'[r] = "syncRefresh"
      BY <2>4, <3>2, SaveWrites
    <3> QED
      BY <2>3, <3>3 DEF Attends
  <2>5. CASE InsertConnection(r)
    <3>1. pc[r] = "insert" /\ row'[c] = change[r]
      BY <2>2, <2>3, <2>5 DEF InsertConnection, TypeOK
    <3>2. change[r].sync = "pending"
      BY <3>1 DEF HandlerAt
    <3> QED
      BY <1>2, <3>1, <3>2
  <2>6. CASE DeleteConnection(r)
    BY <1>2, <2>3, <2>6 DEF DeleteConnection
  <2>7. CASE CacheMetadata(r) \/ CreatePermission(r)
    BY <1>2, <2>7 DEF CacheMetadata, CreatePermission
  <2> QED
    BY <2>1, <2>4, <2>5, <2>6, <2>7 DEF Writes
<1>3. ASSUME NEW r \in Requests, Step(r) PROVE AttendedInv'
  BY <1>1, <1>2, <1>3 DEF AttendedInv
<1>4. CASE UNCHANGED vars
  BY <1>4 DEF vars, AttendedInv, Attends
<1> QED
  BY <1>3, <1>4, Steps

-----------------------------------------------------------------------------
(* Connections whose requests have not overlapped.                         *)

\* A request that arrives at a connection somebody works on makes it one that
\* was overlapped, so the copy of a sole handler stays the row.
LEMMA SoleStep ==
    ASSUME TypeOK, RowsInv, \A r \in Requests : HandlerAt(r), SoleInv,
           [Next]_vars
    PROVE  SoleInv'
<1>0. /\ \A r, q \in Requests :
             Sole(r) /\ Working(q) /\ conn[q] = conn[r] => q = r
      /\ \A r \in Requests : Working(r) => conn[r] \in Conns
  BY DEF SoleInv, HandlerAt
<1>1. ASSUME NEW r \in Requests, Step(r), NEW q \in Requests \ {r}, Sole(q)'
      PROVE  /\ Sole(q) /\ pc'[q] = pc[q] /\ conn'[q] = conn[q]
             /\ loaded'[q] = loaded[q]
             /\ conn[q] \in conns' <=> conn[q] \in conns
             /\ row'[conn[q]] = row[conn[q]] /\ meta'[conn[q]] = meta[conn[q]]
  <2>1. OthersUnchanged(r) /\ overlapped \subseteq overlapped'
    BY <1>1, StepFrame
  <2>2. /\ pc'[q] = pc[q] /\ conn'[q] = conn[q] /\ loaded'[q] = loaded[q]
        /\ Sole(q)
    BY <1>1, <2>1 DEF OthersUnchanged, Sole, Working
  <2>3. CASE Writes(r)
    <3>1. conn[q] # conn[r] /\ conn[q] \in Conns
      BY <1>0, <2>2, <2>3, WritesOwn DEF Sole
    <3> QED
      BY <2>2, <2>3, <3>1, WritesOwn
  <2>4. CASE ~Writes(r)
    BY <1>1, <2>2, <2>4, StepFrame
  <2> QED
    BY <2>3, <2>4
<1>2. ASSUME NEW r \in Requests, Step(r), Working(r)',
             NEW q \in Requests \ {r}, Working(q)', conn'[q] = conn'[r],
             conn'[r] \notin overlapped'
      PROVE  FALSE
  <2>1. /\ OthersUnchanged(r) /\ overlapped \subseteq overlapped'
        /\ Working(q) /\ conn[q] = conn'[r]
    BY <1>2, StepFrame DEF OthersUnchanged, Working
  <2>2. CASE Admits(r)
    <3>1. PICK c \in conns :
              /\ conn' = [conn EXCEPT ![r] = c]
              /\ overlapped' = IF Busy(c) THEN overlapped \cup {c}
                                          ELSE overlapped
      BY <2>2 DEF Admits, Admit
    <3>2. Busy(c)
      BY <2>1, <3>1 DEF Busy, TypeOK
    <3> QED
      BY <1>2, <3>1, <3>2 DEF TypeOK
  <2>3. CASE Creates(r)
    BY <2>1, <2>3 DEF Creates, TypeOK
  <2>4. CASE ~Admits(r) /\ ~Creates(r)
    <3>1. Working(r) /\ UNCHANGED conn
      BY <1>2, <2>4, StepFrame, ReadMoves, WritesOwn, Ends
         DEF Step, Working, WorkingLabels, SaveLabels, RefreshLabels
    <3> QED
      BY <1>0, <1>2, <2>1, <3>1 DEF Sole
  <2> QED
    BY <2>2, <2>3, <2>4
<1>3. ASSUME NEW r \in Requests, Step(r), Sole(r)',
             pc'[r] \notin RefreshLabels \cup {"insert"}
      PROVE  conn'[r] \in conns' /\ loaded'[r] = row'[conn'[r]]
  <2>1. CASE Admits(r)
    <3>1. PICK c \in conns : /\ conn' = [conn EXCEPT ![r] = c]
                             /\ loaded' = [loaded EXCEPT ![r] = row[c]]
                             /\ UNCHANGED <<conns, row>>
      BY <2>1 DEF Admits, Admit
    <3> QED
      BY <3>1 DEF TypeOK
  <2>2. ASSUME UNCHANGED <<conns, row, conn, overlapped>>, Working(r),
               loaded'[r] = loaded[r],
               pc[r] \notin RefreshLabels \cup {"insert"}
        PROVE  conn'[r] \in conns' /\ loaded'[r] = row'[conn'[r]]
    BY <1>3, <2>2 DEF SoleInv, Sole
  <2>3. CASE Reads(r)
    BY <2>2, <2>3, ReadMoves
  <2>4. CASE CacheMetadata(r)
    BY <2>2, <2>4, CacheWrites DEF RefreshLabels
  <2>5. ~Creates(r) /\ ~Saves(r) /\ ~InsertConnection(r)
    <3>1. Saves(r) => pc'[r] \in RefreshLabels
      BY SaveWrites
    <3> QED
      BY <1>3, <3>1 DEF Creates, InsertConnection, Goto, TypeOK, RefreshLabels
  <2>6. pc'[r] # "done"
    BY <1>3 DEF Sole, Working, WorkingLabels, SaveLabels, RefreshLabels
  <2>7. CASE CreatePermission(r)
    BY <2>2, <2>7, GrantMoves DEF RefreshLabels
  <2> QED
    BY <1>3, <2>1, <2>3, <2>4, <2>5, <2>6, <2>7, Ends DEF Step, Writes
<1>4. ASSUME NEW r \in Requests, Step(r), pc'[r] = "markSynced"
      PROVE  meta'[conn'[r]].params = loaded'[r].params
  <2>1. CacheMetadata(r)
    <3>1. ~Admits(r)
      <4>1. Admits(r) => pc'[r] \in {"saveUpdate", "markSync", "grant",
                                     "delete", "probe", "plan"}
        BY DEF Admits, Admit, Goto, TypeOK
      <4> QED
        BY <1>4, <4>1
    <3>2. ~Creates(r) /\ ~InsertConnection(r)
      BY <1>4 DEF Creates, InsertConnection, Goto, TypeOK
    <3>3. ~Saves(r)
      BY <1>4, SaveWrites DEF RefreshLabels
    <3>4. ~Reads(r)
      BY <1>4, ReadMoves
    <3> QED
      BY <1>4, <3>1, <3>2, <3>3, <3>4, Ends, GrantMoves DEF Step, Writes
  <2> QED
    BY <2>1, CacheWrites DEF TypeOK
<1>5. ASSUME NEW s \in Requests, Step(s) PROVE SoleInv'
  <2>1. ASSUME NEW r \in Requests, NEW q \in Requests,
               Sole(r)', Working(q)', conn'[q] = conn'[r], q # r
        PROVE  FALSE
    <3>1. CASE r = s \/ q = s
      BY <1>2, <1>5, <2>1, <3>1 DEF Sole
    <3>2. CASE r # s /\ q # s
      <4>1. /\ Sole(r) /\ conn'[r] = conn[r]
            /\ Working(q) /\ conn'[q] = conn[q]
        BY <1>1, <1>5, <2>1, <3>2, StepFrame DEF OthersUnchanged, Working
      <4> QED
        BY <1>0, <2>1, <4>1
    <3> QED
      BY <3>1, <3>2
  <2>2. ASSUME NEW r \in Requests, Sole(r)',
               pc'[r] \notin RefreshLabels \cup {"insert"}
        PROVE  conn'[r] \in conns' /\ loaded'[r] = row'[conn'[r]]
    <3>1. CASE r = s
      BY <1>3, <1>5, <2>2, <3>1
    <3>2. CASE r # s
      BY <1>1, <1>5, <2>2, <3>2 DEF SoleInv
    <3> QED
      BY <3>1, <3>2
  <2>3. ASSUME NEW r \in Requests, Sole(r)', pc'[r] = "markSynced"
        PROVE  meta'[conn'[r]].params = loaded'[r].params
    <3>1. CASE r = s
      BY <1>4, <1>5, <2>3, <3>1
    <3>2. CASE r # s
      BY <1>1, <1>5, <2>3, <3>2 DEF SoleInv
    <3> QED
      BY <3>1, <3>2
  <2> QED
    BY <2>1, <2>2, <2>3 DEF SoleInv
<1>6. CASE UNCHANGED vars
  BY <1>6 DEF vars, SoleInv, Sole, Working
<1> QED
  BY <1>5, <1>6, Steps

\* Without an overlap a commit writes the row as the handler has changed it.
LEMMA SoleSave ==
    ASSUME TypeOK, RowsInv, NEW r \in Requests, HandlerAt(r), SoleInv,
           Saves(r), conn[r] \notin overlapped
    PROVE  loaded[r] = row[conn[r]] /\ row'[conn[r]] = change[r]
<1>1. Sole(r) /\ pc[r] \in SaveLabels
  BY SaveWrites DEF Sole
<1>2. loaded[r] = row[conn[r]]
  BY <1>1 DEF SoleInv, SaveLabels, RefreshLabels
<1> QED
  BY <1>2, SaveWrites

\* On a connection that was not overlapped "connected" is written for the
\* parameters the test proved, and an update resets it.
LEMMA TestedStep ==
    ASSUME TypeOK, RowsInv, \A r \in Requests : HandlerAt(r) /\ ChangeAt(r),
           SoleInv, ConnectedMeansTested, [Next]_vars
    PROVE  ConnectedMeansTested'
<1> DEFINE Tested(c) == row[c].status = "connected" =>
                            /\ row[c].params \in verified[c]
                            /\ owner[c].kind = Postgres
<1>1. ASSUME NEW r \in Requests, Step(r), NEW c \in conns \ overlapped,
             row'[c] = row[c]
      PROVE  Tested(c)'
  <2>1. Tested(c) /\ c \in Conns
    BY DEF ConnectedMeansTested, TypeOK
  <2>2. owner'[c] = owner[c] /\ verified[c] \subseteq verified'[c]
    BY <1>1, <2>1, OwnerStays, StepFrame
  <2> QED
    BY <1>1, <2>1, <2>2
<1>2. ASSUME NEW r \in Requests, Step(r), NEW c \in conns' \ overlapped'
      PROVE  Tested(c)'
  <2>1. c \in Conns /\ c \notin overlapped
    BY <1>2, TypeStep, StepFrame DEF TypeOK
  <2>2. CASE ~Writes(r)
    BY <1>1, <1>2, <2>1, <2>2, StepFrame
  <2>3. CASE Writes(r) /\ c # conn[r]
    BY <1>1, <1>2, <2>1, <2>3, WritesOwn
  <2>4. CASE Saves(r) /\ c = conn[r]
    <3>1. /\ loaded[r] = row[c] /\ row'[c] = change[r] /\ c \in conns
          /\ pc[r] \in SaveLabels /\ UNCHANGED <<owner, verified>>
      BY <2>1, <2>4, SoleSave, SaveWrites
    <3>2. Tested(c) /\ ChangeAt(r)
      BY <2>1, <3>1 DEF ConnectedMeansTested
    <3> QED
      BY <2>4, <3>1, <3>2 DEF ChangeAt, SaveLabels
  <2>5. CASE InsertConnection(r) /\ c = conn[r]
    <3>1. pc[r] = "insert" /\ row'[c] = change[r]
      BY <2>1, <2>5 DEF InsertConnection, TypeOK
    <3>2. change[r].status = "pending"
      BY <3>1 DEF HandlerAt
    <3> QED
      BY <3>1, <3>2
  <2>6. CASE DeleteConnection(r) /\ c = conn[r]
    BY <1>2, <2>6 DEF DeleteConnection
  <2>7. CASE CacheMetadata(r) \/ CreatePermission(r)
    BY <1>1, <1>2, <2>1, <2>7 DEF CacheMetadata, CreatePermission
  <2> QED
    BY <2>2, <2>3, <2>4, <2>5, <2>6, <2>7 DEF Writes
<1>3. CASE UNCHANGED vars
  BY <1>3 DEF vars, ConnectedMeansTested
<1> QED
  BY <1>2, <1>3, Steps DEF ConnectedMeansTested

\* On a connection that was not overlapped "completed" is written for the
\* parameters the metadata came from, and an update resets it.
LEMMA SyncedStep ==
    ASSUME TypeOK, RowsInv, \A r \in Requests : HandlerAt(r) /\ ChangeAt(r),
           SoleInv, SyncedMeansCurrent, [Next]_vars
    PROVE  SyncedMeansCurrent'
<1> DEFINE Current(c) == row[c].sync = "completed" =>
                             meta[c].params = row[c].params
<1>1. ASSUME NEW r \in Requests, NEW c \in conns \ overlapped,
             row'[c] = row[c], meta'[c] = meta[c]
      PROVE  Current(c)'
  BY <1>1 DEF SyncedMeansCurrent
<1>2. ASSUME NEW r \in Requests, Step(r), NEW c \in conns' \ overlapped'
      PROVE  Current(c)'
  <2>1. c \in Conns /\ c \notin overlapped
    BY <1>2, TypeStep, StepFrame DEF TypeOK
  <2>2. CASE ~Writes(r)
    BY <1>1, <1>2, <2>1, <2>2, StepFrame
  <2>3. CASE Writes(r) /\ c # conn[r]
    BY <1>1, <1>2, <2>1, <2>3, WritesOwn
  <2>4. CASE Saves(r) /\ c = conn[r]
    <3>1. /\ loaded[r] = row[c] /\ row'[c] = change[r] /\ c \in conns
          /\ Working(r) /\ pc[r] \in SaveLabels /\ UNCHANGED meta
      BY <2>1, <2>4, SoleSave, SaveWrites
    <3>2. Current(c) /\ ChangeAt(r)
      BY <2>1, <3>1 DEF SyncedMeansCurrent
    <3>3. pc[r] = "markSynced" => meta[c].params = loaded[r].params
      BY <2>1, <2>4, <3>1 DEF SoleInv, Sole
    <3> QED
      BY <2>4, <3>1, <3>2, <3>3 DEF ChangeAt, SaveLabels
  <2>5. CASE InsertConnection(r) /\ c = conn[r]
    <3>1. pc[r] = "insert" /\ row'[c] = change[r]
      BY <2>1, <2>5 DEF InsertConnection, TypeOK
    <3>2. change[r].sync = "pending"
      BY <3>1 DEF HandlerAt
    <3> QED
      BY <3>1, <3>2
  <2>6. CASE DeleteConnection(r) /\ c = conn[r]
    BY <1>2, <2>6 DEF DeleteConnection
  <2>7. CASE CacheMetadata(r) /\ c = conn[r]
    <3>1. /\ Sole(r) /\ pc[r] = "cache" /\ row' = row
          /\ meta'[c].params = loaded[r].params
      BY <2>1, <2>7, CacheWrites DEF Sole, TypeOK
    <3>2. loaded[r] = row[c]
      BY <2>7, <3>1 DEF SoleInv, RefreshLabels
    <3> QED
      BY <3>1, <3>2
  <2>8. CASE CreatePermission(r)
    BY <1>1, <1>2, <2>1, <2>8 DEF CreatePermission
  <2> QED
    BY <2>2, <2>3, <2>4, <2>5, <2>6, <2>7, <2>8 DEF Writes
<1>3. CASE UNCHANGED vars
  BY <1>3 DEF vars, SyncedMeansCurrent
<1> QED
  BY <1>2, <1>3, Steps DEF SyncedMeansCurrent

-----------------------------------------------------------------------------
(* The inductive invariant, and what it implies.                           *)

\* Before any request there is nothing the invariant could be wrong about.
LEMMA ConnInit == Init => ConnInv
<1> SUFFICES ASSUME Init PROVE ConnInv
  OBVIOUS
<1>1. ASSUME NEW r \in Requests
      PROVE  pc[r] = "idle" /\ conn[r] = NoConn /\ resp[r] = 0 /\ ~Working(r)
  BY DEF Init, Working, WorkingLabels, SaveLabels, RefreshLabels
<1>2. conns = {} /\ \A c \in Conns : meta[c] = NoMetadata /\ perms[c] = {}
  BY DEF Init
<1>3. \A r \in Requests : HandlerAt(r) /\ ChangeAt(r)
  BY <1>1 DEF HandlerAt, ChangeAt
<1>4. NoDanglingMetadata
  BY <1>2 DEF NoDanglingMetadata, NoMetadata
<1>5. SoleInv
  BY <1>1 DEF SoleInv, Sole
<1>6. RowsInv /\ NamesAreUnique /\ SubjectsBelongToTenant /\ AttendedInv
  BY <1>2 DEF RowsInv, NamesAreUnique, SubjectsBelongToTenant, AttendedInv
<1>7. ConnectedMeansTested /\ SyncedMeansCurrent
  BY <1>2 DEF ConnectedMeansTested, SyncedMeansCurrent
<1> QED
  BY <1>3, <1>4, <1>5, <1>6, <1>7, TypeInit DEF ConnInv

\* Every step keeps the invariant, part by part.
LEMMA ConnStep == ConnInv /\ [Next]_vars => ConnInv'
<1> SUFFICES ASSUME ConnInv, [Next]_vars PROVE ConnInv'
  OBVIOUS
<1> USE DEF ConnInv
<1>1. TypeOK' /\ RowsInv'
  BY TypeStep, RowsStep
<1>2. \A r \in Requests : HandlerAt(r)' /\ ChangeAt(r)'
  BY HandlerStep, ChangeStep
<1>3. NamesAreUnique' /\ NoDanglingMetadata' /\ SubjectsBelongToTenant'
  BY NamesStep, MetadataStep
<1>4. AttendedInv' /\ SoleInv'
  BY AttendedStep, SoleStep
<1>5. ConnectedMeansTested' /\ SyncedMeansCurrent'
  BY TestedStep, SyncedStep
<1> QED
  BY <1>1, <1>2, <1>3, <1>4, <1>5

\* The inductive invariant of the runtime connections holds in every reachable
\* state: what a handler holds of the row across its awaits, what its commit
\* will write, and who answers for a row that is shown as being synchronised.
THEOREM ConnInvariant == Spec => []ConnInv
BY ConnInit, ConnStep, PTL DEF Spec

\* Rows, metadata, permissions and the copies in sessions keep their types:
\* no handler assigns to, or commits, a row it has not loaded.
THEOREM ConnectionTypeCorrect == Spec => []TypeOK
<1>1. ConnInv => TypeOK
  BY DEF ConnInv
<1> QED
  BY <1>1, ConnInvariant, PTL

\* Connection names are unique within a tenant, whatever creates and updates
\* run between the look-up of a name and the commit that takes it.
THEOREM NamesStayUnique == Spec => []NamesAreUnique
<1>1. ConnInv => NamesAreUnique
  BY DEF ConnInv
<1> QED
  BY <1>1, ConnInvariant, PTL

\* No sync or grant leaves metadata of a connection that is gone, or a
\* permission on tables that are gone, however it races deletes and syncs.
THEOREM MetadataNeverDangles == Spec => []NoDanglingMetadata
<1>1. ConnInv => NoDanglingMetadata
  BY DEF ConnInv
<1> QED
  BY <1>1, ConnInvariant, PTL

\* The subjects of table permissions are of the tenant of the connection
\* (validate_permission_subject), also when the grant is committed later.
THEOREM SubjectsAreTenantsOwn == Spec => []SubjectsBelongToTenant
<1>1. ConnInv => SubjectsBelongToTenant
  BY DEF ConnInv
<1> QED
  BY <1>1, ConnInvariant, PTL

\* "processing" is never left behind by a synchronisation that answered
\* anything but a server error: the last sync to write it has loaded it, so
\* that the end it writes differs from what it loaded and is flushed.
THEOREM RunningSyncsAreAttended == Spec => []RunningSyncIsAttended
<1>1. ConnInv => RunningSyncIsAttended
  <2> SUFFICES ASSUME ConnInv, NEW c \in conns, row[c].sync = "processing"
               PROVE  \E r \in Requests :
                          /\ conn[r] = c
                          /\ Working(r) \/ r \in faulted \/ resp[r] = 500
    BY DEF RunningSyncIsAttended
  <2>1. PICK r \in Requests : conn[r] = c /\ Attends(r)
    BY DEF ConnInv, AttendedInv
  <2>2. Working(r) \/ r \in faulted \/ resp[r] = 500
    BY <2>1 DEF Attends, Working, WorkingLabels, SaveLabels, RefreshLabels
  <2> QED
    BY <2>1, <2>2
<1> QED
  BY <1>1, ConnInvariant, PTL

\* As long as the requests on a connection have not overlapped, "connected"
\* is said of parameters that passed a test (test_stored_database_connection).
THEOREM ConnectedIsTested == Spec => []ConnectedMeansTested
<1>1. ConnInv => ConnectedMeansTested
  BY DEF ConnInv
<1> QED
  BY <1>1, ConnInvariant, PTL

\* As long as the requests on a connection have not overlapped, "completed" is
\* said of metadata discovered with the parameters in the row.
THEOREM SyncedIsCurrent == Spec => []SyncedMeansCurrent
<1>1. ConnInv => SyncedMeansCurrent
  BY DEF ConnInv
<1> QED
  BY <1>1, ConnInvariant, PTL
=============================================================================
