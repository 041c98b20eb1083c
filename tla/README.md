# Verification of the multi-tenant data chat platform

TLA+ modules, TLC configurations and TLAPS proofs kept beside the code. The
platform is a FastAPI application: tenants upload documents that are chunked and
embedded for semantic search, register their own databases, grant users
permissions on the tables found there, and ask questions that are answered from
documents, from those databases, or from both.

1. [Inventory](#1-inventory)
2. [Modules and the code they model](#2-modules-and-the-code-they-model)
3. [Runs, bounds and fairness](#3-runs-bounds-and-fairness)
4. [Proofs](#4-proofs)
5. [Findings](#5-findings)
6. [Not modelled, and the plan](#6-not-modelled-and-the-plan)

## 1. Inventory

Nothing is shared between two HTTP requests but the platform's PostgreSQL, the
object store (MinIO) and the tenants' own databases. Each request has a
SQLAlchemy `AsyncSession` of its own (`db/session.py`), runs until it answers, and
lets other requests run at every `await`. There is no background worker, no
retry, no job table: what a handler does not finish, nobody does.

| Component | State | Operations | Hard behaviour |
|---|---|---|---|
| Document pipeline (`services/document/*`, `repositories/documents.py`) | `documents`, `document_chunks`, MinIO objects | upload, process, embed | three stores written in several commits; overlapping requests on one document; failures between commits |
| Text chunker (`text_chunker.py`) | the loop's `start`, chunk list | `split_text_with_overlap`, numbering | off-by-one at boundaries, termination, lost text |
| Runtime connections (`services/database/connection_service.py`, `connection_tester.py`) | `database_connections` | create, update, delete, test | the row is read before a remote probe and written after it; cached `connection_status` |
| Schema synchronisation (`schema_sync_service.py`, `schema_discovery.py`, `metadata_cache.py`) | `database_schemas/_tables/_columns`, `schema_sync_status` | sync | delete-and-insert in one transaction, after a slow discovery; cascades |
| Table permissions (`permission_service.py`) | `table_permissions` | grant | refers to metadata a synchronisation may replace |
| Effective permissions (`effective_permission_service.py`) | none | merge of direct and role permissions | masks and row filters of several grants on one table |
| Query validation, row filters, execution (`query_validator.py`, `row_filter_service.py`, `query_security_service.py`, `query_executor.py`) | none | validate, inject filters, validate again, execute, mask | composition of checks over nested SQL |
| Secure query gate (`secure_query_service.py`) | none | query | checks a status another request may have made stale |
| Knowledge bases, retrieval | `knowledge_bases` | create, list, search | search sees chunks a process request is replacing |
| Chat (`services/chat/*`, `repositories/messages.py`, `repositories/conversations.py`) | `conversations`, `messages`, `query_executions`, `message_citations` | create a conversation, send a message in one of three modes, list | evidence is gathered across awaits and stored later; chunks and connections may be gone by then; several commits per request |
| Audit log | `audit_logs` | record, list | recorded in a transaction after the exchange, on some paths and not on others |
| Authentication (`auth_service.py`, `core/security.py`, `app/dependencies.py`) | `users`, stateless tokens | log in | none: no endpoint changes what a token is checked against |

How they interact: the document pipeline calls the chunker between its
`processing` and `chunked` commits; retrieval and the chats read the chunks it
stores; a query needs a connection that was tested, permissions that refer to
metadata a synchronisation cached; the chats call the query gate and retrieval
and write their own rows after them.

What makes each modelled component correct:

* *Document pipeline*: what a client was told is stored is stored; object store and
  table agree; the status never promises more than the chunk rows hold; a
  transitional status is always somebody's business; a caller only ever touches
  documents of the own tenant; errors of the environment do not become server
  errors unless the platform's own database failed or a parser's exception
  escapes.
* *Chunker*: no text is lost, chunks are legal for the table they go to, the loop
  ends.
* *Connections*: names are unique per tenant; statuses speak of the parameters in
  the row; metadata and permissions live and die with what they refer to.
* *Chat*: an exchange is stored whole, with exactly the evidence its answer was
  built from, or not at all; what the client is told agrees with what is stored;
  links to chunks, executions and connections never dangle; a conversation is
  its user's own.
* *Query security*: wherever the names of a statement have one reading, what is
  executed uses only what some permission read for the request grants and carries
  the row filters of every permission; it has a bounded limit; output columns with
  the name of a masked column are masked; the order of rows and the moment of the
  reads make no difference.

The hazards, each at its line and with the properties aimed at it, are in
`PROJECT.json`.

## 2. Modules and the code they model

`PROJECT.json` maps every definition to its source lines. The conventions:

* A **request** is an element of `Requests` with a program counter `pc[r]`. One
  action is what the handler does from one point where another request can
  observe or disturb it to the next: a commit, a statement outside a commit that
  locks or reads, a call of MinIO or of a remote database. The reads and checks
  before the first write are one action (`...Accepted` or `...Rejected`): they write
  nothing, and the only value they carry forward is the one modelled as `loaded`.
* The database is **READ COMMITTED**, PostgreSQL's default, which `db/session.py`
  does not change.
* The **unit of work**: SQLAlchemy writes only those attributes of an object that
  differ from the values the session loaded, so the handler's `loaded` copy
  decides what a commit changes (`Flushed`). `session.rollback()` expires the
  attributes (`Expired`), so that the next assignment is written in any case.
  `save_document_record` and `save_connection` commit and then refresh: two steps.
* A **fault** is a statement or commit of the platform's database that raises, or
  the death of the worker. `MaxFaults` bounds how many requests meet one; the
  history variable `faulted` remembers which. Errors of MinIO, of a remote
  database, of extraction and of the embedding model are not faults: they may
  happen in any request at any time, and the code handles them, with one
  exception (`ExtractRaises` below).
* The history variable `overlapped` remembers the documents (connections) two
  requests have worked on at once. It guards nothing; it lets a property say
  "unless requests have overlapped".
* Definitions commented `Mutant:` are not used by any specification. Each is a
  plausible bug in the definition it precedes, and shows that a property would
  notice it.

### DocumentPipeline

| Variable | Code |
|---|---|
| `rows`, `columns`, `state` | table `documents`: which rows exist, their fixed columns, `status` and `chunk_count` |
| `chunks` | table `document_chunks`. The rows of a document are deleted and inserted together (`replace_document_chunks`), so they are one generation: the process request that wrote them, and whether `embedding` is set |
| `objects` | MinIO |
| `pc`, `user`, `doc`, `loaded`, `seen`, `resp` | local state of `upload_document`, `process_document`, `embed_document_chunks` and of their sessions, and the HTTP status the route answers |

Upload: `UploadAccepted` (checks, `uuid4`), `StoreObject`, `InsertDocument`,
`UploadRefresh`, with `StoreObjectFails` (the put may have been carried out),
`InsertFails` and `Compensate` (`delete_object`, whose error is swallowed).
Process: `MarkProcessing`, `ProcessRefresh`, `Extract`, `DeleteChunks`,
`InsertChunks`, `MarkChunked`. The unique constraint on (document, index) makes a
request that deleted an older generation fail (`InsertChunksConflict`). The first
and the last commit are outside the `try` block (`MarkTransitionalFails`,
`MarkChunkedFails`). Inside it four types of exceptions are caught and end in
`mark_document_failed`, whose own failure is swallowed (`MarkFailedFails`). The
extractors wrap what a library raises on opening a file, but not on walking
through it (the pages of a PDF, the paragraphs and tables of a Word file, the cells
of an xls sheet): such an exception is none of the four, the client gets a 500 and
the row stays `processing` (`ExtractRaises`). `Unparsable` are the contents that
make a parser do so, and `Escaped` is what the properties call a request that
met a fault or this.
Embed: `ListChunks`, `MarkEmbedding`, `EmbedRefresh`, `GenerateEmbeddings` (in a
thread), `SaveEmbeddings`, `SavedRefresh`. Chunks that were replaced meanwhile match
no `UPDATE`: no effect, or `StaleDataError` where the driver reports the row count;
both are modelled.

`list_document_chunks` awaits a `select()` that was never given to the session and
raises `TypeError` on every call (finding 2). `ListChunksExecutes = FALSE` is the
code as it stands; with `TRUE` the rest of the embedding service, written for a
call that works, can be checked as well.

Abstracted: `page_count` and `processing_message`; file types and sizes (the
Boolean `valid`); what a file yields (`ChunkTotal`); SHA-256 is injective. MinIO's
client (`services/storage`) is not part of the repository and is modelled from its
calls.

### TextChunker

One action per turn of the `while` loop of `split_text_with_overlap`; `Check`,
`BeginSection`, `SkipSection`, `Finish` are the code around it
(`chunk_extracted_document`). Characters are reduced to the five kinds the code
tells apart. The code strips the text first; positions here refer to the text
before that, with `lo` and `hi` around what is left. `strip()` and `rfind()` are
described by what they return (`Stripped`, `Last`). The window of 150 characters
in which a boundary is looked for is the constant `Window`.

### RuntimeConnections

| Variable | Code |
|---|---|
| `conns`, `owner`, `row` | table `database_connections` |
| `meta` | the cached schemas, tables and columns, replaced as a whole by `cache_discovered_metadata`: the sync that wrote them and the parameters they came from |
| `perms` | `table_permissions`: their subjects; rows go with the table they refer to (`ON DELETE CASCADE`) |
| `loaded`, `change`, `seen` | the session's copy, the values assigned to it, the metadata a grant looked at |
| `verified` | history: parameters a test has proved good |

Create and update look a name up before they write it, and the unique constraint
decides (`InsertConflict`, `SaveUpdateConflict`). A test (`TestAccepted`, `Probe`,
`SaveTest`) and a synchronisation (`SyncAccepted`, `MarkSync`, `SyncRefresh`, `Discover`,
`ClearMetadata`, `CacheMetadata`, `MarkSynced`) work on the copy they loaded, across
awaits on a remote database. No handler of this component catches
`SQLAlchemyError`, and a synchronisation catches `SchemaDiscoveryError` only.
A grant commits (`CreatePermission`) and then refreshes its row (`GrantRefresh`),
which a synchronisation may have deleted by then: a 500 for a permission that was
stored.
A query is the gate in front of the executor: the connection's checks, a plan
that needs a permission, the execution's outcomes.

Abstracted: host, port, credentials and the other parameters are one value,
complete or not; a source has at least one schema; timestamps are the request
that wrote them; a permission is its subject on the one table set of a
connection.

### ChatExchange and ExchangeLedger

| Variable | Code |
|---|---|
| `convs` | table `conversations`: user, mode, connection and knowledge base |
| `messages`, `exec`, `dbcite`, `cited`, `link` | tables `messages`, `query_executions`, `message_citations`: what is stored of the exchange a request makes. A chunk is its document and the generation of the document's chunk rows; `link` is `document_chunk_id`, 0 for NULL |
| `audit` | table `audit_logs` |
| `conns`, `gen`, `embedded` | what the chats see of the other components: whether a connection can be used, the generation of a document's chunks, whether they can be found |
| `copy`, `matches`, `code`, `page`, `shown` | the conversation row the session loaded, the chunks the search returned, the code of the query that failed, what a listing has read |
| `ran`, `faulted` | history: queries the remote database answered; requests that met a database fault or a crash |

A conversation is created by `CreateConversation` (the checks), `InsertConversation`
(the commit) and `RefreshConversation`. A message goes through `CreateMessage` (the look-up and the checks on the mode),
`SecureQuery`, `ExecuteQuery` or one of their failures, `RetrieveRelevantChunks`,
`SaveExchange`, `RefreshExchange` and, in the hybrid mode, `RecordAuditEvent` and
`RefreshAudit`; a mode leaves out what it does not do. A failed query is saved by
`SaveFailedExecution`. All rows of an exchange become visible in one commit; the
foreign keys refuse it if a connection or a cited chunk is gone
(`SaveExchangeConflict`), and lock what they refer to, so the flushes before the commit
are part of the same step. After the commit a deleted connection takes the
execution with it, and the refresh of that row raises
(`RefreshExchangeMissing`): the client gets a 500 although the exchange is stored.

`ReplaceChunks`, `EmbedDocument`, `UpdateConnection` and `DeleteConnection` are the
steps of DocumentPipeline and RuntimeConnections that the chats can notice, with
the cascades of the chats' own tables. `embedded` presupposes that documents can be
embedded at all (finding 2). No endpoint deletes or disables a knowledge base, so
those branches of the checks cannot be taken and are left out. The routes catch
neither a missing connection nor a plain `ValueError` nor the `TokenError` of a
statement that cannot be tokenized, and answer 500 (`SecureQueryRaises`).

`ExchangeLedger` is what the endpoints promise together: per exchange, nothing or
both messages are stored, once, and never changed; the client is told "created"
only if they are and "refused" only if they are not; only a server error, or none
at all, leaves the client in doubt. `ImplementsLedger` maps the tables and the
status codes to it.

### QuerySecurity

One request's statement on its way to the remote database.

| Variable | Code |
|---|---|
| `granted`, `perms` | `table_permissions` and `column_permissions` of the user and the user's roles |
| `rows`, `columns`, `merged` | `readable_permission_rows`, the rows whose columns the second statement returned, the turns of the merge loop taken |
| `tables`, `rowFilters`, `readable`, `filterable`, `aggregable`, `mask` | `AllowedSchema` |
| `proposed`, `stmt`, `injected`, `flag`, `masked` | the SQL as proposed and as it is now, the filters injected, `row_filters_applied`, the masks on the output columns |

`ReadPermissions` and `ReadColumns` are two statements of one READ COMMITTED
transaction: other requests grant (`GrantPermission`) or synchronise (`Synchronise`)
between them. `MergePermission(p)` is one turn of the loop; as the query orders
the rows by schema and table only, any row that was read may be next.
`DropEmptyTables(s)` ends the merge and takes up the statement `s`. Then come
`InitialValidation`, `InjectRowFilters`, `FinalValidation` and `ExecuteQuery`; each of
the first three may reject, the last may fail.

A statement is the set of its table references (block, schema, name, alias, and
their order), its column references with qualifier and use (in a `WHERE`, `HAVING`
or `JOIN`; in an aggregate), its limit, whether there is a star, the names of its
common table expressions and of its output columns. `form` tells one query that
only reads from what is refused, and from what cannot be tokenized: only
`ParseError` is caught, so the latter leaves the request as an exception (`raised`).
Names are resolved as the code does it:

* `Lower` is `str.lower()`. A reference with a schema is looked up in lower case
  among the names as discovered; a bare one is compared in lower case on both
  sides (`AllowedMatches`). The database does neither for quoted names.
* A reference named like a common table expression is not checked, with a schema
  or without (`CheckedReferences`).
* `TableLookup` is the dictionary `table_lookup`: names and aliases of all blocks,
  where the last entry stays. A bare column is looked for in all tables of the
  statement (`ColumnMatches`).
* References inside a common table expression get no filter
  (`FilteredReferences`); an injected column is named by the reference's alias or
  name, unquoted (`FilterColumn`).
* Masks go by the name of the output column, over the whole allowed schema
  (`MasksOf`, `ColumnMasks`, `ExecuteQuery`).

`MayDenote` and `MayRead` are not code: they are every table and column the remote
database might take a name for, whatever its search path and the scope of an
alias. The properties that compare what is executed with what is permitted speak
of names for which that is one table or column (section 5 says what is left).

## 3. Runs, bounds and fairness

| Run | Instance | Shows |
|---|---|---|
| `documents_tenants` | 2 tenants, 3 users, 2 knowledge bases, 3 contents (one without text, one the parser raises on), 2 documents, 3 requests, 1 fault; embed as it stands | `TenantIsolation`, `RowsAndObjectsAgree` |
| `documents_overlap` | 1 document, 2 contents (one the parser raises on), 4 requests, 2 faults; embed as intended | `AcknowledgedUploadIsStored`, `ChunkedHasChunks`, `TransitionalIsAttended`, `ServerErrorOnlyAfterFault`, `RowMatchesChunks`, `ControlledErrorMarksFailed` |
| `documents_liveness` | 1 document, 2 contents as above, 4 requests, no fault | `AdmittedIsAnswered`, `TransitionalIsLeft` |
| `documents_duplicate` | 2 documents, 2 requests | violates `NoDuplicateDocuments` (finding 1) |
| `documents_embed_error` | 1 document, 3 requests | violates `ServerErrorOnlyAfterFault` (finding 2) |
| `connections_names` | 2 tenants, 3 users, 2 connections, supported and unsupported database, 3 requests, 1 fault | `NamesAreUnique`, `SubjectsBelongToTenant` |
| `connections_overlap` | 1 connection, complete and incomplete parameters, 4 requests that overlap (3 with a fault) or 5 that do not | `RunningSyncIsAttended`, `NoDanglingMetadata`, `ConnectedMeansTested`, `SyncedMeansCurrent` |
| `connections_untested` | 1 connection, 2 hosts, 4 requests | violates `QueryTargetWasTested` (finding 3) |
| `connections_resync` | 1 connection, 4 requests | violates `ResyncKeepsPermissions` (finding 4) |
| `chunker_text` | every section of up to 5 characters, every document of up to 2 sections of up to 2 characters, sizes 0..4, overlaps -1..4, window 2 | `NoTextLost`, `ChunksRespectMaximumSize`, `IndicesAreConsecutive`, `LoopAdvances`, `Terminates` |
| `chat_exchanges` | 2 tenants, 3 users, 1 connection, 1 knowledge base with 2 documents whose chunks are replaced once, 1 conversation, 3 requests, 1 fault | `ExchangeIsWhole`, `EvidenceNeverDangles`, `QueriesAreOnRecord`, `HybridExchangeIsAudited`, `ConversationIsPrivate`, `ListedAnswersAreCited`, and the refinement `ImplementsLedger` |
| `query_security` | 4 tables in 2 schemas, three of one name in lower case; 7 columns; 3 permissions out of 10 contents; 45 statements; row limit 3 | `SchemaIsOneSnapshot`, `ExecutedIsPermitted`, `RowFiltersAreInjected`, `LimitIsBounded`, `MaskedIfAnyGrantMasks` |

Why the bounds are enough. A request is served once, so their number bounds a
history. A document needs one upload before anything can disturb it, and the
disturbances are pairs: two process requests, a process and an embed request, a
retry after a failure; four requests are an upload and three more. It takes five
requests to get from a new connection to a query (create, test, synchronise,
grant, query); the constraint `OverlapBound` admits the fifth only where no two have
overlapped, and keeps overlapping histories with a fault to three requests. One document
is enough where the handlers meet in one document only; two are needed for
duplicates and tenants. Two faults let a failure be followed by a failing retry.
The chunker's code compares positions at most `Window` and `chunk_size` apart: five
characters with a window of two hold a boundary before, in and after the window,
at the target and at the end of the text. A document of one section may be
longer (`MaxLength`) than the sections of a document of several (`MaxShort`), since
only the numbering spans sections. In the chats one request creates the
conversation, and two more are two exchanges, or an exchange and a listing, that
overlap with each other and with what happens to the connection and the chunks;
two generations are a chunk that was found and is gone. In QuerySecurity three
permissions let two rows of one table be merged in either order beside a row of
another; the contents hold every flag both ways, two masks, a filter on a column
that is hidden, one on a column of another table and one that cannot be built;
the statements hold bare, qualified and ambiguous names, names that differ in
case, a system schema, a join, a subquery whose alias is or is not that of the
outer table, a common table expression named like a table that is referenced with
and without its schema, outputs under the column's name, that name in another
case and another name, and limits at and around the bound. So the cases the
properties except are reached, too.

Requests, documents, connections, names and permissions are interchangeable, and
symmetry is used in every run without liveness properties (masks are not: the
permission contents tell them apart).

*Deadlock* is checked in all runs; `Terminated` is the stuttering of a system
whose requests are all answered.

*Fairness.* `FairSpec` of DocumentPipeline is weak fairness of `Serve(r)`, the next
step of an admitted handler: the event loop resumes every coroutine whose await
has completed, and database, object store and embedding calls return or raise. No
fairness makes a client send a request, and none makes a fault happen. In
TextChunker it is weak fairness of the loop, a computation that does not wait for
anything. RuntimeConnections, ChatExchange and QuerySecurity have no liveness
property: their handlers are straight lines between answers.

## 4. Proofs

Five modules hold the theorems, one per component: `DocumentPipelineProofs`,
`TextChunkerProofs`, `RuntimeConnectionsProofs`, `ChatExchangeProofs` and
`QuerySecurityProofs`. They are proved for any number of requests, documents, tenants,
connections, conversations, faults, characters, sections, permissions, tables and
statements, and rest on the `ASSUME`s of the modules alone (`ConstantsAssumption`:
users, connections and knowledge bases belong to tenants, table names are unique
within a schema and column names within a table, lower-casing twice is
lower-casing once, the row limit is positive, PostgreSQL is one of the kinds of
databases, the null values are not members of the sets they stand beside;
`BoundsAssumption`: the bounds are natural numbers). Every inductive invariant was
checked with TLC on the instances of section 3 before it was proved.

| Theorem | Property | Inductive invariant |
|---|---|---|
| `TypeCorrect` | `TypeOK` | `TypeInv`: also, a handler at work has a document with its columns, or the number of its chunks would not be a number |
| `StatusNeverAhead` | `ChunkedHasChunks` | `ChunksInv`: also, a handler about to write such a status (or to leave it out of the `UPDATE`) works on a document whose chunks are stored; no step takes stored chunks away |
| `NoneStranded` | `TransitionalIsAttended` | `AttendInv`: the handler that attends a document has not merely not finished, it *will write*: it is about to load the status, or has loaded one that differs from what it writes next, or its attributes are expired. Without the clause on the loaded value the invariant is not inductive, as the unit of work could leave the status out of the last `UPDATE`. Or it is one a fault or the parser's exception escaped from (`Escaped`), which stays so |
| `UploadsAreStored`, `StoresAgree` | `AcknowledgedUploadIsStored`, `RowsAndObjectsAgree` | `UploadInv`: one uploader per document, object before row, compensation after a fault only, nothing exists that nobody drew |
| `TenantsAreIsolated` | `TenantIsolation` | inductive with `TypeInv` |
| `RowTellsTheTruth` | `RowMatchesChunks` | `RowInv`, with `ChunksInv` and `UploadInv`: a document that was not overlapped has one handler at most (`SoleHandler`), and that handler's loaded copy is the row, its status the one it wrote and the chunks it listed the ones that are there (`InStep`); then a commit that writes only what differs still leaves what the handler assigned (`FlushInStep`) |
| `FailureIsRecorded` | `ControlledErrorMarksFailed` | action property, from `RowInv`: what the session had loaded when it comes to `mark_document_failed` is the row or expired |
| `ServerErrorsAreFaults` | `ServerErrorOnlyAfterFault` | with `UploadInv` (an upload compensates after a fault only); a fault, a crash or the parser's exception are the only causes. Proved for `ListChunksExecutes`; as the code stands it does not hold (finding 2), and the theorem says that the `await` is the one cause beside them |
| `ChunkerTypeCorrect`, `LoopMovesForward` | `TypeOK`, `LoopAdvances` | `ChunkInv`: inside the loop `start` lies in the stripped text, at most the overlap behind where the last slice ended, and sizes are legal |
| `MaximumSizeRespected`, `IndicesConsecutive` | `ChunksRespectMaximumSize`, `IndicesAreConsecutive` | with `ChunkInv`; a turn appends at most one chunk (`ChunkStep`) |
| `TextIsKept` | `NoTextLost` | with `ChunkInv`; what was covered stays covered, and a slice is covered up to its blanks |
| `SecurityTypeCorrect` | `TypeOK` | `TypeInv`: also, from the first validation on there is a statement |
| `OneSnapshot` | `SchemaIsOneSnapshot` | `SchemaInv`: between the two reads all the rows of the first are there or all are gone (a synchronisation deletes everything, a grant adds a new row), and after each turn of the loop flags, masks, filters and tables are those of the rows merged so far |
| `LimitBounded` | `LimitIsBounded` | `SecurityInv` = `SchemaInv` and what is known of the statement at each stage (`QueryInv`) |
| `ExecutedPermitted` | `ExecutedIsPermitted` | `SecurityInv`: a statement that passed names an allowed table, so that the schema is not the empty one but the union of the snapshot. A match of the validator is among what the database may mean (`MatchesMayDenote`, `MatchesMayRead`), so that where there is one meaning the match is it |
| `FiltersInjected` | `RowFiltersAreInjected` | `SecurityInv`: what was injected is what the statement's references call for, and the second validation sees the injected columns; the column of a rule is the one matched where it has one reading |
| `MaskedAlways` | `MaskedIfAnyGrantMasks` | `SecurityInv`: a column is unmasked only while no merged row masks it, so a name of a masked column is in the dictionary of masks |
| `ConnectionTypeCorrect` | `TypeOK` | `ConnInv`: also, rows are complete and handlers hold rows, so that a commit that mixes columns of the row and of the copy writes a row (`FlushedRow`) |
| `NamesStayUnique` | `NamesAreUnique` | `ConnInv`: a connection that is not inserted yet is known to its request alone; the constraint decides at the commit, the stale look-up plays no part |
| `MetadataNeverDangles`, `SubjectsAreTenantsOwn` | `NoDanglingMetadata`, `SubjectsBelongToTenant` | `ConnInv`: a grant holds the generation it looked at and a subject of the owner's tenant, and the owner of a connection somebody knows does not change |
| `RunningSyncsAreAttended` | `RunningSyncIsAttended` | `AttendedInv`: as for documents, the sync that attends the row has yet to load it, or loaded `processing`, so that the unit of work writes the end of it; `ChangeAt` says what each commit assigns |
| `ConnectedIsTested`, `SyncedIsCurrent` | `ConnectedMeansTested`, `SyncedMeansCurrent` | `SoleInv`: on a connection that was not overlapped there is one handler, its copy is the row until it commits, and before `completed` the metadata are of the parameters it loaded |
| `ChatTypeCorrect` | `TypeOK` | inductive |
| `ExchangesAreWhole`, `EvidenceIsLinked` | `ExchangeIsWhole`, `EvidenceNeverDangles` | `ChatInv`: what is stored of an exchange at each label (`EvidenceAt`), links to rows that exist (`LinksAt`), and a copy of a conversation with what its mode needs (`CopyAt`) |
| `QueriesLeaveARecord` | `QueriesAreOnRecord` | `ChatInv` (`QueryAt`): a query counts as answered only beyond the labels of the query, and a code that is answered is the code stored |
| `HybridExchangesAreAudited` | `HybridExchangeIsAudited` | `ChatInv` (`AuditAt`): the last refresh is reached with the event stored |
| `ConversationsArePrivate` | `ConversationIsPrivate` | `ChatInv` (`ConversationInv`, `TenantAt`): a conversation is unknown to all others until it is inserted, and afterwards the requests that know it are its user's; matches and connection passed the tenant check before anything is stored |
| `ListingsAreComplete` | `ListedAnswersAreCited` | `ChatInv` (`PageInv`): answers on a page are stored, and no step changes what a stored exchange cites (`StoredIsStable`) |
| `EndpointsKeepTheLedger` | `ImplementsLedger` | refinement: the initial states map to those of ExchangeLedger, and every step from a state of `ChatInv` maps to a step of it or a stutter (`LedgerStep`) |

With these every safety property of a passing run, and the refinement, is proved. In
QuerySecurity, RuntimeConnections and ChatExchange there is a lemma per part of the
invariant, with a step per action or kind of action. In QuerySecurity the schema part of the invariant stands alone (`SchemaInvariant`); the
statement part has one lemma per stage (`ValidationStep`, `InjectStep`, `ExecuteStep`),
all of which use that the checks do not depend on the limit (`ChecksKept`).
RuntimeConnections has many actions and few kinds of them: `ArrivalSteps` and
`ServeSteps` sort them into refusals, admissions, reads and writes, and the invariant
is shown for each kind. In ChatExchange a step changes one request, which
`RequestFrame`, `ServeWrites` and `ServeAnswers` state once; a step of another component
changes what requests refer to. In DocumentPipeline the arguments go action by action:
the frame lemmas (`ArriveFrame`, `ServeFrame`, `QuietFrame`) say what an action leaves
alone, and each invariant has a lemma stating what a step has to show to keep it
(`ChunksKept`, `AttendKept`, `RowKept`).

Only model-checked: the liveness properties `AdmittedIsAnswered`, `TransitionalIsLeft`
and `Terminates`, as fairness is out of the prover's reach; and the four
counterexamples of section 5, which are TLC's.

## 5. Findings

1. *Duplicate detection is not atomic* (`document_service.py:99`). The checksum is
   looked up before the upload to MinIO and the insert, and no constraint backs it:
   two overlapping uploads of one file leave two rows, and every later upload of
   the file ends in `MultipleResultsFound`, a 500.
2. *Embedding never works* (`repositories/documents.py:154`). `await select(...)`
   raises `TypeError`; the lifecycle in the README ends at `chunked`.
3. *A test can vouch for parameters it did not test* (`connection_service.py:257`). An
   update that commits during the probe is then marked `connected`, and a query
   passes the gate.
4. *Synchronising again removes all permissions* (`metadata_cache.py:48`), although
   the README calls it idempotent.

Limits of what holds, met while modelling: once process and embed requests on one
document have overlapped, a `completed` document may have no embeddings, and
`chunk_count` may not match; `RowMatchesChunks` and `ControlledErrorMarksFailed`
therefore except such documents, as `ConnectedMeansTested` and `SyncedMeansCurrent` except
such connections. A hybrid request whose retrieval fails after its query was
executed leaves no execution row, and the success event of a database exchange
stands behind a `raise` and is never recorded: `QueriesAreOnRecord` and
`HybridExchangeIsAudited` say exactly what is left. A document whose handler met a database fault in the first or
last commit stays `processing` until somebody processes it again. So does one whose
parser raises while it walks through the file (`text_extractor.py:114`, `127`, `156`,
`186-212`, `296-312`), and there processing again does not help; the README's "On a
controlled processing error, the document status becomes `failed`" holds of the
errors the processor catches, which `ControlledErrorMarksFailed` speaks of.

In QuerySecurity the README's "Unauthorized tables", "Unauthorized columns"
(`README.md:85-86`) and "Applies column masks" (`README.md:74`) are shown with these
limits: a table named like a common table expression of the statement is not
checked, even with a schema; where a name has several readings (an alias used in
two blocks, names that differ in case, a bare name that exists in several schemas)
the validator decides on one that need not be the database's; references inside a
common table expression get no row filter; a masked column that is output under
an alias or in an expression is not masked; a statement that cannot be tokenized
ends in a 500 and not in a rejection. `ExecutedIsPermitted`, `RowFiltersAreInjected` and
`MaskedIfAnyGrantMasks` state what holds of all other names.

## 6. Not modelled, and the plan

Outside: libraries (SQLGlot parsing and printing, Fernet, JWT and password hashing, file
format parsers, the embedding model, MinIO), scripts, settings, and
the placeholder packages (`agents`, `workers`, `services/llm`), which hold no logic.
Of the migrations only the foreign keys matter to the models. Left out because
they change no state and make no decision a model would add to: the list
endpoints other than that of messages, the four masking functions, the
serialisation of values, the redaction of audit metadata, similarity scores.
Authentication is not modelled: tokens are stateless, and no endpoint changes the
status of a user or a tenant or uses a refresh token, so that every model starts
from an authenticated user. Text extraction is the parsing of file formats;
DocumentPipeline keeps whether it yields text, fails with an error that is caught, or
lets an exception escape; TextChunker takes any text.

What is left of the plan:

1. *General facts the proofs could share.* Flushing a row, sole handlers and attended
   statuses occur in DocumentPipeline and RuntimeConnections in the same shape, and
   are stated in each.
2. *A stronger ledger.* ExchangeLedger speaks of messages and statuses; executions and
   citations could be part of what it promises.
