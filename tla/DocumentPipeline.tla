--------------------------- MODULE DocumentPipeline ---------------------------
(***************************************************************************)
(* The life of an uploaded document: upload to object storage and insert   *)
(* the row, extract and chunk it, embed its chunks.  Every HTTP request is *)
(* a handler of its own that shares nothing with the others but PostgreSQL *)
(* and MinIO; a step of this module is what a handler does between two     *)
(* awaits that another handler can observe (a commit, a statement, a call  *)
(* of the object store).                                                   *)
(*                                                                         *)
(* The database is READ COMMITTED.  A session keeps the values it loaded,  *)
(* and a commit writes only the attributes that differ from them (the      *)
(* SQLAlchemy unit of work), so the copy a handler loaded is part of its   *)
(* state here.                                                             *)
(***************************************************************************)
EXTENDS Naturals, Integers, FiniteSets

CONSTANTS
    Requests,            \* HTTP requests, each served once
    Docs,                \* the UUIDs that uuid4() may draw
    Users, Admins,       \* callers; those whose role is tenant administrator
    Tenants, TenantOf,   \* the tenant of a user
    KBs, KBTenant,       \* knowledge bases and the tenant that owns each
    Contents,            \* file contents; SHA-256 is taken to be injective
    ChunkTotal,          \* chunks of a content; 0: extraction or chunking fails
    Unparsable,          \* contents on which a parser raises where no try block
                         \* of text_extractor is around it
    ListChunksExecutes,  \* FALSE: the code as it stands (see ListChunks)
    MaxFaults,           \* bound: requests hit by a database fault or a crash
    NoDoc, NoUser, NoRequest, NoColumns

ASSUME ConstantsAssumption ==
    /\ Admins \subseteq Users
    /\ TenantOf \in [Users -> Tenants]
    /\ KBTenant \in [KBs -> Tenants]
    /\ ChunkTotal \in [Contents -> Nat]
    /\ Unparsable \subseteq Contents
    /\ ListChunksExecutes \in BOOLEAN
    /\ MaxFaults \in Nat
    /\ NoDoc \notin Docs
    /\ NoUser \notin Users
    /\ NoRequest \notin Requests

VARIABLES
    rows,      \* documents: the committed rows
    columns,   \* documents: tenant_id, knowledge_base_id, checksum_sha256;
               \* the Document object holds them before the row is committed
    state,     \* documents: the columns that change, status and chunk_count
    chunks,    \* document_chunks of each document
    objects,   \* MinIO: the documents whose object is stored
    pc,        \* where each handler is
    user,      \* the caller of a request that was let in
    doc,       \* the document a request works on
    loaded,    \* the values of state the handler's session last loaded
    seen,      \* the chunk rows the handler's session deleted or loaded
    resp,      \* the HTTP status answered; 0: none
    faulted,   \* history: requests that met a database fault or a crash
    overlapped \* history: documents two requests have worked on at once

database == <<rows, columns, state, chunks>>
history == <<faulted, overlapped>>
vars == <<rows, columns, state, chunks, objects, pc, user, doc, loaded, seen,
          resp, faulted, overlapped>>

-----------------------------------------------------------------------------
(* Rows.                                                                   *)

Statuses == {"pending", "processing", "chunked", "embedding", "completed",
             "failed"}

DocumentColumns == [tenant : Tenants, kb : KBs, checksum : Contents]
DocumentState == [status : Statuses, chunk_count : Nat]

\* The chunk rows of a document are only ever written all together: gen is
\* the process request that inserted them (NoRequest: there are none),
\* embedded tells whether their embedding column is set.
DocumentChunks == [gen : Requests \cup {NoRequest}, embedded : BOOLEAN]
NoChunks == [gen |-> NoRequest, embedded |-> FALSE]

\* Attributes after session.rollback(): expired, so that whatever is assigned
\* to them next differs from what is remembered and is written.
Expired == [status |-> "expired", chunk_count |-> -1]
LoadedState == [status : Statuses \cup {"expired"}, chunk_count : Int]

\* What a commit makes of the row: attributes whose new value equals the
\* loaded one are left out of the UPDATE and keep what the row holds now.
Flushed(row, old, new) ==
    [status      |-> IF new.status = old.status THEN row.status
                                                ELSE new.status,
     chunk_count |-> IF new.chunk_count = old.chunk_count
                     THEN row.chunk_count ELSE new.chunk_count]

Flush(r, new) ==
    state' = [state EXCEPT ![doc[r]] = Flushed(@, loaded[r], new)]

UploadLabels == {"store", "insert", "uploadRefresh", "compensate"}
ProcessLabels == {"markProcessing", "processRefresh", "extract",
                  "deleteChunks", "insertChunks", "markChunked"}
EmbedLabels == {"listChunks", "markEmbedding", "embedRefresh", "generate",
                "saveEmbeddings", "savedRefresh"}
WorkingLabels == UploadLabels \cup ProcessLabels \cup EmbedLabels
                    \cup {"markFailed"}
Labels == WorkingLabels \cup {"idle", "done"}

TypeOK ==
    /\ rows \in SUBSET Docs
    /\ columns \in [Docs -> DocumentColumns \cup {NoColumns}]
    /\ state \in [Docs -> DocumentState]
    /\ chunks \in [Docs -> DocumentChunks]
    /\ objects \in SUBSET Docs
    /\ pc \in [Requests -> Labels]
    /\ user \in [Requests -> Users \cup {NoUser}]
    /\ doc \in [Requests -> Docs \cup {NoDoc}]
    /\ loaded \in [Requests -> LoadedState]
    /\ seen \in [Requests -> Requests \cup {NoRequest}]
    /\ resp \in [Requests -> Nat]
    /\ faulted \in SUBSET Requests
    /\ overlapped \in SUBSET Docs

Init ==
    /\ rows = {}
    /\ columns = [d \in Docs |-> NoColumns]
    /\ state = [d \in Docs |-> [status |-> "pending", chunk_count |-> 0]]
    /\ chunks = [d \in Docs |-> NoChunks]
    /\ objects = {}
    /\ pc = [r \in Requests |-> "idle"]
    /\ user = [r \in Requests |-> NoUser]
    /\ doc = [r \in Requests |-> NoDoc]
    /\ loaded = [r \in Requests |-> Expired]
    /\ seen = [r \in Requests |-> NoRequest]
    /\ resp = [r \in Requests |-> 0]
    /\ faulted = {}
    /\ overlapped = {}

-----------------------------------------------------------------------------
(* The exceptions of the services and the HTTP status the routes make of   *)
(* each.  A route does not catch SQLAlchemy's or Python's own errors: 500. *)

UploadStatus(error) ==
    CASE error = "TenantAdministratorRequiredError" -> 403
      [] error = "KnowledgeBaseNotFoundError"       -> 404
      [] error = "InvalidDocumentError"             -> 422
      [] error = "DuplicateDocumentError"           -> 409
      [] error = "ObjectStorageError"               -> 502
      [] error = "ok"                               -> 201
      [] OTHER                                      -> 500

ProcessStatus(error) ==
    CASE error = "TenantAdministratorRequiredError" -> 403
      [] error = "KnowledgeBaseNotFoundError"       -> 404
      [] error = "DocumentNotFoundError"            -> 404
      [] error = "DocumentProcessingError"          -> 422
      [] error = "ok"                               -> 200
      [] OTHER                                      -> 500

EmbedStatus(error) ==
    CASE error = "TenantAdministratorRequiredError" -> 403
      [] error = "KnowledgeBaseNotFoundError"       -> 404
      [] error = "DocumentNotFoundError"            -> 404
      [] error = "DocumentEmbeddingError"           -> 422
      [] error = "ok"                               -> 200
      [] OTHER                                      -> 500

-----------------------------------------------------------------------------
(* Steps shared by the handlers.                                           *)

Goto(r, label) == pc' = [pc EXCEPT ![r] = label]

Answer(r, status) ==
    /\ pc' = [pc EXCEPT ![r] = "done"]
    /\ resp' = [resp EXCEPT ![r] = status]

\* A database fault: the statement or commit raises SQLAlchemyError and
\* nothing of the transaction is applied.
Fault(r) ==
    /\ Cardinality(faulted \cup {r}) <= MaxFaults
    /\ faulted' = faulted \cup {r}
    /\ UNCHANGED overlapped

\* A fault in code that no try block covers: get_db_session rolls back and
\* the client gets 500.
Uncaught(r) ==
    /\ Fault(r)
    /\ Answer(r, 500)

RequireTenantAdministrator(u) == u \in Admins

\* Mutant: the query is not restricted to the caller's tenant.
GetAnyKnowledgeBase(u, k) == TRUE

GetKnowledgeBase(u, k) == KBTenant[k] = TenantOf[u]

GetDocumentById(u, k, d) ==
    /\ d \in rows
    /\ columns[d].tenant = TenantOf[u]
    /\ columns[d].kb = k

Working(r) == pc[r] \in WorkingLabels
Busy(d) == \E q \in Requests : doc[q] = d /\ Working(q)

Total(d) == ChunkTotal[columns[d].checksum]

ParserRaises(d) == columns[d].checksum \in Unparsable

-----------------------------------------------------------------------------
(* upload_document.                                                        *)

GetDocumentByChecksum(u, k, c) ==
    {d \in rows : columns[d] = [tenant |-> TenantOf[u], kb |-> k,
                                checksum |-> c]}

\* The checks before anything is stored.  valid: the knowledge base is
\* active, and the file has a name, an allowed extension and a legal size.
\* scalar_one_or_none() raises on a second matching row.
UploadChecks(u, k, c, valid) ==
    IF ~RequireTenantAdministrator(u) THEN "TenantAdministratorRequiredError"
    ELSE IF ~GetKnowledgeBase(u, k) THEN "KnowledgeBaseNotFoundError"
    ELSE IF ~valid THEN "InvalidDocumentError"
    ELSE IF Cardinality(GetDocumentByChecksum(u, k, c)) > 1
         THEN "MultipleResultsFound"
    ELSE IF GetDocumentByChecksum(u, k, c) # {} THEN "DuplicateDocumentError"
    ELSE "ok"

UploadRejected(r, u, k, c, valid) ==
    /\ pc[r] = "idle"
    /\ UploadChecks(u, k, c, valid) # "ok"
    /\ Answer(r, UploadStatus(UploadChecks(u, k, c, valid)))
    /\ UNCHANGED <<database, objects, user, doc, loaded, seen, history>>

\* uuid4() draws an id no other upload has drawn.
UploadAccepted(r, u, k, c, d) ==
    /\ pc[r] = "idle"
    /\ UploadChecks(u, k, c, TRUE) = "ok"
    /\ \A q \in Requests : doc[q] # d
    /\ user' = [user EXCEPT ![r] = u]
    /\ doc' = [doc EXCEPT ![r] = d]
    /\ columns' = [columns EXCEPT ![d] = [tenant |-> TenantOf[u], kb |-> k,
                                          checksum |-> c]]
    /\ Goto(r, "store")
    /\ UNCHANGED <<rows, state, chunks, objects, loaded, seen, resp, history>>

StoreObject(r) ==
    /\ pc[r] = "store"
    /\ objects' = objects \cup {doc[r]}
    /\ Goto(r, "insert")
    /\ UNCHANGED <<database, user, doc, loaded, seen, resp, history>>

\* Mutant: the storage error is swallowed.
StoreErrorIgnored(r) ==
    /\ pc[r] = "store"
    /\ Goto(r, "insert")
    /\ UNCHANGED <<database, objects, user, doc, loaded, seen, resp, history>>

\* upload_bytes raises; the object may have been written all the same.
StoreObjectFails(r) ==
    /\ pc[r] = "store"
    /\ objects' \in {objects, objects \cup {doc[r]}}
    /\ Answer(r, UploadStatus("ObjectStorageError"))
    /\ UNCHANGED <<database, user, doc, loaded, seen, history>>

InsertDocument(r) ==
    /\ pc[r] = "insert"
    /\ rows' = rows \cup {doc[r]}
    /\ state' = [state EXCEPT ![doc[r]] = [status |-> "pending",
                                           chunk_count |-> 0]]
    /\ Goto(r, "uploadRefresh")
    /\ UNCHANGED <<columns, chunks, objects, user, doc, loaded, seen, resp,
                   history>>

UploadRefresh(r) ==
    /\ pc[r] = "uploadRefresh"
    /\ Answer(r, UploadStatus("ok"))
    /\ UNCHANGED <<database, objects, user, doc, loaded, seen, history>>

\* The insert or the refresh after it raises: on to the except clause.
InsertFails(r) ==
    /\ pc[r] \in {"insert", "uploadRefresh"}
    /\ Fault(r)
    /\ Goto(r, "compensate")
    /\ UNCHANGED <<database, objects, user, doc, loaded, seen, resp>>

\* Mutant: the exception is not raised again.
CompensateSilently(r) ==
    /\ pc[r] = "compensate"
    /\ objects' = objects \ {doc[r]}
    /\ Answer(r, UploadStatus("ok"))
    /\ UNCHANGED <<database, user, doc, loaded, seen, history>>

\* delete_object, whose own failure is swallowed; the error is raised again.
Compensate(r) ==
    /\ pc[r] = "compensate"
    /\ objects' \in {objects, objects \ {doc[r]}}
    /\ Answer(r, UploadStatus("SQLAlchemyError"))
    /\ UNCHANGED <<database, user, doc, loaded, seen, history>>

-----------------------------------------------------------------------------
(* process_document.  There is no test of the document's status: any       *)
(* document can be processed at any time, by several requests at once.     *)

ProcessChecks(u, k, d) ==
    IF ~RequireTenantAdministrator(u) THEN "TenantAdministratorRequiredError"
    ELSE IF ~GetKnowledgeBase(u, k) THEN "KnowledgeBaseNotFoundError"
    ELSE IF ~GetDocumentById(u, k, d) THEN "DocumentNotFoundError"
    ELSE "ok"

ProcessRejected(r, u, k, d) ==
    /\ pc[r] = "idle"
    /\ ProcessChecks(u, k, d) # "ok"
    /\ Answer(r, ProcessStatus(ProcessChecks(u, k, d)))
    /\ UNCHANGED <<database, objects, user, doc, loaded, seen, history>>

\* Admit a request whose checks passed: the session loads the document.
Admit(r, u, d, label) ==
    /\ user' = [user EXCEPT ![r] = u]
    /\ doc' = [doc EXCEPT ![r] = d]
    /\ loaded' = [loaded EXCEPT ![r] = state[d]]
    /\ overlapped' = IF Busy(d) THEN overlapped \cup {d} ELSE overlapped
    /\ Goto(r, label)
    /\ UNCHANGED <<database, objects, seen, resp, faulted>>

ProcessAccepted(r, u, k, d) ==
    /\ pc[r] = "idle"
    /\ ProcessChecks(u, k, d) = "ok"
    /\ Admit(r, u, d, "markProcessing")

\* Commit a transitional status; the refresh that follows is a step of its own.
MarkTransitional(r, status, next) ==
    /\ Flush(r, [loaded[r] EXCEPT !.status = status])
    /\ Goto(r, next)
    /\ UNCHANGED <<rows, columns, chunks, objects, user, doc, loaded, seen,
                   resp, history>>

Refresh(r, next) ==
    /\ loaded' = [loaded EXCEPT ![r] = state[doc[r]]]
    /\ Goto(r, next)
    /\ UNCHANGED <<database, objects, user, doc, seen, resp, history>>

\* Mutant: the status is not set before the chunks are replaced.
MarkProcessingSkipped(r) ==
    /\ pc[r] = "markProcessing"
    /\ Goto(r, "processRefresh")
    /\ UNCHANGED <<database, objects, user, doc, loaded, seen, resp, history>>

MarkProcessing(r) ==
    /\ pc[r] = "markProcessing"
    /\ MarkTransitional(r, "processing", "processRefresh")

ProcessRefresh(r) ==
    /\ pc[r] = "processRefresh"
    /\ Refresh(r, "extract")

\* save_document_record outside the try block of either service raises, in
\* its commit or in its refresh, before the work has begun.
MarkTransitionalFails(r) ==
    /\ pc[r] \in {"markProcessing", "processRefresh",
                  "markEmbedding", "embedRefresh"}
    /\ Uncaught(r)
    /\ UNCHANGED <<database, objects, user, doc, loaded, seen>>

\* Mutant: the document is marked chunked before its chunks are stored.
ExtractThenMark(r) ==
    /\ pc[r] = "extract"
    /\ doc[r] \in objects
    /\ Goto(r, "markChunked")
    /\ UNCHANGED <<database, objects, user, doc, loaded, seen, resp, history>>

\* Download, extract and chunk.
Extract(r) ==
    /\ pc[r] = "extract"
    /\ doc[r] \in objects
    /\ ~ParserRaises(doc[r])
    /\ Total(doc[r]) > 0
    /\ Goto(r, "deleteChunks")
    /\ UNCHANGED <<database, objects, user, doc, loaded, seen, resp, history>>

\* Mutant: the error is reported without mark_document_failed.
ExtractFailsUnmarked(r) ==
    /\ pc[r] = "extract"
    /\ Answer(r, ProcessStatus("DocumentProcessingError"))
    /\ UNCHANGED <<database, objects, user, doc, loaded, seen, history>>

\* ObjectStorageError (the object may be there), DocumentExtractionError or
\* TextChunkingError; the session is not rolled back.
ExtractFails(r) ==
    /\ pc[r] = "extract"
    /\ Goto(r, "markFailed")
    /\ UNCHANGED <<database, objects, user, doc, loaded, seen, resp, history>>

\* Opening a file is guarded, walking through it is not: is_encrypted, the
\* pages of a PDF, the paragraphs and tables of a Word file and the cells of an
\* xls sheet are read outside any try block, and the processor has no except
\* clause for what the libraries raise there.
ExtractRaises(r) ==
    /\ pc[r] = "extract"
    /\ doc[r] \in objects
    /\ ParserRaises(doc[r])
    /\ Answer(r, ProcessStatus("PdfReadError"))
    /\ UNCHANGED <<database, objects, user, doc, loaded, seen, history>>

\* The DELETE of replace_document_chunks: it removes the committed chunk rows
\* of this moment, to be seen by the others at the commit.
DeleteChunks(r) ==
    /\ pc[r] = "deleteChunks"
    /\ seen' = [seen EXCEPT ![r] = chunks[doc[r]].gen]
    /\ Goto(r, "insertChunks")
    /\ UNCHANGED <<database, objects, user, doc, loaded, resp, history>>

InsertChunks(r) ==
    /\ pc[r] = "insertChunks"
    /\ chunks[doc[r]].gen = seen[r]
    /\ chunks' = [chunks EXCEPT ![doc[r]] = [gen |-> r, embedded |-> FALSE]]
    /\ Goto(r, "markChunked")
    /\ UNCHANGED <<rows, columns, state, objects, user, doc, loaded, seen,
                   resp, history>>

\* Mutant: rolled back and reported, but not marked failed.
RollbackOnly(r) ==
    /\ Answer(r, ProcessStatus("DocumentProcessingError"))
    /\ UNCHANGED <<database, objects, user, doc, loaded, seen>>

\* session.rollback() and on to mark_document_failed.
RollbackAndFail(r) ==
    /\ loaded' = [loaded EXCEPT ![r] = Expired]
    /\ Goto(r, "markFailed")
    /\ UNCHANGED <<database, objects, user, doc, seen, resp>>

\* Mutant: no except clause for SQLAlchemyError.
ConflictUncaught(r) ==
    /\ pc[r] = "insertChunks"
    /\ chunks[doc[r]].gen # seen[r]
    /\ Answer(r, ProcessStatus("IntegrityError"))
    /\ UNCHANGED <<database, objects, user, doc, loaded, seen, history>>

\* Rows another request committed after the DELETE have the same
\* (document_id, chunk_index): IntegrityError.
InsertChunksConflict(r) ==
    /\ pc[r] = "insertChunks"
    /\ chunks[doc[r]].gen # seen[r]
    /\ RollbackAndFail(r)
    /\ UNCHANGED history

ReplaceChunksFails(r) ==
    /\ pc[r] \in {"deleteChunks", "insertChunks"}
    /\ Fault(r)
    /\ RollbackAndFail(r)

\* Mutant: the status is forgotten.
MarkFailedKeepsStatus(r) ==
    /\ pc[r] = "markFailed"
    /\ Flush(r, [loaded[r] EXCEPT !.chunk_count = 0])
    /\ Answer(r, ProcessStatus("DocumentProcessingError"))
    /\ UNCHANGED <<rows, columns, chunks, objects, user, doc, loaded, seen,
                   history>>

\* mark_document_failed; both services then raise an error that is a 422.
MarkFailed(r) ==
    /\ pc[r] = "markFailed"
    /\ Flush(r, [status |-> "failed", chunk_count |-> 0])
    /\ Answer(r, ProcessStatus("DocumentProcessingError"))
    /\ UNCHANGED <<rows, columns, chunks, objects, user, doc, loaded, seen,
                   history>>

\* Its commit raises: swallowed, and the row keeps its status.
MarkFailedFails(r) ==
    /\ pc[r] = "markFailed"
    /\ Fault(r)
    /\ Answer(r, ProcessStatus("DocumentProcessingError"))
    /\ UNCHANGED <<database, objects, user, doc, loaded, seen>>

\* The last commit is outside the try block.  Its refresh may raise after the
\* row was written.
MarkChunked(r) ==
    /\ pc[r] = "markChunked"
    /\ Flush(r, [status |-> "chunked", chunk_count |-> Total(doc[r])])
    /\ \/ /\ Answer(r, ProcessStatus("ok"))
          /\ UNCHANGED history
       \/ Uncaught(r)
    /\ UNCHANGED <<rows, columns, chunks, objects, user, doc, loaded, seen>>

MarkChunkedFails(r) ==
    /\ pc[r] = "markChunked"
    /\ Uncaught(r)
    /\ UNCHANGED <<database, objects, user, doc, loaded, seen>>

-----------------------------------------------------------------------------
(* embed_document_chunks.                                                  *)

EmbedChecks(u, k, d) ==
    IF ProcessChecks(u, k, d) # "ok" THEN ProcessChecks(u, k, d)
    ELSE IF state[d].status \notin {"chunked", "completed"}
         THEN "DocumentEmbeddingError"
    ELSE "ok"

EmbedRejected(r, u, k, d) ==
    /\ pc[r] = "idle"
    /\ EmbedChecks(u, k, d) # "ok"
    /\ Answer(r, EmbedStatus(EmbedChecks(u, k, d)))
    /\ UNCHANGED <<database, objects, user, doc, loaded, seen, history>>

EmbedAccepted(r, u, k, d) ==
    /\ pc[r] = "idle"
    /\ EmbedChecks(u, k, d) = "ok"
    /\ Admit(r, u, d, "listChunks")

\* The body of list_document_chunks awaits the select() itself instead of
\* session.execute(select(...)): a TypeError on every call, caught nowhere.
ListChunksRaises(r) ==
    /\ pc[r] = "listChunks"
    /\ ~ListChunksExecutes
    /\ Answer(r, EmbedStatus("TypeError"))
    /\ UNCHANGED <<database, objects, user, doc, loaded, seen, history>>

\* What the rest of the service is written for: the rows come back.
ListChunks(r) ==
    /\ pc[r] = "listChunks"
    /\ ListChunksExecutes
    /\ IF chunks[doc[r]].gen = NoRequest
       THEN /\ Answer(r, EmbedStatus("DocumentEmbeddingError"))
            /\ UNCHANGED seen
       ELSE /\ seen' = [seen EXCEPT ![r] = chunks[doc[r]].gen]
            /\ Goto(r, "markEmbedding")
            /\ UNCHANGED resp
    /\ UNCHANGED <<database, objects, user, doc, loaded, history>>

MarkEmbedding(r) ==
    /\ pc[r] = "markEmbedding"
    /\ MarkTransitional(r, "embedding", "embedRefresh")

EmbedRefresh(r) ==
    /\ pc[r] = "embedRefresh"
    /\ Refresh(r, "generate")

\* Mutant: a failed generation is tried again without limit.
GenerateRetries(r) ==
    /\ pc[r] = "generate"
    /\ \/ Goto(r, "saveEmbeddings")
       \/ Goto(r, "embedRefresh")
    /\ UNCHANGED <<database, objects, user, doc, loaded, seen, resp, history>>

\* generate_embeddings runs in a thread; EmbeddingGenerationError marks the
\* document failed without a rollback.
GenerateEmbeddings(r) ==
    /\ pc[r] = "generate"
    /\ \/ Goto(r, "saveEmbeddings")
       \/ Goto(r, "markFailed")
    /\ UNCHANGED <<database, objects, user, doc, loaded, seen, resp, history>>

\* Mutant: a status no reader of the column knows.
CompletedMistyped(r) ==
    [status |-> "complete", chunk_count |-> Total(doc[r])]

\* save_document_embeddings updates the chunk rows it loaded, by primary key,
\* and the document in one commit.  Rows that were replaced meanwhile match
\* nothing: the UPDATE has no effect or, where the driver reports how many
\* rows matched, raises StaleDataError (SaveEmbeddingsFails).
Completed(r) == [status |-> "completed", chunk_count |-> Total(doc[r])]

SaveEmbeddings(r) ==
    /\ pc[r] = "saveEmbeddings"
    /\ Flush(r, Completed(r))
    /\ chunks' = [chunks EXCEPT ![doc[r]].embedded =
                                    @ \/ chunks[doc[r]].gen = seen[r]]
    /\ Goto(r, "savedRefresh")
    /\ UNCHANGED <<rows, columns, objects, user, doc, loaded, seen, resp,
                   history>>

SavedRefresh(r) ==
    /\ pc[r] = "savedRefresh"
    /\ Answer(r, EmbedStatus("ok"))
    /\ UNCHANGED <<database, objects, user, doc, loaded, seen, history>>

\* The commit, or the refresh after a commit that was applied, raises: both
\* are inside the try block, so the document is marked failed.
SaveEmbeddingsFails(r) ==
    /\ pc[r] \in {"saveEmbeddings", "savedRefresh"}
    /\ \/ Fault(r)
       \/ /\ pc[r] = "saveEmbeddings"
          /\ chunks[doc[r]].gen # seen[r]
          /\ UNCHANGED history
    /\ RollbackAndFail(r)

-----------------------------------------------------------------------------
(* The worker dies while it serves the request: what was not committed is  *)
(* gone, and nothing runs at restart to look for what was left.            *)
Crash(r) ==
    /\ Working(r)
    /\ Fault(r)
    /\ Answer(r, 0)
    /\ UNCHANGED <<database, objects, user, doc, loaded, seen>>

Arrive(r) ==
    \E u \in Users, k \in KBs :
        \/ \E c \in Contents, valid \in BOOLEAN :
               UploadRejected(r, u, k, c, valid)
        \/ \E c \in Contents, d \in Docs : UploadAccepted(r, u, k, c, d)
        \/ \E d \in Docs : \/ ProcessRejected(r, u, k, d)
                           \/ ProcessAccepted(r, u, k, d)
                           \/ EmbedRejected(r, u, k, d)
                           \/ EmbedAccepted(r, u, k, d)

UploadStep(r) ==
    \/ StoreObject(r) \/ StoreObjectFails(r) \/ InsertDocument(r)
    \/ UploadRefresh(r) \/ InsertFails(r) \/ Compensate(r)

ProcessStep(r) ==
    \/ MarkProcessing(r) \/ ProcessRefresh(r) \/ Extract(r) \/ ExtractFails(r)
    \/ ExtractRaises(r) \/ DeleteChunks(r) \/ InsertChunks(r) \/ InsertChunksConflict(r)
    \/ ReplaceChunksFails(r) \/ MarkChunked(r) \/ MarkChunkedFails(r)

EmbedStep(r) ==
    \/ ListChunksRaises(r) \/ ListChunks(r) \/ MarkEmbedding(r)
    \/ EmbedRefresh(r) \/ GenerateEmbeddings(r) \/ SaveEmbeddings(r)
    \/ SavedRefresh(r) \/ SaveEmbeddingsFails(r)

\* What an admitted handler does next.
Serve(r) ==
    \/ UploadStep(r) \/ ProcessStep(r) \/ EmbedStep(r)
    \/ MarkTransitionalFails(r) \/ MarkFailed(r) \/ MarkFailedFails(r)

Terminated ==
    /\ \A r \in Requests : pc[r] = "done"
    /\ UNCHANGED vars

Next ==
    \/ \E r \in Requests : Arrive(r) \/ Serve(r) \/ Crash(r)
    \/ Terminated

Spec == Init /\ [][Next]_vars

\* The event loop goes on running every handler that was started.  No
\* fairness makes a client send a request.
FairSpec == Spec /\ \A r \in Requests : WF_vars(Serve(r))

-----------------------------------------------------------------------------
(* Properties.                                                             *)

Transitional == {"processing", "embedding"}

\* An upload answered 201 is stored for good: its row is committed and its
\* object is in MinIO, whatever fails afterwards.  The order of
\* upload_document (object first, row second, delete_object only on the way
\* to an error) is what this rests on.
AcknowledgedUploadIsStored ==
    \A r \in Requests :
        resp[r] = 201 => doc[r] \in rows /\ doc[r] \in objects

\* Object store and table agree: a row without its object, or an object
\* without a row, belongs to an upload that is still running, that met a
\* database fault or a crash, or that got ObjectStorageError (502) for a put
\* that had been carried out.  Nothing else may leave one behind.
RowsAndObjectsAgree ==
    \A d \in Docs :
        (d \in rows) # (d \in objects) =>
            \E r \in Requests :
                /\ doc[r] = d
                /\ \/ pc[r] \in UploadLabels
                   \/ r \in faulted
                   \/ resp[r] = 502

\* The status never runs ahead of the chunk rows: a document shown as
\* chunked, embedding or completed has chunk rows stored, however process
\* and embed requests interleave and wherever they fail.  process_document
\* relies on replacing the chunks in one transaction before "chunked".
ChunkedHasChunks ==
    \A d \in Docs :
        state[d].status \in {"chunked", "embedding", "completed"} =>
            chunks[d].gen # NoRequest

\* The handler of r let an error escape and left the row to itself: a database
\* fault or a crash (save_document_record outside the try blocks,
\* mark_document_failed swallowing its own error), or the parser of the
\* document's file raised outside them and the client got 500.
Escaped(r) ==
    \/ r \in faulted
    \/ doc[r] # NoDoc /\ ParserRaises(doc[r]) /\ resp[r] = 500

\* "processing" and "embedding" are left again: a document in such a status
\* has a handler at work on it, or one that an error escaped from.  Nothing
\* else strands it: not overlapping handlers, an IntegrityError between them,
\* or an UPDATE that the session leaves out because the loaded value is equal;
\* and a file that parses is stranded by a fault or a crash only.
TransitionalIsAttended ==
    \A d \in Docs :
        state[d].status \in Transitional =>
            \E r \in Requests : doc[r] = d /\ (Working(r) \/ Escaped(r))

\* A handler only works for a tenant administrator, and only on a document
\* and a knowledge base of that caller's tenant.
TenantIsolation ==
    \A r \in Requests :
        doc[r] # NoDoc =>
            /\ user[r] \in Admins
            /\ columns[doc[r]].tenant = TenantOf[user[r]]
            /\ KBTenant[columns[doc[r]].kb] = TenantOf[user[r]]

\* The row tells the truth about the chunks as long as requests on the
\* document have not overlapped, even if they fail half-way: chunked and
\* completed show the number of stored chunks, failed shows 0, and a completed
\* document is embedded, that is, semantic search finds it.
RowMatchesChunks ==
    \A d \in rows \ overlapped :
        /\ state[d].status \in {"chunked", "completed"} =>
               /\ chunks[d].gen # NoRequest
               /\ state[d].chunk_count = Total(d)
        /\ state[d].status = "failed" => state[d].chunk_count = 0
        /\ state[d].status = "completed" => chunks[d].embedded

\* "On a controlled processing error, the document status becomes `failed`":
\* a handler that gets as far as mark_document_failed, and that met no
\* fault, leaves the row failed unless other requests have overlapped it.
ControlledErrorMarksFailed ==
    [][\A r \in Requests :
           (/\ pc[r] = "markFailed" /\ pc'[r] = "done"
            /\ r \notin faulted' /\ doc[r] \notin overlapped)
               => state'[doc[r]].status = "failed"]_vars

\* Every request that was let in is answered.
AdmittedIsAnswered ==
    \A r \in Requests : Working(r) ~> pc[r] = "done"

\* No document stays in a transitional status, unless an error escaped from a
\* request on it: where there is no fault and the file parses, every way through
\* the handlers leads to chunked, completed or failed.
TransitionalIsLeft ==
    \A d \in Docs :
        state[d].status \in Transitional ~>
            \/ state[d].status \notin Transitional
            \/ \E r \in Requests : doc[r] = d /\ Escaped(r)

\* What DuplicateDocumentError promises ("Raised when the same file already
\* exists in a knowledge base."): no file is in a knowledge base twice.
NoDuplicateDocuments ==
    \A d, e \in rows : columns[d] = columns[e] => d = e

\* What the README's lifecycle (pending, processing, chunked, embedding,
\* completed) promises of the embed endpoint: a request that was let in ends
\* in a server error only if the database failed or the worker died, or the
\* parser of its file raises unguarded; a conflict of two requests on a
\* document, a broken file or a failing model is never one.
ServerErrorOnlyAfterFault ==
    \A r \in Requests :
        (doc[r] # NoDoc /\ resp[r] = 500) => Escaped(r)
=============================================================================
