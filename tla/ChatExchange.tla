----------------------------- MODULE ChatExchange -----------------------------
(***************************************************************************)
(* Conversations and the exchanges in them: a question, its answer and the *)
(* evidence for it, in the document, database and hybrid modes, listing    *)
(* them, and the audit event of a hybrid exchange.                         *)
(*                                                                         *)
(* A handler works on the conversation row its session loaded first and on *)
(* the chunks its search returned, while process requests replace chunks   *)
(* and administrators disable or delete connections; foreign keys refuse   *)
(* rows that refer to what is gone, cascade, or are set to NULL.  An       *)
(* exchange carries the name of the request that makes it.                 *)
(***************************************************************************)
EXTENDS Naturals, FiniteSets

CONSTANTS
    Requests,           \* HTTP requests, each served once
    Convs,              \* the UUIDs that a new conversation may get
    Users, Tenants, TenantOf,
    Conns, ConnTenant,  \* runtime connections and their tenants
    KBs, KBTenant,      \* knowledge bases and their tenants
    Docs, DocKB,        \* documents and their knowledge bases
    MaxGeneration,      \* bound: how often the chunks of a document change
    MaxFaults,          \* bound: requests hit by a database fault or a crash
    NoConv, NoUser, NoConn, NoKB, NoRow

ConversationMode == {"database", "document", "hybrid"}
Conversation == [user : Users, mode : ConversationMode,
                 conn : Conns \cup {NoConn}, kb : KBs \cup {NoKB}]

ASSUME ConstantsAssumption ==
    /\ TenantOf \in [Users -> Tenants]
    /\ ConnTenant \in [Conns -> Tenants]
    /\ KBTenant \in [KBs -> Tenants]
    /\ DocKB \in [Docs -> KBs]
    /\ MaxGeneration \in Nat
    /\ MaxFaults \in Nat
    /\ NoConv \notin Convs
    /\ NoConn \notin Conns
    /\ NoKB \notin KBs
    /\ NoRow \notin Conversation

VARIABLES
    conns,     \* database_connections: usable, not usable, or deleted
    gen,       \* document_chunks: the generation of a document's chunk rows
    embedded,  \* the documents that are completed: their chunks can be found
    convs,     \* conversations
    messages,  \* messages: the roles stored for an exchange
    exec,      \* query_executions: the row of a request, by its error_code
    dbcite,    \* message_citations of type database, and their execution
    cited,     \* message_citations of type document: the documents cited
    link,      \* document_chunk_id of a document's citation; 0: NULL
    audit,     \* audit_logs: the requests that recorded an event
    pc, kind, caller, conv,
    copy,      \* the conversation row that the session loaded, or inserts
    matches,   \* the generation of a document's chunk found; 0: not found
    code,      \* the error code of the query that failed
    page,      \* the answers a listing has read
    shown,     \* the document citations it has read for them
    resp,      \* the HTTP status answered; 0: none
    ran,       \* history: requests whose query the remote database answered
    faulted    \* history: requests that met a database fault or a crash

sources == <<conns, gen, embedded>>
rows == <<convs, messages, exec, dbcite, cited, link, audit>>
inputs == <<kind, caller, conv, copy>>
memory == <<matches, code, page, shown>>
history == <<ran, faulted>>
vars == <<conns, gen, embedded, convs, messages, exec, dbcite, cited, link,
          audit, pc, kind, caller, conv, copy, matches, code, page, shown,
          resp, ran, faulted>>

-----------------------------------------------------------------------------
(* Rows.                                                                   *)

QueryModes == {"database", "hybrid"}
RetrievalModes == {"document", "hybrid"}
Roles == {"user", "assistant"}

\* error_code of a query_executions row; the status is "rejected" for the
\* first and "failed" for the others.
ErrorCodes == {"query_security_rejected", "query_timeout",
               "result_too_large", "query_execution_failed"}

\* "none": there is no row.
QueryExecution == {"none", "completed"} \cup ErrorCodes
MessageCitation == {"none", "linked", "null"}

NoMatches == [d \in Docs |-> 0]

WorkingLabels == {"insertConversation", "refreshConversation", "secure",
                  "execute", "saveFailed", "retrieve", "saveExchange",
                  "refreshExchange", "audit", "refreshAudit",
                  "listMessages", "listCitations"}

TypeOK ==
    /\ conns \in [Conns -> {"usable", "disabled", "deleted"}]
    /\ gen \in [Docs -> Nat]
    /\ embedded \in SUBSET Docs
    /\ convs \in [Convs -> Conversation \cup {NoRow}]
    /\ messages \in [Requests -> SUBSET Roles]
    /\ exec \in [Requests -> QueryExecution]
    /\ dbcite \in [Requests -> MessageCitation]
    /\ cited \in [Requests -> SUBSET Docs]
    /\ link \in [Requests -> [Docs -> Nat]]
    /\ audit \in SUBSET Requests
    /\ pc \in [Requests -> WorkingLabels \cup {"idle", "done"}]
    /\ kind \in [Requests -> ConversationMode \cup {"create", "list", "none"}]
    /\ caller \in [Requests -> Users \cup {NoUser}]
    /\ conv \in [Requests -> Convs \cup {NoConv}]
    /\ copy \in [Requests -> Conversation \cup {NoRow}]
    /\ matches \in [Requests -> [Docs -> Nat]]
    /\ code \in [Requests -> ErrorCodes \cup {"none"}]
    /\ page \in [Requests -> SUBSET Requests]
    /\ shown \in [Requests -> SUBSET (Requests \X Docs)]
    /\ resp \in [Requests -> Nat]
    /\ ran \in SUBSET Requests
    /\ faulted \in SUBSET Requests

Init ==
    /\ conns = [c \in Conns |-> "usable"]
    /\ gen = [d \in Docs |-> 1]
    /\ embedded = Docs
    /\ convs = [v \in Convs |-> NoRow]
    /\ messages = [r \in Requests |-> {}]
    /\ exec = [r \in Requests |-> "none"]
    /\ dbcite = [r \in Requests |-> "none"]
    /\ cited = [r \in Requests |-> {}]
    /\ link = [r \in Requests |-> NoMatches]
    /\ audit = {}
    /\ pc = [r \in Requests |-> "idle"]
    /\ kind = [r \in Requests |-> "none"]
    /\ caller = [r \in Requests |-> NoUser]
    /\ conv = [r \in Requests |-> NoConv]
    /\ copy = [r \in Requests |-> NoRow]
    /\ matches = [r \in Requests |-> NoMatches]
    /\ code = [r \in Requests |-> "none"]
    /\ page = [r \in Requests |-> {}]
    /\ shown = [r \in Requests |-> {}]
    /\ resp = [r \in Requests |-> 0]
    /\ ran = {}
    /\ faulted = {}

-----------------------------------------------------------------------------
(* Exceptions and the HTTP status the routes make of each.  The chat       *)
(* routes catch neither a missing connection nor a plain ValueError.       *)

ConversationStatus(error) ==
    CASE error = "DatabaseConnectionNotFoundError" -> 404
      [] error = "KnowledgeBaseNotFoundError"      -> 404
      [] error = "ValueError"                      -> 422
      [] OTHER                                     -> 500

MessageStatus(error) ==
    CASE error = "ConversationNotFoundError"        -> 404
      [] error = "KnowledgeBaseNotFoundError"       -> 404
      [] error = "UnsupportedConversationModeError" -> 409
      [] error = "DocumentRetrievalError"           -> 422
      [] error = "query_security_rejected"          -> 403
      [] error = "query_timeout"                    -> 504
      [] error = "result_too_large"                 -> 413
      [] error = "query_execution_failed"           -> 502
      [] OTHER                                      -> 500

-----------------------------------------------------------------------------
(* Steps shared by the handlers.                                           *)

Goto(r, label) == pc' = [pc EXCEPT ![r] = label]

Answer(r, status) ==
    /\ Goto(r, "done")
    /\ resp' = [resp EXCEPT ![r] = status]

\* The handler starts its work with this copy of the conversation row.
Begin(r, k, u, v, row, label) ==
    /\ kind' = [kind EXCEPT ![r] = k]
    /\ caller' = [caller EXCEPT ![r] = u]
    /\ conv' = [conv EXCEPT ![r] = v]
    /\ copy' = [copy EXCEPT ![r] = row]
    /\ Goto(r, label)
    /\ UNCHANGED <<sources, rows, memory, resp, history>>

\* The first checks fail: no more is kept of the request than its kind.
Refuse(r, k, status) ==
    /\ kind' = [kind EXCEPT ![r] = k]
    /\ Answer(r, status)
    /\ UNCHANGED <<sources, rows, caller, conv, copy, memory, history>>

\* Raise an exception when nothing is pending in the session.
Raise(r, status) ==
    /\ Answer(r, status)
    /\ UNCHANGED <<sources, rows, inputs, memory, history>>

GetDatabaseConnection(u, c) ==
    conns[c] # "deleted" /\ ConnTenant[c] = TenantOf[u]

GetKnowledgeBase(u, b) == KBTenant[b] = TenantOf[u]

\* Mutant: get_conversation_by_id without the user.
GetTenantConversation(u, v) ==
    convs[v] # NoRow /\ TenantOf[convs[v].user] = TenantOf[u]

GetConversation(u, v) == convs[v] # NoRow /\ convs[v].user = u

-----------------------------------------------------------------------------
(* create_conversation.  The request schema asks for the sources the mode  *)
(* needs; a source the mode does not use is refused here.                  *)

RequestedSources(mode, c, b) ==
    /\ mode \in QueryModes => c # NoConn
    /\ mode \in RetrievalModes => b # NoKB

ValidateConversationSources(u, mode, c, b) ==
    IF c # NoConn /\ ~GetDatabaseConnection(u, c)
    THEN "DatabaseConnectionNotFoundError"
    ELSE IF b # NoKB /\ ~GetKnowledgeBase(u, b)
    THEN "KnowledgeBaseNotFoundError"
    ELSE IF \/ mode = "database" /\ b # NoKB
            \/ mode = "document" /\ c # NoConn
    THEN "ValueError"
    ELSE "ok"

CreateConversation(r, u, v, mode, c, b) ==
    LET error == ValidateConversationSources(u, mode, c, b)
        row == [user |-> u, mode |-> mode, conn |-> c, kb |-> b]
    IN  /\ pc[r] = "idle"
        /\ convs[v] = NoRow /\ \A q \in Requests : conv[q] # v
        /\ RequestedSources(mode, c, b)
        /\ \/ /\ error = "ok"
              /\ Begin(r, "create", u, v, row, "insertConversation")
           \/ /\ error # "ok"
              /\ Refuse(r, "create", ConversationStatus(error))

InsertConversation(r) ==
    /\ pc[r] = "insertConversation"
    /\ copy[r].conn # NoConn => conns[copy[r].conn] # "deleted"
    /\ convs' = [convs EXCEPT ![conv[r]] = copy[r]]
    /\ Goto(r, "refreshConversation")
    /\ UNCHANGED <<sources, messages, exec, dbcite, cited, link, audit,
                   inputs, memory, resp, history>>

\* The connection was deleted since it was looked up.
InsertConversationConflict(r) ==
    /\ pc[r] = "insertConversation"
    /\ copy[r].conn # NoConn /\ conns[copy[r].conn] = "deleted"
    /\ Raise(r, ConversationStatus("IntegrityError"))

RefreshConversation(r) ==
    /\ pc[r] = "refreshConversation"
    /\ Raise(r, 201)

-----------------------------------------------------------------------------
(* The message endpoints: one per mode.                                    *)

\* get_conversation and the checks on the row it returns.
MessageChecks(u, v, mode) ==
    IF ~GetConversation(u, v) THEN "ConversationNotFoundError"
    ELSE IF \/ convs[v].mode # mode
            \/ mode \in QueryModes /\ convs[v].conn = NoConn
            \/ mode \in RetrievalModes /\ convs[v].kb = NoKB
    THEN "UnsupportedConversationModeError"
    ELSE "ok"

CreateMessage(r, u, v, mode) ==
    LET error == MessageChecks(u, v, mode)
    IN  /\ pc[r] = "idle"
        /\ \/ /\ error = "ok"
              /\ Begin(r, mode, u, v, convs[v],
                       IF mode = "document" THEN "retrieve" ELSE "secure")
           \/ /\ error # "ok"
              /\ Refuse(r, mode, MessageStatus(error))

\* run_secure_query up to the execution: the connection is looked up again
\* and must be usable, and the statement must pass the security check, which
\* QuerySecurity models.
SecureQuery(r) ==
    /\ pc[r] = "secure"
    /\ conns[copy[r].conn] = "usable"
    /\ GetDatabaseConnection(caller[r], copy[r].conn)
    /\ \/ Goto(r, "execute") /\ UNCHANGED code
       \/ /\ code' = [code EXCEPT ![r] = "query_security_rejected"]
          /\ Goto(r, "saveFailed")
    /\ UNCHANGED <<sources, rows, inputs, matches, page, shown, resp, history>>

\* DatabaseConnectionNotFoundError, or ValueError for one that is not usable; of
\* a usable one, a TokenError, which the validator does not catch.
SecureQueryRaises(r) ==
    LET found == /\ conns[copy[r].conn] = "usable"
                 /\ GetDatabaseConnection(caller[r], copy[r].conn)
    IN  /\ pc[r] = "secure"
        /\ Raise(r, MessageStatus(IF found THEN "TokenError"
                                  ELSE "DatabaseConnectionNotFoundError"))

ExecuteQuery(r) ==
    /\ pc[r] = "execute"
    /\ ran' = ran \cup {r}
    /\ Goto(r, IF kind[r] = "hybrid" THEN "retrieve" ELSE "saveExchange")
    /\ UNCHANGED <<sources, rows, inputs, memory, resp, faulted>>

ExecuteQueryFails(r) ==
    /\ pc[r] = "execute"
    /\ \E error \in ErrorCodes \ {"query_security_rejected"} :
           code' = [code EXCEPT ![r] = error]
    /\ Goto(r, "saveFailed")
    /\ UNCHANGED <<sources, rows, inputs, matches, page, shown, resp, history>>

\* Connection parameters that are not complete are a plain ValueError.
ExecuteQueryRaises(r) ==
    /\ pc[r] = "execute"
    /\ Raise(r, MessageStatus("ValueError"))

\* Mutant: the exception is raised again without saving the execution.
SaveFailedExecutionSkipped(r) ==
    /\ pc[r] = "saveFailed"
    /\ conns[copy[r].conn] # "deleted"
    /\ Raise(r, MessageStatus(code[r]))

\* Mutant: the row keeps the status instead of the code.
SaveFailedExecutionUncoded(r) ==
    /\ pc[r] = "saveFailed"
    /\ conns[copy[r].conn] # "deleted"
    /\ exec' = [exec EXCEPT ![r] = "failed"]
    /\ Answer(r, MessageStatus(code[r]))
    /\ UNCHANGED <<sources, convs, messages, dbcite, cited, link, audit,
                   inputs, memory, history>>

SaveFailedExecution(r) ==
    /\ pc[r] = "saveFailed"
    /\ conns[copy[r].conn] # "deleted"
    /\ exec' = [exec EXCEPT ![r] = code[r]]
    /\ Answer(r, MessageStatus(code[r]))
    /\ UNCHANGED <<sources, convs, messages, dbcite, cited, link, audit,
                   inputs, memory, history>>

SaveFailedExecutionConflict(r) ==
    /\ pc[r] = "saveFailed"
    /\ conns[copy[r].conn] = "deleted"
    /\ Raise(r, MessageStatus("IntegrityError"))

\* retrieve_relevant_chunks: the similarity threshold and top_k keep any part
\* of what search_document_chunks can see.
Searchable(u, b) ==
    {d \in embedded : DocKB[d] = b /\ KBTenant[b] = TenantOf[u]}

RetrieveRelevantChunks(r) ==
    /\ pc[r] = "retrieve"
    /\ GetKnowledgeBase(caller[r], copy[r].kb)
    /\ \E found \in SUBSET Searchable(caller[r], copy[r].kb) :
           matches' = [matches EXCEPT ![r] =
                           [d \in Docs |-> IF d \in found THEN gen[d] ELSE 0]]
    /\ Goto(r, "saveExchange")
    /\ UNCHANGED <<sources, rows, inputs, code, page, shown, resp, history>>

\* A question that is blank once stripped, or an embedding that fails.
RetrieveRaises(r) ==
    /\ pc[r] = "retrieve"
    /\ Raise(r, MessageStatus(IF GetKnowledgeBase(caller[r], copy[r].kb)
                              THEN "DocumentRetrievalError"
                              ELSE "KnowledgeBaseNotFoundError"))

Matched(r) == {d \in Docs : matches[r][d] # 0}

\* The foreign keys of the execution and of the citations hold.
ReferencesHold(r) ==
    /\ kind[r] \in QueryModes => conns[copy[r].conn] # "deleted"
    /\ \A d \in Matched(r) : matches[r][d] = gen[d]

\* Mutant: the question is committed before the rest is written.
SaveQuestionFirst(r) ==
    /\ pc[r] = "saveExchange"
    /\ messages' = [messages EXCEPT ![r] = {"user"}]
    /\ Goto(r, "refreshExchange")
    /\ UNCHANGED <<sources, convs, exec, dbcite, cited, link, audit, inputs,
                   memory, resp, history>>

\* The rows of the evidence.  Mutant: in the hybrid mode only the query is cited.
NewExecution(r) == IF kind[r] \in QueryModes THEN "completed" ELSE "none"

NewCitationsQueryOnly(r) == IF kind[r] = "hybrid" THEN {} ELSE Matched(r)

NewCitations(r) == Matched(r)

\* create_message_exchange and its database and hybrid forms: one commit.
SaveExchange(r) ==
    /\ pc[r] = "saveExchange"
    /\ ReferencesHold(r)
    /\ messages' = [messages EXCEPT ![r] = Roles]
    /\ exec' = [exec EXCEPT ![r] = NewExecution(r)]
    /\ dbcite' = [dbcite EXCEPT ![r] = IF kind[r] \in QueryModes
                                       THEN "linked" ELSE "none"]
    /\ cited' = [cited EXCEPT ![r] = NewCitations(r)]
    /\ link' = [link EXCEPT ![r] = matches[r]]
    /\ Goto(r, "refreshExchange")
    /\ UNCHANGED <<sources, convs, audit, inputs, memory, resp, history>>

SaveExchangeConflict(r) ==
    /\ pc[r] = "saveExchange"
    /\ ~ReferencesHold(r)
    /\ Raise(r, MessageStatus("IntegrityError"))

\* The stored rows are loaded once more.  The execution goes with its
\* connection, and the refresh of a missing row raises.
RefreshExchange(r) ==
    /\ pc[r] = "refreshExchange"
    /\ kind[r] \in QueryModes => exec[r] # "none"
    /\ \/ /\ kind[r] = "hybrid"
          /\ Goto(r, "audit")
          /\ UNCHANGED <<sources, rows, inputs, memory, resp, history>>
       \/ /\ kind[r] # "hybrid"
          /\ Raise(r, 201)

RefreshExchangeMissing(r) ==
    /\ pc[r] = "refreshExchange"
    /\ kind[r] \in QueryModes /\ exec[r] = "none"
    /\ Raise(r, MessageStatus("InvalidRequestError"))

\* Mutant: the event is added and the answer given without a commit.
RecordAuditEventUncommitted(r) ==
    /\ pc[r] = "audit"
    /\ Raise(r, 201)

\* record_audit_event, in a transaction of its own.
RecordAuditEvent(r) ==
    /\ pc[r] = "audit"
    /\ audit' = audit \cup {r}
    /\ Goto(r, "refreshAudit")
    /\ UNCHANGED <<sources, convs, messages, exec, dbcite, cited, link,
                   inputs, memory, resp, history>>

RefreshAudit(r) ==
    /\ pc[r] = "refreshAudit"
    /\ Raise(r, 201)

-----------------------------------------------------------------------------
(* get_conversation_messages: the messages of a page, then their citations *)
(* in a statement of its own.                                              *)

CreateListing(r, u, v) ==
    /\ pc[r] = "idle"
    /\ \/ /\ GetConversation(u, v)
          /\ Begin(r, "list", u, v, convs[v], "listMessages")
       \/ /\ ~GetConversation(u, v)
          /\ Refuse(r, "list", MessageStatus("ConversationNotFoundError"))

\* offset and limit select some of the answers.
ListMessages(r) ==
    LET answers == {q \in Requests : conv[q] = conv[r]
                                         /\ "assistant" \in messages[q]}
    IN  /\ pc[r] = "listMessages"
        /\ \E some \in SUBSET answers : page' = [page EXCEPT ![r] = some]
        /\ Goto(r, "listCitations")
        /\ UNCHANGED <<sources, rows, inputs, matches, code, shown, resp,
                       history>>

\* Mutant: citations are joined with the chunks they link to.
ListCitationsJoined(r) ==
    /\ pc[r] = "listCitations"
    /\ shown' = [shown EXCEPT ![r] = {p \in page[r] \X Docs :
                                          /\ p[2] \in cited[p[1]]
                                          /\ link[p[1]][p[2]] # 0}]
    /\ Answer(r, 200)
    /\ UNCHANGED <<sources, rows, inputs, matches, code, page, history>>

ListCitations(r) ==
    /\ pc[r] = "listCitations"
    /\ shown' = [shown EXCEPT ![r] = {p \in page[r] \X Docs :
                                          p[2] \in cited[p[1]]}]
    /\ Answer(r, 200)
    /\ UNCHANGED <<sources, rows, inputs, matches, code, page, history>>

-----------------------------------------------------------------------------
(* Other components: process and embed requests, connection requests.      *)

\* replace_document_chunks: the old rows go, and citations of them keep the
\* excerpt but lose the link (document_chunk_id, SET NULL).
ReplaceChunks(d) ==
    /\ gen[d] < MaxGeneration
    /\ gen' = [gen EXCEPT ![d] = @ + 1]
    /\ embedded' = embedded \ {d}
    /\ link' = [r \in Requests |-> [link[r] EXCEPT ![d] = 0]]
    /\ UNCHANGED <<conns, convs, messages, exec, dbcite, cited, audit, pc,
                   inputs, memory, resp, history>>

EmbedDocument(d) ==
    /\ d \notin embedded
    /\ embedded' = embedded \cup {d}
    /\ UNCHANGED <<conns, gen, rows, pc, inputs, memory, resp, history>>

UpdateConnection(c) ==
    /\ conns[c] # "deleted"
    /\ \E status \in {"usable", "disabled"} \ {conns[c]} :
           conns' = [conns EXCEPT ![c] = status]
    /\ UNCHANGED <<gen, embedded, rows, pc, inputs, memory, resp, history>>

\* Mutant: the foreign key of a citation does nothing on delete.
DeleteConnectionUnlinked(c) ==
    /\ conns[c] # "deleted"
    /\ conns' = [conns EXCEPT ![c] = "deleted"]
    /\ convs' = [v \in Convs |->
                     IF convs[v] # NoRow /\ convs[v].conn = c
                     THEN [convs[v] EXCEPT !.conn = NoConn] ELSE convs[v]]
    /\ exec' = [r \in Requests |->
                    IF copy[r] # NoRow /\ copy[r].conn = c
                    THEN "none" ELSE exec[r]]
    /\ UNCHANGED <<gen, embedded, messages, dbcite, cited, link, audit, pc,
                   inputs, memory, resp, history>>

\* A connection takes its executions with it (CASCADE); conversations and
\* citations lose the link (SET NULL).
DeleteConnection(c) ==
    LET of(r) == copy[r] # NoRow /\ copy[r].conn = c
    IN  /\ conns[c] # "deleted"
        /\ conns' = [conns EXCEPT ![c] = "deleted"]
        /\ convs' = [v \in Convs |->
                         IF convs[v] # NoRow /\ convs[v].conn = c
                         THEN [convs[v] EXCEPT !.conn = NoConn] ELSE convs[v]]
        /\ exec' = [r \in Requests |-> IF of(r) THEN "none" ELSE exec[r]]
        /\ dbcite' = [r \in Requests |->
                          IF of(r) /\ dbcite[r] = "linked"
                          THEN "null" ELSE dbcite[r]]
        /\ UNCHANGED <<gen, embedded, messages, cited, link, audit, pc,
                       inputs, memory, resp, history>>

-----------------------------------------------------------------------------
\* A statement or commit raises SQLAlchemyError, or the worker dies; nothing of
\* the open transaction is applied.  The status is 500; the client of a dead
\* worker gets none, and knows as little.
Abort(r) ==
    /\ pc[r] \in WorkingLabels
    /\ Cardinality(faulted \cup {r}) <= MaxFaults
    /\ faulted' = faulted \cup {r}
    /\ Answer(r, 500)
    /\ UNCHANGED <<sources, rows, inputs, memory, ran>>

Arrive(r) ==
    \E u \in Users, v \in Convs :
        \/ \E mode \in ConversationMode : CreateMessage(r, u, v, mode)
        \/ CreateListing(r, u, v)
        \/ \E mode \in ConversationMode,
              c \in Conns \cup {NoConn}, b \in KBs \cup {NoKB} :
               CreateConversation(r, u, v, mode, c, b)

Serve(r) ==
    \/ InsertConversation(r) \/ InsertConversationConflict(r)
    \/ RefreshConversation(r)
    \/ SecureQuery(r) \/ SecureQueryRaises(r)
    \/ ExecuteQuery(r) \/ ExecuteQueryFails(r)
    \/ ExecuteQueryRaises(r)
    \/ SaveFailedExecution(r) \/ SaveFailedExecutionConflict(r)
    \/ RetrieveRelevantChunks(r) \/ RetrieveRaises(r)
    \/ SaveExchange(r) \/ SaveExchangeConflict(r)
    \/ RefreshExchange(r) \/ RefreshExchangeMissing(r)
    \/ RecordAuditEvent(r) \/ RefreshAudit(r)
    \/ ListMessages(r) \/ ListCitations(r)

OtherComponents ==
    \/ \E d \in Docs : ReplaceChunks(d) \/ EmbedDocument(d)
    \/ \E c \in Conns : UpdateConnection(c) \/ DeleteConnection(c)

Terminated ==
    /\ \A r \in Requests : pc[r] = "done"
    /\ UNCHANGED vars

Next ==
    \/ \E r \in Requests : Arrive(r) \/ Serve(r) \/ Abort(r)
    \/ OtherComponents
    \/ Terminated

Spec == Init /\ [][Next]_vars

-----------------------------------------------------------------------------
(* Properties.                                                             *)

Stored(r) == messages[r] # {}
ConnectionAlive(r) == conns[copy[r].conn] # "deleted"

\* What the client of an exchange has been told.
Outcome(r) ==
    IF kind[r] \notin ConversationMode \/ pc[r] # "done" THEN "pending"
    ELSE IF resp[r] = 201 THEN "created"
    ELSE IF resp[r] = 500 THEN "unknown"
    ELSE "refused"

Ledger == INSTANCE ExchangeLedger
              WITH Exchanges <- Requests, stored <- messages,
                   outcome <- [r \in Requests |-> Outcome(r)]

\* Every endpoint keeps the promise of ExchangeLedger: no interleaving with
\* deletes and replaced chunks, and no fault, stores half an exchange, changes
\* one that is stored, confirms one that is not or refuses one that is.
ImplementsLedger == Ledger!Spec

\* An exchange is stored with exactly the evidence its answer was built from:
\* one citation per chunk found, and in the modes that query the database a
\* citation of the query and its execution row, which only the deletion of
\* its connection takes away.  A request without an exchange has none of it.
ExchangeIsWhole ==
    \A r \in Requests :
        IF Stored(r)
        THEN /\ messages[r] = Roles
             /\ cited[r] = Matched(r)
             /\ kind[r] \in QueryModes =>
                    /\ dbcite[r] # "none"
                    /\ exec[r] = IF ConnectionAlive(r)
                                 THEN "completed" ELSE "none"
             /\ kind[r] = "document" => exec[r] = "none" /\ dbcite[r] = "none"
        ELSE cited[r] = {} /\ dbcite[r] = "none" /\ exec[r] # "completed"

\* The links of evidence never dangle: a citation's chunk is a current row of
\* its document and its execution exists, an execution's connection exists,
\* and so does the connection of a conversation.
EvidenceNeverDangles ==
    /\ \A r \in Requests :
           /\ \A d \in Docs : link[r][d] # 0 => link[r][d] = gen[d]
           /\ dbcite[r] = "linked" => exec[r] = "completed"
           /\ exec[r] # "none" => ConnectionAlive(r)
    /\ \A v \in Convs :
           convs[v] # NoRow /\ convs[v].conn # NoConn
               => conns[convs[v].conn] # "deleted"

\* Queries leave their trace as long as their connection exists.  One that the
\* security check refused or that failed is on record under the code the client
\* was answered with, and never has an exchange.  One that the remote database
\* answered for a database conversation is on record as completed when its
\* request is over, unless the request met a fault.  (A hybrid request whose
\* retrieval fails after the query leaves no row.)
QueriesAreOnRecord ==
    \A r \in Requests :
        /\ (resp[r] \in {403, 413, 502, 504} /\ ConnectionAlive(r))
               => exec[r] \in ErrorCodes /\ MessageStatus(exec[r]) = resp[r]
        /\ exec[r] \in ErrorCodes => ~Stored(r)
        /\ /\ r \in ran \ faulted /\ kind[r] = "database" /\ pc[r] = "done"
           /\ ConnectionAlive(r)
           => exec[r] = "completed"

\* A hybrid exchange that is confirmed has its audit event, and an event
\* speaks of an exchange that is stored.  (No database exchange has one.)
HybridExchangeIsAudited ==
    /\ \A r \in Requests : kind[r] = "hybrid" /\ resp[r] = 201 => r \in audit
    /\ \A r \in audit : kind[r] = "hybrid" /\ Stored(r)

\* A conversation belongs to one user: only that user's exchanges are stored
\* in it, with evidence of that user's tenant, and only that user lists them.
ConversationIsPrivate ==
    \A r \in Requests :
        /\ Stored(r) =>
               /\ convs[conv[r]] # NoRow /\ convs[conv[r]].user = caller[r]
               /\ \A d \in cited[r] : KBTenant[DocKB[d]] = TenantOf[caller[r]]
               /\ kind[r] \in QueryModes =>
                      ConnTenant[copy[r].conn] = TenantOf[caller[r]]
        /\ \A q \in page[r] : caller[q] = caller[r]

\* A listing shows every citation of each answer on its page, although it
\* reads them in a later statement than the answers.
ListedAnswersAreCited ==
    \A r \in Requests :
        resp[r] = 200 =>
            \A q \in page[r] : {d \in Docs : <<q, d>> \in shown[r]} = Matched(q)
=============================================================================
