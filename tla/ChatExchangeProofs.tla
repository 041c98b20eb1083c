-------------------------- MODULE ChatExchangeProofs --------------------------
(***************************************************************************)
(* The promises of the chat endpoints, for any number of requests, users,  *)
(* conversations, connections, documents and faults.                       *)
(*                                                                         *)
(* A step of a request changes what belongs to that request and, where it  *)
(* inserts a conversation, the conversation that only it knows of; steps   *)
(* of other components change what requests refer to.  Each invariant is   *)
(* therefore stated of one request, and shown of the request that steps,   *)
(* of the others (RequestFrame), and under a change of what is referred to.*)
(***************************************************************************)
EXTENDS ChatExchange, TLAPS

USE DEF sources, rows, inputs, memory, history

-----------------------------------------------------------------------------
(* The parts of the inductive invariant.                                   *)

CreateLabels == {"insertConversation", "refreshConversation"}
QueryLabels == {"secure", "execute", "saveFailed"}
ListLabels == {"listMessages", "listCitations"}
StoredLabels == {"refreshExchange", "audit", "refreshAudit"}
UnstoredLabels == {"idle", "retrieve", "saveExchange"}
                      \cup CreateLabels \cup QueryLabels \cup ListLabels

\* A handler is at a step of its own endpoint, with the row it has loaded.
HandlerAt(r) ==
    /\ pc[r] = "idle" => /\ kind[r] = "none" /\ copy[r] = NoRow
                         /\ conv[r] = NoConv /\ resp[r] = 0
    /\ pc[r] \in WorkingLabels => resp[r] = 0 /\ copy[r] # NoRow
    /\ pc[r] \in CreateLabels => kind[r] = "create"
    /\ pc[r] \in QueryLabels => kind[r] \in QueryModes
    /\ pc[r] = "retrieve" => kind[r] \in RetrievalModes
    /\ pc[r] \in {"saveExchange", "refreshExchange"} =>
           kind[r] \in ConversationMode
    /\ pc[r] \in {"audit", "refreshAudit"} => kind[r] = "hybrid"
    /\ pc[r] \in ListLabels => kind[r] = "list"
    /\ pc[r] = "saveFailed" => code[r] \in ErrorCodes

\* The row a message or a listing works on is one of the caller's.
CopyAt(r) ==
    copy[r] # NoRow =>
        /\ caller[r] \in Users /\ conv[r] \in Convs /\ copy[r] \in Conversation
        /\ copy[r].user = caller[r]
        /\ kind[r] \in ConversationMode \cup {"list", "create"}
        /\ kind[r] \in QueryModes => copy[r].conn \in Conns
        /\ kind[r] \in RetrievalModes => copy[r].kb \in KBs

\* A conversation is unknown to all others until it is inserted, and then
\* belongs to the user whose requests know it.
ConversationInv ==
    /\ \A r \in Requests :
           pc[r] = "insertConversation" =>
               /\ convs[conv[r]] = NoRow
               /\ \A q \in Requests : conv[q] = conv[r] => q = r
    /\ \A r \in Requests :
           copy[r] # NoRow /\ kind[r] \in ConversationMode \cup {"list"} =>
               convs[conv[r]] # NoRow /\ convs[conv[r]].user = caller[r]
    /\ \A v \in Convs :
           convs[v] # NoRow /\ convs[v].conn # NoConn
               => conns[convs[v].conn] # "deleted"

\* What is stored of an exchange, at each stage.
EvidenceAt(r) ==
    /\ pc[r] \in UnstoredLabels => messages[r] = {} /\ exec[r] = "none"
    /\ pc[r] \in StoredLabels => Stored(r)
    /\ Stored(r) => kind[r] \in ConversationMode /\ copy[r] # NoRow
    /\ exec[r] # "none" => kind[r] \in QueryModes /\ copy[r] # NoRow
    /\ IF Stored(r)
       THEN /\ messages[r] = Roles
            /\ cited[r] = Matched(r)
            /\ kind[r] \in QueryModes =>
                   /\ dbcite[r] # "none"
                   /\ exec[r] = IF ConnectionAlive(r)
                                THEN "completed" ELSE "none"
            /\ kind[r] = "document" => exec[r] = "none" /\ dbcite[r] = "none"
       ELSE cited[r] = {} /\ dbcite[r] = "none" /\ exec[r] # "completed"

LinksAt(r) ==
    /\ \A d \in Docs : link[r][d] # 0 => link[r][d] = gen[d]
    /\ dbcite[r] = "linked" => exec[r] = "completed"
    /\ exec[r] # "none" => ConnectionAlive(r)

\* A query that was answered, and one that was not.
QueryAt(r) ==
    /\ r \in ran => pc[r] \notin {"idle"} \cup QueryLabels /\ copy[r] # NoRow
    /\ kind[r] \in {"none", "database"} => matches[r] = NoMatches
    /\ resp[r] \in {403, 413, 502, 504} =>
           /\ kind[r] \in QueryModes /\ copy[r] # NoRow
           /\ ConnectionAlive(r) => /\ exec[r] \in ErrorCodes
                                    /\ MessageStatus(exec[r]) = resp[r]
    /\ /\ r \in ran \ faulted /\ kind[r] = "database" /\ pc[r] = "done"
       /\ ConnectionAlive(r)
       => exec[r] = "completed"

AuditAt(r) ==
    /\ r \in audit => kind[r] = "hybrid" /\ Stored(r)
    /\ pc[r] = "refreshAudit" => r \in audit
    /\ kind[r] = "hybrid" /\ resp[r] = 201 => r \in audit

\* Evidence is of the tenant of the caller.
TenantAt(r) ==
    /\ \A d \in Matched(r) : KBTenant[DocKB[d]] = TenantOf[caller[r]]
    /\ /\ kind[r] \in QueryModes
       /\ Stored(r) \/ pc[r] \in WorkingLabels \ {"secure"}
       => ConnTenant[copy[r].conn] = TenantOf[caller[r]]

\* A listing holds stored answers of its caller, and all their citations.
PageAt(r) ==
    /\ page[r] # {} => pc[r] \in {"listCitations", "done"}
    /\ \A q \in page[r] : Stored(q) /\ caller[q] = caller[r]
    /\ resp[r] = 200 =>
           \A q \in page[r] : {d \in Docs : <<q, d>> \in shown[r]} = Matched(q)

PageInv == \A r \in Requests : PageAt(r)

RequestInv ==
    \A r \in Requests :
        /\ HandlerAt(r) /\ CopyAt(r) /\ EvidenceAt(r) /\ LinksAt(r)
        /\ QueryAt(r) /\ AuditAt(r) /\ TenantAt(r)

-----------------------------------------------------------------------------
(* Statuses and steps.                                                     *)

\* The status of every error, as the chat routes map it.
LEMMA Statuses ==
    /\ MessageStatus("ConversationNotFoundError") = 404
    /\ MessageStatus("KnowledgeBaseNotFoundError") = 404
    /\ MessageStatus("UnsupportedConversationModeError") = 409
    /\ MessageStatus("DocumentRetrievalError") = 422
    /\ MessageStatus("DatabaseConnectionNotFoundError") = 500
    /\ MessageStatus("ValueError") = 500
    /\ MessageStatus("TokenError") = 500
    /\ MessageStatus("IntegrityError") = 500
    /\ MessageStatus("InvalidRequestError") = 500
    /\ \A error \in ErrorCodes :
           MessageStatus(error) \in {403, 413, 502, 504}
    /\ ConversationStatus("IntegrityError") = 500
    /\ \A error : ConversationStatus(error) \in {404, 422, 500}
BY DEF MessageStatus, ConversationStatus, ErrorCodes

\* Every step is one of these.
LEMMA Steps ==
    ASSUME [Next]_vars
    PROVE  \/ \E r \in Requests : Arrive(r)
           \/ \E r \in Requests : Serve(r)
           \/ \E r \in Requests : Abort(r)
           \/ \E d \in Docs : ReplaceChunks(d)
           \/ \E d \in Docs : EmbedDocument(d)
           \/ \E c \in Conns : UpdateConnection(c)
           \/ \E c \in Conns : DeleteConnection(c)
           \/ UNCHANGED vars
BY DEF Next, OtherComponents, Terminated

\* What a request may do that arrives: it begins its work, or is refused.
Begins(r) ==
    \E u \in Users, v \in Convs, row \in Conversation :
        /\ row.user = u
        /\ \/ /\ convs[v] = row /\ row.conn # NoConn /\ row.kb # NoKB
              /\ Begin(r, "hybrid", u, v, row, "secure")
           \/ /\ convs[v] = row /\ row.conn # NoConn
              /\ Begin(r, "database", u, v, row, "secure")
           \/ /\ convs[v] = row /\ row.kb # NoKB
              /\ Begin(r, "document", u, v, row, "retrieve")
           \/ /\ convs[v] = row
              /\ Begin(r, "list", u, v, row, "listMessages")
           \/ /\ convs[v] = NoRow /\ \A q \in Requests : conv[q] # v
              /\ Begin(r, "create", u, v, row, "insertConversation")

Refused(r) ==
    \E k \in ConversationMode \cup {"create", "list"},
       status \in {404, 409, 422, 500} :
        /\ k \in ConversationMode => status # 500
        /\ Refuse(r, k, status)

\* A request that arrives is begun, with a row its caller may use, or refused.
LEMMA Arrivals ==
    ASSUME TypeOK, NEW r \in Requests, Arrive(r)
    PROVE  pc[r] = "idle" /\ (Begins(r) \/ Refused(r))
<1> USE DEF Begins, Refused
<1>1. PICK u \in Users, v \in Convs :
          \/ \E mode \in ConversationMode : CreateMessage(r, u, v, mode)
          \/ CreateListing(r, u, v)
          \/ \E mode \in ConversationMode,
                c \in Conns \cup {NoConn}, b \in KBs \cup {NoKB} :
                 CreateConversation(r, u, v, mode, c, b)
  BY DEF Arrive
<1>2. GetConversation(u, v) => convs[v] \in Conversation /\ convs[v].user = u
  BY DEF GetConversation, TypeOK
<1>3. ASSUME NEW mode \in ConversationMode, CreateMessage(r, u, v, mode)
      PROVE  pc[r] = "idle" /\ (Begins(r) \/ Refused(r))
  <2>1. pc[r] = "idle"
    BY <1>3 DEF CreateMessage
  <2>2. CASE MessageChecks(u, v, mode) = "ok"
    <3>1. /\ GetConversation(u, v)
          /\ mode \in QueryModes => convs[v].conn # NoConn
          /\ mode \in RetrievalModes => convs[v].kb # NoKB
      BY <2>2 DEF MessageChecks
    <3>2. Begin(r, mode, u, v, convs[v],
                IF mode = "document" THEN "retrieve" ELSE "secure")
      BY <1>3, <2>2 DEF CreateMessage
    <3>3. CASE mode = "hybrid"
      BY <1>2, <2>1, <3>1, <3>2, <3>3 DEF QueryModes, RetrievalModes
    <3>4. CASE mode = "database"
      BY <1>2, <2>1, <3>1, <3>2, <3>4 DEF QueryModes
    <3>5. CASE mode = "document"
      BY <1>2, <2>1, <3>1, <3>2, <3>5 DEF RetrievalModes
    <3> QED
      BY <3>3, <3>4, <3>5 DEF ConversationMode
  <2>3. CASE MessageChecks(u, v, mode) # "ok"
    <3>1. Refuse(r, mode, MessageStatus(MessageChecks(u, v, mode)))
      BY <1>3, <2>3 DEF CreateMessage
    <3>2. MessageChecks(u, v, mode) \in {"ConversationNotFoundError",
                                         "UnsupportedConversationModeError"}
      BY <2>3 DEF MessageChecks
    <3>3. MessageStatus(MessageChecks(u, v, mode)) \in {404, 409}
      BY <3>2, Statuses
    <3> QED
      BY <2>1, <3>1, <3>3
  <2> QED
    BY <2>2, <2>3
<1>4. CASE CreateListing(r, u, v)
  BY <1>2, <1>4, Statuses DEF CreateListing
<1>5. ASSUME NEW mode \in ConversationMode, NEW c \in Conns \cup {NoConn},
             NEW b \in KBs \cup {NoKB}, CreateConversation(r, u, v, mode, c, b)
      PROVE  pc[r] = "idle" /\ (Begins(r) \/ Refused(r))
  <2> DEFINE error == ValidateConversationSources(u, mode, c, b)
             row == [user |-> u, mode |-> mode, conn |-> c, kb |-> b]
  <2>1. /\ pc[r] = "idle" /\ convs[v] = NoRow
        /\ \A q \in Requests : conv[q] # v
        /\ \/ Begin(r, "create", u, v, row, "insertConversation")
           \/ Refuse(r, "create", ConversationStatus(error))
    BY <1>5 DEF CreateConversation
  <2>2. row \in Conversation /\ row.user = u
    BY DEF Conversation
  <2> HIDE DEF row, error
  <2>3. ConversationStatus(error) \in {404, 422, 500}
    BY Statuses
  <2>4. "create" \notin ConversationMode
    BY DEF ConversationMode
  <2> QED
    BY <2>1, <2>2, <2>3, <2>4
<1> QED
  BY <1>1, <1>3, <1>4, <1>5

\* What belongs to the other requests stays as it is.
OthersUnchanged(r) ==
    \A q \in Requests \ {r} :
        /\ messages'[q] = messages[q] /\ exec'[q] = exec[q]
        /\ dbcite'[q] = dbcite[q] /\ cited'[q] = cited[q] /\ link'[q] = link[q]
        /\ pc'[q] = pc[q] /\ kind'[q] = kind[q] /\ caller'[q] = caller[q]
        /\ conv'[q] = conv[q] /\ copy'[q] = copy[q] /\ matches'[q] = matches[q]
        /\ code'[q] = code[q] /\ page'[q] = page[q] /\ shown'[q] = shown[q]
        /\ resp'[q] = resp[q]
        /\ q \in audit' <=> q \in audit
        /\ q \in ran' <=> q \in ran
        /\ q \in faulted' <=> q \in faulted

\* A step of a request leaves the other requests alone, and its own inputs
\* once it was let in; only the commit of a conversation changes that table.
LEMMA RequestFrame ==
    ASSUME TypeOK, NEW r \in Requests, Arrive(r) \/ Serve(r) \/ Abort(r)
    PROVE  /\ OthersUnchanged(r)
           /\ UNCHANGED <<conns, gen, embedded>>
           /\ ~InsertConversation(r) => UNCHANGED convs
           /\ ~Arrive(r) => UNCHANGED <<kind, caller, conv, copy>>
<1> USE DEF TypeOK, OthersUnchanged, Goto, Answer
<1>1. CASE Arrive(r)
  <2>1. CASE Begins(r)
    BY <1>1, <2>1 DEF Begins, Begin
  <2>2. CASE Refused(r)
    BY <1>1, <2>2 DEF Refused, Refuse
  <2> QED
    BY <1>1, <2>1, <2>2, Arrivals
<1>2. CASE Abort(r)
  BY <1>2 DEF Abort
<1>3. CASE \/ InsertConversation(r) \/ InsertConversationConflict(r)
           \/ RefreshConversation(r) \/ SecureQueryRaises(r)
           \/ ExecuteQueryRaises(r)
  BY <1>3 DEF InsertConversation, InsertConversationConflict,
              RefreshConversation, SecureQueryRaises, ExecuteQueryRaises, Raise
<1>4. CASE \/ SecureQuery(r) \/ ExecuteQuery(r) \/ ExecuteQueryFails(r)
           \/ SaveFailedExecution(r)
  BY <1>4 DEF SecureQuery, ExecuteQuery, ExecuteQueryFails, SaveFailedExecution
<1>5. CASE \/ SaveFailedExecutionConflict(r) \/ RetrieveRaises(r)
           \/ SaveExchangeConflict(r) \/ RefreshExchangeMissing(r)
           \/ RefreshAudit(r)
  BY <1>5 DEF SaveFailedExecutionConflict, RetrieveRaises,
              SaveExchangeConflict, RefreshExchangeMissing, RefreshAudit, Raise
<1>6. CASE RetrieveRelevantChunks(r)
  BY <1>6 DEF RetrieveRelevantChunks
<1>7. CASE SaveExchange(r)
  BY <1>7 DEF SaveExchange
<1>8. CASE RefreshExchange(r) \/ RecordAuditEvent(r)
  BY <1>8 DEF RefreshExchange, Raise, RecordAuditEvent
<1>9. CASE ListMessages(r) \/ ListCitations(r)
  BY <1>9 DEF ListMessages, ListCitations
<1> QED
  BY <1>1, <1>2, <1>3, <1>4, <1>5, <1>6, <1>7, <1>8, <1>9 DEF Serve

\* The steps that answer and change nothing else.
OnlyAnswers(r) ==
    \/ InsertConversationConflict(r) \/ RefreshConversation(r)
    \/ SecureQueryRaises(r) \/ ExecuteQueryRaises(r)
    \/ SaveFailedExecutionConflict(r) \/ RetrieveRaises(r)
    \/ SaveExchangeConflict(r) \/ RefreshExchangeMissing(r)
    \/ RefreshAudit(r)

\* The steps that only answer: what the routes make of the errors, and the
\* refreshes that end a request.
LEMMA Raises ==
    ASSUME NEW r \in Requests, OnlyAnswers(r)
    PROVE  /\ pc[r] \in WorkingLabels
           /\ \E status \in {201, 404, 422, 500} : Raise(r, status)
BY Statuses DEF OnlyAnswers, InsertConversationConflict, RefreshConversation,
       SecureQueryRaises, ExecuteQueryRaises, SaveFailedExecutionConflict,
       RetrieveRaises, SaveExchangeConflict, RefreshExchangeMissing,
       RefreshAudit, WorkingLabels

-----------------------------------------------------------------------------
(* Type correctness.                                                       *)

\* Before any request everything is empty, and well typed.
LEMMA TypeInit == Init => TypeOK
<1> SUFFICES ASSUME Init PROVE TypeOK
  OBVIOUS
<1>1. NoMatches \in [Docs -> Nat]
  BY DEF NoMatches
<1> QED
  BY <1>1 DEF Init, TypeOK, QueryExecution, MessageCitation

\* Every step of a request or of another component keeps the types.
LEMMA TypeStep == TypeOK /\ [Next]_vars => TypeOK'
<1> SUFFICES ASSUME TypeOK, [Next]_vars PROVE TypeOK'
  OBVIOUS
<1> USE DEF TypeOK, Goto, Answer, WorkingLabels
<1>1. ASSUME NEW r \in Requests, Arrive(r) PROVE TypeOK'
  <2>1. CASE Begins(r)
    <3>1. PICK u \in Users, v \in Convs, row \in Conversation,
               k \in ConversationMode \cup {"create", "list"},
               label \in WorkingLabels : Begin(r, k, u, v, row, label)
      BY <2>1 DEF Begins, ConversationMode
    <3> QED
      BY <3>1 DEF Begin
  <2>2. CASE Refused(r)
    BY <2>2 DEF Refused, Refuse
  <2> QED
    BY <1>1, <2>1, <2>2, Arrivals
<1>2. ASSUME NEW r \in Requests, Serve(r) PROVE TypeOK'
  <2>1. CASE \E status \in Nat : Raise(r, status)
    BY <2>1 DEF Raise
  <2>2. CASE OnlyAnswers(r)
    <3>1. \E status \in {201, 404, 422, 500} : Raise(r, status)
      BY <2>2, Raises
    <3> QED
      BY <2>1, <3>1
  <2>3. CASE InsertConversation(r)
    BY <2>3 DEF InsertConversation
  <2>4. CASE SecureQuery(r)
    <3>1. code' \in [Requests -> ErrorCodes \cup {"none"}]
      BY <2>4 DEF SecureQuery, ErrorCodes
    <3>2. PICK label \in {"execute", "saveFailed"} :
              pc' = [pc EXCEPT ![r] = label]
      BY <2>4 DEF SecureQuery
    <3> QED
      BY <2>4, <3>1, <3>2 DEF SecureQuery
  <2>5. CASE ExecuteQuery(r)
    BY <2>5 DEF ExecuteQuery
  <2>6. CASE ExecuteQueryFails(r)
    BY <2>6 DEF ExecuteQueryFails
  <2>7. CASE SaveFailedExecution(r)
    <3>1. MessageStatus(code[r]) \in Nat /\ code[r] \in QueryExecution
      BY DEF MessageStatus, QueryExecution
    <3> QED
      BY <2>7, <3>1 DEF SaveFailedExecution
  <2>8. CASE RetrieveRelevantChunks(r)
    BY <2>8 DEF RetrieveRelevantChunks
  <2>9. CASE SaveExchange(r)
    <3>1. /\ NewExecution(r) \in QueryExecution /\ NewCitations(r) \in SUBSET Docs
          /\ (IF kind[r] \in QueryModes THEN "linked" ELSE "none")
                 \in MessageCitation
      BY DEF NewExecution, NewCitations, Matched, QueryExecution,
             MessageCitation
    <3> QED
      BY <2>9, <3>1 DEF SaveExchange
  <2>10. CASE RefreshExchange(r)
    <3>1. CASE Raise(r, 201)
      BY <2>1, <3>1
    <3>2. CASE /\ Goto(r, "audit")
               /\ UNCHANGED <<sources, rows, inputs, memory, resp, history>>
      BY <3>2
    <3> QED
      BY <2>10, <3>1, <3>2 DEF RefreshExchange
  <2>11. CASE RecordAuditEvent(r)
    BY <2>11 DEF RecordAuditEvent
  <2>12. CASE ListMessages(r)
    BY <2>12 DEF ListMessages
  <2>13. CASE ListCitations(r)
    <3>1. {p \in page[r] \X Docs : p[2] \in cited[p[1]]}
              \in SUBSET (Requests \X Docs)
      OBVIOUS
    <3> QED
      BY <2>13, <3>1 DEF ListCitations
  <2> QED
    BY <1>2, <2>2, <2>3, <2>4, <2>5, <2>6, <2>7, <2>8, <2>9, <2>10, <2>11,
       <2>12, <2>13 DEF Serve, OnlyAnswers
<1>3. ASSUME NEW r \in Requests, Abort(r) PROVE TypeOK'
  BY <1>3 DEF Abort
<1>4. ASSUME NEW d \in Docs, ReplaceChunks(d) PROVE TypeOK'
  BY <1>4 DEF ReplaceChunks
<1>5. ASSUME NEW d \in Docs, EmbedDocument(d) PROVE TypeOK'
  BY <1>5 DEF EmbedDocument
<1>6. ASSUME NEW c \in Conns, UpdateConnection(c) PROVE TypeOK'
  BY <1>6 DEF UpdateConnection
<1>7. ASSUME NEW c \in Conns, DeleteConnection(c) PROVE TypeOK'
  <2>1. \A row \in Conversation : [row EXCEPT !.conn = NoConn] \in Conversation
    BY DEF Conversation
  <2>2. convs' \in [Convs -> Conversation \cup {NoRow}]
    BY <1>7, <2>1 DEF DeleteConnection
  <2>3. /\ exec' \in [Requests -> QueryExecution]
        /\ dbcite' \in [Requests -> MessageCitation]
    BY <1>7 DEF DeleteConnection, QueryExecution, MessageCitation
  <2> QED
    BY <1>7, <2>2, <2>3 DEF DeleteConnection
<1>8. CASE UNCHANGED vars
  BY <1>8 DEF vars
<1> QED
  BY <1>1, <1>2, <1>3, <1>4, <1>5, <1>6, <1>7, <1>8, Steps

\* Rows and handlers keep their types; above all, what is stored of a query
\* that failed is a code of the schema (create_database_message).
THEOREM ChatTypeCorrect == Spec => []TypeOK
BY TypeInit, TypeStep, PTL DEF Spec

-----------------------------------------------------------------------------
(* Handlers and the rows they work on.                                     *)

\* What a step of another component leaves to the requests.
LEMMA ComponentFrame ==
    ASSUME \/ \E d \in Docs : ReplaceChunks(d) \/ EmbedDocument(d)
           \/ \E c \in Conns : UpdateConnection(c) \/ DeleteConnection(c)
    PROVE  UNCHANGED <<messages, cited, audit, pc, kind, caller, conv, copy,
                       matches, code, page, shown, resp, ran, faulted>>
BY DEF ReplaceChunks, EmbedDocument, UpdateConnection, DeleteConnection

\* A request that is served was at work, and does not arrive again.
LEMMA ServeMoves ==
    ASSUME TypeOK, NEW r \in Requests, Serve(r) \/ Abort(r)
    PROVE  /\ pc[r] \in WorkingLabels /\ ~Arrive(r)
           /\ pc'[r] \notin {"idle", "insertConversation"}
<1>1. /\ pc[r] \in WorkingLabels
      /\ pc'[r] \notin {"idle", "insertConversation"}
  <2>1. CASE Abort(r)
    BY <2>1 DEF Abort, Answer, Goto, TypeOK
  <2>2. ASSUME NEW status, Raise(r, status) PROVE pc'[r] = "done"
    BY <2>2 DEF Raise, Answer, Goto, TypeOK
  <2>3. CASE \/ SecureQuery(r) \/ ExecuteQuery(r) \/ ExecuteQueryFails(r)
             \/ SaveFailedExecution(r) \/ RetrieveRelevantChunks(r)
             \/ SaveExchange(r) \/ RecordAuditEvent(r) \/ InsertConversation(r)
             \/ ListMessages(r) \/ ListCitations(r)
    BY <2>3 DEF SecureQuery, ExecuteQuery, ExecuteQueryFails,
                SaveFailedExecution, RetrieveRelevantChunks, SaveExchange,
                RecordAuditEvent, InsertConversation, ListMessages,
                ListCitations, Answer, Goto, TypeOK, WorkingLabels
  <2>4. CASE RefreshExchange(r)
    BY <2>2, <2>4 DEF RefreshExchange, Goto, TypeOK, WorkingLabels
  <2>5. CASE OnlyAnswers(r)
    BY <2>2, <2>5, Raises
  <2> QED
    BY <2>1, <2>3, <2>4, <2>5 DEF Serve, OnlyAnswers
<1>2. ~Arrive(r)
  BY <1>1, Arrivals DEF WorkingLabels
<1> QED
  BY <1>1, <1>2

\* Each endpoint keeps to its own steps.
LEMMA HandlerStep ==
    ASSUME TypeOK, \A r \in Requests : HandlerAt(r), [Next]_vars
    PROVE  \A r \in Requests : HandlerAt(r)'
<1> USE DEF HandlerAt, TypeOK, Goto, Answer, WorkingLabels, CreateLabels,
            QueryLabels, ListLabels, ConversationMode, QueryModes,
            RetrievalModes
<1>1. ASSUME NEW r \in Requests, Arrive(r) \/ Serve(r) \/ Abort(r),
             HandlerAt(r)'
      PROVE  \A q \in Requests : HandlerAt(q)'
  <2>1. ASSUME NEW q \in Requests \ {r} PROVE HandlerAt(q)'
    <3>1. /\ pc'[q] = pc[q] /\ kind'[q] = kind[q] /\ copy'[q] = copy[q]
          /\ conv'[q] = conv[q] /\ resp'[q] = resp[q] /\ code'[q] = code[q]
      BY <1>1, RequestFrame DEF OthersUnchanged
    <3> QED
      BY <3>1
  <2> QED
    BY <1>1, <2>1
<1>2. ASSUME NEW r \in Requests, Arrive(r) PROVE HandlerAt(r)'
  <2>1. CASE Begins(r)
    BY <1>2, <2>1, Arrivals, ConstantsAssumption DEF Begins, Begin
  <2>2. CASE Refused(r)
    BY <1>2, <2>2, Arrivals DEF Refused, Refuse
  <2> QED
    BY <1>2, <2>1, <2>2, Arrivals
<1>3. ASSUME NEW r \in Requests, Serve(r) PROVE HandlerAt(r)'
  <2>0. HandlerAt(r)
    OBVIOUS
  <2>1. CASE \E status \in {201, 404, 422, 500} : Raise(r, status)
    BY <2>0, <2>1 DEF Raise
  <2>2. CASE InsertConversation(r)
    BY <2>0, <2>2 DEF InsertConversation
  <2>3. CASE SecureQuery(r)
    BY <2>0, <2>3 DEF SecureQuery, ErrorCodes
  <2>4. CASE ExecuteQuery(r)
    BY <2>0, <2>4 DEF ExecuteQuery
  <2>5. CASE ExecuteQueryFails(r)
    BY <2>0, <2>5 DEF ExecuteQueryFails
  <2>6. CASE SaveFailedExecution(r)
    BY <2>0, <2>6 DEF SaveFailedExecution
  <2>7. CASE RetrieveRelevantChunks(r)
    BY <2>0, <2>7 DEF RetrieveRelevantChunks
  <2>8. CASE SaveExchange(r)
    BY <2>0, <2>8 DEF SaveExchange
  <2>9. CASE RefreshExchange(r)
    BY <2>0, <2>9, <2>1 DEF RefreshExchange
  <2>10. CASE RecordAuditEvent(r)
    BY <2>0, <2>10 DEF RecordAuditEvent
  <2>11. CASE ListMessages(r)
    BY <2>0, <2>11 DEF ListMessages
  <2>12. CASE ListCitations(r)
    BY <2>0, <2>12 DEF ListCitations
  <2> QED
    BY <1>3, <2>1, <2>2, <2>3, <2>4, <2>5, <2>6, <2>7, <2>8, <2>9, <2>10,
       <2>11, <2>12, Raises DEF Serve, OnlyAnswers
<1>4. ASSUME NEW r \in Requests, Abort(r) PROVE HandlerAt(r)'
  BY <1>4 DEF Abort
<1>5. CASE \/ \E d \in Docs : ReplaceChunks(d) \/ EmbedDocument(d)
           \/ \E c \in Conns : UpdateConnection(c) \/ DeleteConnection(c)
  BY <1>5, ComponentFrame
<1>6. CASE UNCHANGED vars
  BY <1>6 DEF vars
<1> QED
  BY <1>1, <1>2, <1>3, <1>4, <1>5, <1>6, Steps

\* The row a handler loaded stays the caller's: it is read once, with checks.
LEMMA CopyStep ==
    ASSUME TypeOK, \A r \in Requests : HandlerAt(r) /\ CopyAt(r), [Next]_vars
    PROVE  \A r \in Requests : CopyAt(r)'
<1>1. ASSUME UNCHANGED <<kind, caller, conv, copy>>
      PROVE  \A r \in Requests : CopyAt(r)'
  BY <1>1 DEF CopyAt
<1>2. ASSUME NEW r \in Requests, Arrive(r) PROVE \A q \in Requests : CopyAt(q)'
  <2>1. ASSUME NEW q \in Requests \ {r} PROVE CopyAt(q)'
    <3>1. /\ kind'[q] = kind[q] /\ caller'[q] = caller[q]
          /\ conv'[q] = conv[q] /\ copy'[q] = copy[q]
      BY <1>2, RequestFrame DEF OthersUnchanged
    <3> QED
      BY <3>1 DEF CopyAt
  <2>2. CASE Begins(r)
    <3>1. PICK u \in Users, v \in Convs, row \in Conversation,
               k \in ConversationMode \cup {"list", "create"},
               label \in WorkingLabels :
              /\ row.user = u
              /\ k \in QueryModes => row.conn # NoConn
              /\ k \in RetrievalModes => row.kb # NoKB
              /\ Begin(r, k, u, v, row, label)
      BY <2>2 DEF Begins, ConversationMode, QueryModes, RetrievalModes,
                  WorkingLabels
    <3>2. /\ kind'[r] = k /\ caller'[r] = u /\ conv'[r] = v /\ copy'[r] = row
      BY <3>1 DEF Begin, TypeOK
    <3>3. row.conn \in Conns \cup {NoConn} /\ row.kb \in KBs \cup {NoKB}
      BY DEF Conversation
    <3> QED
      BY <3>1, <3>2, <3>3, <2>1 DEF CopyAt
  <2>3. CASE Refused(r)
    <3>1. copy'[r] = NoRow
      BY <1>2, <2>3, Arrivals DEF HandlerAt, Refused, Refuse
    <3> QED
      BY <2>1, <3>1 DEF CopyAt
  <2> QED
    BY <1>2, <2>2, <2>3, Arrivals
<1>3. CASE \E r \in Requests : Arrive(r)
  BY <1>2, <1>3
<1>4. CASE \E r \in Requests : Serve(r) \/ Abort(r)
  BY <1>1, <1>4, RequestFrame, ServeMoves
<1>5. CASE \/ \E d \in Docs : ReplaceChunks(d) \/ EmbedDocument(d)
           \/ \E c \in Conns : UpdateConnection(c) \/ DeleteConnection(c)
  BY <1>1, <1>5, ComponentFrame
<1>6. CASE UNCHANGED vars
  BY <1>1, <1>6 DEF vars
<1> QED
  BY <1>3, <1>4, <1>5, <1>6, Steps

\* A conversation is inserted by the one request that knows it; afterwards only
\* its user finds it, and a deleted connection leaves it (SET NULL).
LEMMA ConversationStep ==
    ASSUME TypeOK, \A r \in Requests : HandlerAt(r) /\ CopyAt(r),
           ConversationInv, [Next]_vars
    PROVE  ConversationInv'
<1> DEFINE Fresh(r) == /\ convs[conv[r]] = NoRow
                       /\ \A q \in Requests : conv[q] = conv[r] => q = r
           Own(r) == convs[conv[r]] # NoRow /\ convs[conv[r]].user = caller[r]
           Knows(r) == copy[r] # NoRow
                           /\ kind[r] \in ConversationMode \cup {"list"}
           Alive(v) == convs[v] # NoRow /\ convs[v].conn # NoConn
                           => conns[convs[v].conn] # "deleted"
<1>0. /\ \A r \in Requests : pc[r] = "insertConversation" => Fresh(r)
      /\ \A r \in Requests : Knows(r) => Own(r)
      /\ \A v \in Convs : Alive(v)
  BY DEF ConversationInv
<1>1. CASE \E r \in Requests : Arrive(r)
  <2>1. PICK r \in Requests : Arrive(r)
    BY <1>1
  <2>2. pc[r] = "idle" /\ (Begins(r) \/ Refused(r))
    BY <2>1, Arrivals
  <2>3. /\ OthersUnchanged(r) /\ UNCHANGED <<conns, convs>>
    BY <2>1, <2>2, RequestFrame DEF InsertConversation
  <2>4. conv[r] = NoConv /\ copy[r] = NoRow
    BY <2>2 DEF HandlerAt
  <2>5. CASE Refused(r)
    <3>1. UNCHANGED <<conv, copy, caller>> /\ pc'[r] = "done"
      BY <2>5 DEF Refused, Refuse, Answer, Goto, TypeOK
    <3>2. \A q \in Requests : pc'[q] = "insertConversation" => Fresh(q)'
      BY <1>0, <2>3, <3>1 DEF OthersUnchanged
    <3>3. \A q \in Requests : Knows(q)' => Own(q)'
      BY <1>0, <2>3, <2>4, <3>1 DEF OthersUnchanged
    <3> QED
      BY <1>0, <2>3, <3>2, <3>3 DEF ConversationInv
  <2>6. CASE Begins(r)
    <3>1. PICK u \in Users, v \in Convs, row \in Conversation,
               label \in WorkingLabels,
               k \in ConversationMode \cup {"list", "create"} :
              /\ row.user = u
              /\ Begin(r, k, u, v, row, label)
              /\ \/ convs[v] = row /\ label # "insertConversation"
                 \/ /\ k = "create"
                    /\ convs[v] = NoRow /\ \A q \in Requests : conv[q] # v
      BY <2>6 DEF Begins, WorkingLabels, ConversationMode
    <3>2. /\ pc'[r] = label /\ conv'[r] = v /\ copy'[r] = row
          /\ caller'[r] = u /\ kind'[r] = k
      BY <3>1 DEF Begin, Goto, TypeOK
    <3>3. ASSUME NEW q \in Requests, pc'[q] = "insertConversation"
          PROVE  Fresh(q)'
      <4>1. CASE q = r
        BY <2>3, <3>1, <3>2, <3>3, <4>1, ConstantsAssumption
           DEF OthersUnchanged
      <4>2. CASE q # r
        <5>1. pc[q] = "insertConversation" /\ conv'[q] = conv[q]
          BY <2>3, <3>3, <4>2 DEF OthersUnchanged
        <5>2. Fresh(q) /\ conv[q] # v
          BY <1>0, <3>1, <5>1, ConstantsAssumption
        <5> QED
          BY <2>3, <3>2, <5>1, <5>2 DEF OthersUnchanged
      <4> QED
        BY <4>1, <4>2
    <3>4. ASSUME NEW q \in Requests, Knows(q)' PROVE Own(q)'
      <4>1. CASE q = r
        BY <2>3, <3>1, <3>2, <3>4, <4>1, ConstantsAssumption
           DEF ConversationMode
      <4>2. CASE q # r
        BY <1>0, <2>3, <3>4, <4>2 DEF OthersUnchanged
      <4> QED
        BY <4>1, <4>2
    <3> QED
      BY <1>0, <2>3, <3>3, <3>4 DEF ConversationInv
  <2> QED
    BY <2>2, <2>5, <2>6
<1>2. ASSUME UNCHANGED <<conv, copy, caller, kind, conns, convs>>,
             \A r \in Requests : pc'[r] = "insertConversation"
                                     => pc[r] = "insertConversation"
      PROVE  ConversationInv'
  BY <1>2 DEF ConversationInv
<1>3. ASSUME NEW r \in Requests, InsertConversation(r) PROVE ConversationInv'
  <2>1. /\ pc[r] = "insertConversation"
        /\ copy[r].conn # NoConn => conns[copy[r].conn] # "deleted"
        /\ convs' = [convs EXCEPT ![conv[r]] = copy[r]]
        /\ UNCHANGED <<conv, copy, caller, kind, conns>>
        /\ \A q \in Requests : pc'[q] = "insertConversation"
                                   => pc[q] = "insertConversation" /\ q # r
    BY <1>3 DEF InsertConversation, Goto, TypeOK
  <2>2. Fresh(r) /\ kind[r] = "create" /\ conv[r] \in Convs
    BY <1>0, <2>1 DEF HandlerAt, CopyAt, CreateLabels, WorkingLabels
  <2>3. \A q \in Requests : pc'[q] = "insertConversation" => Fresh(q)'
    BY <1>0, <2>1, <2>2 DEF TypeOK
  <2>4. \A q \in Requests : Knows(q)' => Own(q)'
    BY <1>0, <2>1, <2>2 DEF TypeOK, ConversationMode
  <2>5. \A v \in Convs : Alive(v)'
    BY <1>0, <2>1, <2>2 DEF TypeOK
  <2> QED
    BY <2>3, <2>4, <2>5 DEF ConversationInv
<1>4. ASSUME NEW r \in Requests, Serve(r) \/ Abort(r), ~InsertConversation(r)
      PROVE  ConversationInv'
  <2>1. pc'[r] # "insertConversation" /\ ~Arrive(r)
    BY <1>4, ServeMoves
  <2>2. OthersUnchanged(r) /\ UNCHANGED <<conv, copy, caller, kind, conns, convs>>
    BY <1>4, <2>1, RequestFrame
  <2> QED
    BY <1>2, <2>1, <2>2 DEF OthersUnchanged
<1>5. ASSUME NEW d \in Docs, ReplaceChunks(d) \/ EmbedDocument(d)
      PROVE  ConversationInv'
  BY <1>2, <1>5 DEF ReplaceChunks, EmbedDocument
<1>6. ASSUME NEW c \in Conns, UpdateConnection(c) PROVE ConversationInv'
  <2>1. UNCHANGED <<pc, conv, copy, caller, kind, convs>>
    BY <1>6 DEF UpdateConnection
  <2>2. \A o \in Conns : conns[o] # "deleted" => conns'[o] # "deleted"
    BY <1>6 DEF UpdateConnection, TypeOK
  <2>3. \A v \in Convs : Alive(v)'
    BY <1>0, <2>1, <2>2 DEF TypeOK, Conversation
  <2> QED
    BY <1>0, <2>1, <2>3 DEF ConversationInv
<1>7. ASSUME NEW c \in Conns, DeleteConnection(c) PROVE ConversationInv'
  <2>1. UNCHANGED <<pc, conv, copy, caller, kind>>
    BY <1>7 DEF DeleteConnection
  <2>2. \A v \in Convs : convs[v] # NoRow =>
            /\ convs'[v] # NoRow
            /\ convs'[v].user = convs[v].user
            /\ convs'[v].conn = IF convs[v].conn = c THEN NoConn
                                                     ELSE convs[v].conn
    <3>1. \A row \in Conversation :
              LET new == [row EXCEPT !.conn = NoConn]
              IN  new \in Conversation /\ new.user = row.user
                      /\ new.conn = NoConn
      BY DEF Conversation
    <3> QED
      BY <1>7, <3>1, ConstantsAssumption DEF DeleteConnection, TypeOK
  <2>3. \A v \in Convs : convs[v] = NoRow => convs'[v] = NoRow
    BY <1>7 DEF DeleteConnection
  <2>4. \A q \in Requests : pc'[q] = "insertConversation" => Fresh(q)'
    <3>1. \A q \in Requests : pc[q] = "insertConversation" => conv[q] \in Convs
      BY DEF HandlerAt, CopyAt, WorkingLabels
    <3> QED
      BY <1>0, <2>1, <2>3, <3>1
  <2>5. \A q \in Requests : Knows(q)' => Own(q)'
    BY <1>0, <2>1, <2>2 DEF CopyAt
  <2>6. \A v \in Convs : Alive(v)'
    BY <1>0, <1>7, <2>2, <2>3 DEF DeleteConnection, TypeOK, Conversation
  <2> QED
    BY <2>4, <2>5, <2>6 DEF ConversationInv
<1>8. CASE UNCHANGED vars
  BY <1>2, <1>8 DEF vars
<1> QED
  BY <1>1, <1>3, <1>4, <1>5, <1>6, <1>7, <1>8, Steps DEF Serve

-----------------------------------------------------------------------------
(* What is stored of an exchange.                                          *)

\* SaveExchange stores messages, citations and execution in one commit; what
\* takes chunks or a connection away later takes the links with it.
LEMMA EvidenceStep ==
    ASSUME TypeOK,
           \A r \in Requests : /\ HandlerAt(r) /\ CopyAt(r)
                               /\ EvidenceAt(r) /\ LinksAt(r),
           [Next]_vars
    PROVE  \A r \in Requests : EvidenceAt(r)' /\ LinksAt(r)'
<1> USE DEF Stored, ConnectionAlive
<1>1. ASSUME NEW q \in Requests,
             messages'[q] = messages[q], cited'[q] = cited[q],
             dbcite'[q] = dbcite[q], exec'[q] = exec[q], link'[q] = link[q],
             matches'[q] = matches[q] \/ messages[q] = {},
             \/ kind'[q] = kind[q] /\ copy'[q] = copy[q]
             \/ pc[q] \in UnstoredLabels,
             pc'[q] \in UnstoredLabels => pc[q] \in UnstoredLabels,
             pc'[q] \in StoredLabels => pc[q] \in StoredLabels,
             UNCHANGED <<conns, gen>>
      PROVE  EvidenceAt(q)' /\ LinksAt(q)'
  <2>1. messages[q] # {} => Matched(q)' = Matched(q)
    BY <1>1 DEF Matched
  <2>2. EvidenceAt(q)'
    BY <1>1, <2>1 DEF EvidenceAt
  <2>3. LinksAt(q)'
    BY <1>1 DEF LinksAt, EvidenceAt
  <2> QED
    BY <2>2, <2>3
<1>2. ASSUME NEW r \in Requests, Arrive(r) \/ Serve(r) \/ Abort(r),
             EvidenceAt(r)' /\ LinksAt(r)'
      PROVE  \A q \in Requests : EvidenceAt(q)' /\ LinksAt(q)'
  <2>1. OthersUnchanged(r) /\ UNCHANGED <<conns, gen>>
    BY <1>2, RequestFrame
  <2>2. ASSUME NEW q \in Requests \ {r} PROVE EvidenceAt(q)' /\ LinksAt(q)'
    BY <1>1, <2>1 DEF OthersUnchanged
  <2> QED
    BY <1>2, <2>2
<1>3. ASSUME NEW r \in Requests, Arrive(r) PROVE EvidenceAt(r)' /\ LinksAt(r)'
  <2>1. pc[r] = "idle" /\ (Begins(r) \/ Refused(r))
    BY <1>3, Arrivals
  <2>2. /\ UNCHANGED <<conns, gen, messages, cited, dbcite, exec, link, matches>>
        /\ pc'[r] \notin StoredLabels
    BY <2>1 DEF Begins, Begin, Refused, Refuse, Goto, Answer, StoredLabels,
                TypeOK
  <2> QED
    BY <1>1, <2>1, <2>2 DEF UnstoredLabels
<1>4. ASSUME NEW r \in Requests, Serve(r) \/ Abort(r),
             ~SaveFailedExecution(r), ~SaveExchange(r)
      PROVE  EvidenceAt(r)' /\ LinksAt(r)'
  <2>1. UNCHANGED <<conns, gen, kind, copy>>
    BY <1>4, RequestFrame, ServeMoves
  <2>2. /\ UNCHANGED <<messages, cited, dbcite, exec, link>>
        /\ UNCHANGED matches \/ pc[r] = "retrieve"
        /\ pc'[r] \in UnstoredLabels => pc[r] \in UnstoredLabels
        /\ pc'[r] \in StoredLabels => pc[r] \in StoredLabels
    <3> USE DEF Goto, Answer, TypeOK, UnstoredLabels, StoredLabels,
                CreateLabels, QueryLabels, ListLabels
    <3>1. CASE Abort(r)
      BY <3>1 DEF Abort
    <3>2. CASE \E status : Raise(r, status)
      BY <3>2 DEF Raise
    <3>3. CASE \/ InsertConversation(r) \/ SecureQuery(r) \/ ExecuteQuery(r)
               \/ ExecuteQueryFails(r)
      <4>1. CASE InsertConversation(r)
        BY <4>1 DEF InsertConversation
      <4>2. CASE SecureQuery(r)
        BY <4>2 DEF SecureQuery
      <4>3. CASE ExecuteQuery(r)
        BY <4>3 DEF ExecuteQuery
      <4>4. CASE ExecuteQueryFails(r)
        BY <4>4 DEF ExecuteQueryFails
      <4> QED
        BY <3>3, <4>1, <4>2, <4>3, <4>4
    <3>4. CASE \/ RetrieveRelevantChunks(r) \/ RecordAuditEvent(r)
               \/ ListMessages(r) \/ ListCitations(r)
      BY <3>4 DEF RetrieveRelevantChunks, RecordAuditEvent, ListMessages,
                  ListCitations
    <3>5. CASE RefreshExchange(r)
      BY <3>2, <3>5 DEF RefreshExchange
    <3>6. CASE OnlyAnswers(r)
      <4>1. \E status \in {201, 404, 422, 500} : Raise(r, status)
        BY <3>6, Raises
      <4> QED
        BY <3>2, <4>1
    <3> QED
      BY <1>4, <3>1, <3>3, <3>4, <3>5, <3>6 DEF Serve, OnlyAnswers
  <2>3. pc[r] = "retrieve" => messages[r] = {}
    BY DEF EvidenceAt, UnstoredLabels
  <2> QED
    BY <1>1, <2>1, <2>2, <2>3
<1>5. ASSUME NEW r \in Requests, SaveFailedExecution(r)
      PROVE  EvidenceAt(r)' /\ LinksAt(r)'
  <2>1. /\ pc[r] = "saveFailed" /\ conns[copy[r].conn] # "deleted"
        /\ exec'[r] = code[r] /\ pc'[r] = "done"
        /\ UNCHANGED <<conns, gen, messages, cited, dbcite, link, matches,
                       kind, copy>>
    BY <1>5 DEF SaveFailedExecution, Answer, Goto, TypeOK
  <2>2. /\ code[r] \in ErrorCodes /\ kind[r] \in QueryModes /\ copy[r] # NoRow
    BY <2>1 DEF HandlerAt, QueryLabels, WorkingLabels
  <2>3. /\ messages[r] = {} /\ cited[r] = {} /\ dbcite[r] = "none"
    BY <2>1 DEF EvidenceAt, UnstoredLabels, QueryLabels
  <2>4. EvidenceAt(r)'
    BY <2>1, <2>2, <2>3
       DEF EvidenceAt, ErrorCodes, UnstoredLabels, StoredLabels, CreateLabels,
           QueryLabels, ListLabels
  <2>5. LinksAt(r)'
    BY <2>1, <2>3 DEF LinksAt
  <2> QED
    BY <2>4, <2>5
<1>6. ASSUME NEW r \in Requests, SaveExchange(r)
      PROVE  EvidenceAt(r)' /\ LinksAt(r)'
  <2>1. /\ pc[r] = "saveExchange" /\ ReferencesHold(r)
        /\ messages'[r] = Roles /\ exec'[r] = NewExecution(r)
        /\ dbcite'[r] = IF kind[r] \in QueryModes THEN "linked" ELSE "none"
        /\ cited'[r] = Matched(r) /\ link'[r] = matches[r]
        /\ pc'[r] = "refreshExchange"
        /\ UNCHANGED <<conns, gen, matches, kind, copy>>
    BY <1>6 DEF SaveExchange, NewCitations, Goto, TypeOK
  <2>2. kind[r] \in ConversationMode /\ copy[r] # NoRow
    BY <2>1 DEF HandlerAt, WorkingLabels
  <2>3. Matched(r)' = Matched(r)
    BY <2>1 DEF Matched
  <2>4. EvidenceAt(r)'
    BY <2>1, <2>2, <2>3
       DEF EvidenceAt, ReferencesHold, NewExecution, Roles, ConversationMode,
           QueryModes, UnstoredLabels, StoredLabels, CreateLabels,
           QueryLabels, ListLabels
  <2>5. LinksAt(r)'
    BY <2>1 DEF LinksAt, ReferencesHold, NewExecution, Matched
  <2> QED
    BY <2>4, <2>5
<1>7. ASSUME NEW d \in Docs, ReplaceChunks(d), NEW q \in Requests
      PROVE  EvidenceAt(q)' /\ LinksAt(q)'
  <2>1. /\ UNCHANGED <<conns, messages, cited, dbcite, exec, matches, kind,
                       copy, pc>>
        /\ link'[q] = [link[q] EXCEPT ![d] = 0]
        /\ gen' = [gen EXCEPT ![d] = @ + 1]
    BY <1>7 DEF ReplaceChunks
  <2>2. Matched(q)' = Matched(q)
    BY <2>1 DEF Matched
  <2>3. EvidenceAt(q)'
    BY <2>1, <2>2 DEF EvidenceAt
  <2>4. LinksAt(q)'
    BY <2>1 DEF LinksAt, TypeOK
  <2> QED
    BY <2>3, <2>4
<1>8. ASSUME NEW d \in Docs, EmbedDocument(d), NEW q \in Requests
      PROVE  EvidenceAt(q)' /\ LinksAt(q)'
  BY <1>1, <1>8 DEF EmbedDocument
<1>9. ASSUME NEW c \in Conns, UpdateConnection(c), NEW q \in Requests
      PROVE  EvidenceAt(q)' /\ LinksAt(q)'
  <2>1. UNCHANGED <<gen, messages, cited, dbcite, exec, matches, kind, link,
                    copy, pc>>
    BY <1>9 DEF UpdateConnection
  <2>2. \A o \in Conns : conns'[o] = "deleted" <=> conns[o] = "deleted"
    BY <1>9 DEF UpdateConnection, TypeOK
  <2>3. Stored(q) \/ exec[q] # "none" =>
            (kind[q] \in QueryModes => copy[q].conn \in Conns)
    BY DEF EvidenceAt, CopyAt
  <2>4. Matched(q)' = Matched(q)
    BY <2>1 DEF Matched
  <2>5. EvidenceAt(q)'
    BY <2>1, <2>2, <2>3, <2>4 DEF EvidenceAt
  <2>6. LinksAt(q)'
    BY <2>1, <2>2, <2>3 DEF LinksAt, EvidenceAt
  <2> QED
    BY <2>5, <2>6
<1>10. ASSUME NEW c \in Conns, DeleteConnection(c), NEW q \in Requests
       PROVE  EvidenceAt(q)' /\ LinksAt(q)'
  <2> DEFINE of == copy[q] # NoRow /\ copy[q].conn = c
  <2>1. /\ UNCHANGED <<gen, messages, cited, matches, kind, link, copy, pc>>
        /\ exec'[q] = IF of THEN "none" ELSE exec[q]
        /\ dbcite'[q] = IF of /\ dbcite[q] = "linked" THEN "null" ELSE dbcite[q]
    BY <1>10 DEF DeleteConnection
  <2>2. \A o \in Conns : conns'[o] = IF o = c THEN "deleted" ELSE conns[o]
    BY <1>10 DEF DeleteConnection, TypeOK
  <2>3. Stored(q) \/ exec[q] # "none" =>
            copy[q] # NoRow /\ (kind[q] \in QueryModes => copy[q].conn \in Conns)
    BY DEF EvidenceAt, CopyAt
  <2>4. Matched(q)' = Matched(q)
    BY <2>1 DEF Matched
  <2>5. EvidenceAt(q)'
    BY <2>1, <2>2, <2>3, <2>4 DEF EvidenceAt
  <2>6. LinksAt(q)'
    BY <2>1, <2>2, <2>3 DEF LinksAt, EvidenceAt
  <2> QED
    BY <2>5, <2>6
<1>11. CASE UNCHANGED vars
  BY <1>1, <1>11 DEF vars
<1> QED
  BY <1>2, <1>3, <1>4, <1>5, <1>6, <1>7, <1>8, <1>9, <1>10, <1>11, Steps
     DEF Serve

-----------------------------------------------------------------------------
(* Queries on record.                                                      *)

\* A query that was answered, or failed, is on record when the request ends,
\* unless a fault came between or the connection was deleted.
LEMMA QueryStep ==
    ASSUME TypeOK,
           \A r \in Requests : /\ HandlerAt(r) /\ CopyAt(r)
                               /\ EvidenceAt(r) /\ QueryAt(r),
           [Next]_vars
    PROVE  \A r \in Requests : QueryAt(r)'
<1> USE DEF ConnectionAlive
<1>1. ASSUME NEW q \in Requests, pc'[q] = pc[q], kind'[q] = kind[q],
             copy'[q] = copy[q], matches'[q] = matches[q], resp'[q] = resp[q],
             exec'[q] = exec[q], q \in ran' <=> q \in ran,
             q \in faulted' <=> q \in faulted, UNCHANGED conns
      PROVE  QueryAt(q)'
  BY <1>1 DEF QueryAt
<1>2. ASSUME NEW r \in Requests, Arrive(r) \/ Serve(r) \/ Abort(r), QueryAt(r)'
      PROVE  \A q \in Requests : QueryAt(q)'
  <2>1. OthersUnchanged(r) /\ UNCHANGED conns
    BY <1>2, RequestFrame
  <2>2. ASSUME NEW q \in Requests \ {r} PROVE QueryAt(q)'
    BY <1>1, <2>1 DEF OthersUnchanged
  <2> QED
    BY <1>2, <2>2
<1>3. ASSUME NEW r \in Requests, Arrive(r) PROVE QueryAt(r)'
  <2>1. pc[r] = "idle" /\ (Begins(r) \/ Refused(r))
    BY <1>3, Arrivals
  <2>2. r \notin ran /\ matches[r] = NoMatches /\ resp[r] = 0
    BY <2>1 DEF QueryAt, HandlerAt
  <2>3. /\ UNCHANGED <<ran, matches>>
        /\ resp'[r] \in {0, 404, 409, 422, 500}
    BY <2>1, <2>2 DEF Begins, Begin, Refused, Refuse, Answer, Goto, TypeOK
  <2> QED
    BY <2>2, <2>3 DEF QueryAt
<1>4. ASSUME NEW r \in Requests, NEW status \in {201, 404, 422, 500},
             Raise(r, status), pc[r] \in WorkingLabels,
             r \in ran /\ kind[r] = "database" /\ ConnectionAlive(r)
                 => exec[r] = "completed"
      PROVE  QueryAt(r)'
  <2>1. /\ pc'[r] = "done" /\ resp'[r] = status
        /\ UNCHANGED <<conns, exec, kind, copy, matches, ran, faulted>>
    BY <1>4 DEF Raise, Answer, Goto, TypeOK
  <2> QED
    BY <1>4, <2>1 DEF QueryAt, QueryLabels
<1>5. ASSUME NEW r \in Requests, Abort(r) PROVE QueryAt(r)'
  <2>1. /\ pc'[r] = "done" /\ resp'[r] = 500 /\ r \in faulted'
        /\ UNCHANGED <<kind, copy, matches, ran>>
    BY <1>5 DEF Abort, Answer, Goto, TypeOK
  <2> QED
    BY <2>1 DEF QueryAt, QueryLabels
<1>6. ASSUME NEW r \in Requests, OnlyAnswers(r) PROVE QueryAt(r)'
  <2>1. /\ pc[r] \in WorkingLabels
        /\ \E status \in {201, 404, 422, 500} : Raise(r, status)
    BY <1>6, Raises
  <2>2. ASSUME r \in ran, kind[r] = "database", ConnectionAlive(r)
        PROVE  exec[r] = "completed"
    <3>1. pc[r] \in {"saveExchange", "refreshExchange"}
      BY <2>1, <2>2 DEF HandlerAt, QueryAt, WorkingLabels, CreateLabels,
                        ListLabels, QueryLabels, RetrievalModes
    <3>2. matches[r] = NoMatches
      BY <2>2 DEF QueryAt
    <3>3. ReferencesHold(r)
      BY <2>2, <3>2 DEF ReferencesHold, Matched, NoMatches
    <3>4. RefreshExchangeMissing(r)
      BY <1>6, <3>1, <3>3
         DEF OnlyAnswers, InsertConversationConflict, RefreshConversation,
             SecureQueryRaises, ExecuteQueryRaises,
             SaveFailedExecutionConflict, RetrieveRaises,
             SaveExchangeConflict, RefreshAudit
    <3>5. Stored(r) /\ kind[r] \in QueryModes
      BY <3>4, <2>2 DEF RefreshExchangeMissing, EvidenceAt, StoredLabels,
                        QueryModes
    <3> QED
      BY <2>2, <3>5 DEF EvidenceAt
  <2> QED
    BY <1>4, <2>1, <2>2
<1>7. ASSUME NEW r \in Requests, RefreshExchange(r) PROVE QueryAt(r)'
  <2>1. pc[r] = "refreshExchange" /\ Stored(r)
    BY <1>7 DEF RefreshExchange, EvidenceAt, StoredLabels
  <2>2. kind[r] = "database" /\ ConnectionAlive(r) => exec[r] = "completed"
    BY <2>1 DEF EvidenceAt, QueryModes
  <2>3. CASE Raise(r, 201)
    BY <1>4, <2>1, <2>2, <2>3 DEF WorkingLabels
  <2>4. CASE ~Raise(r, 201)
    <3>1. /\ pc'[r] = "audit"
          /\ UNCHANGED <<conns, exec, kind, copy, matches, resp, ran, faulted>>
      BY <1>7, <2>4 DEF RefreshExchange, Goto, TypeOK
    <3> QED
      BY <3>1 DEF QueryAt, QueryLabels
  <2> QED
    BY <2>3, <2>4
<1>8. ASSUME NEW r \in Requests, SaveFailedExecution(r) PROVE QueryAt(r)'
  <2>1. /\ pc[r] = "saveFailed" /\ pc'[r] = "done" /\ exec'[r] = code[r]
        /\ resp'[r] = MessageStatus(code[r])
        /\ UNCHANGED <<conns, kind, copy, matches, ran>>
    BY <1>8 DEF SaveFailedExecution, Answer, Goto, TypeOK
  <2>2. /\ code[r] \in ErrorCodes /\ kind[r] \in QueryModes /\ copy[r] # NoRow
    BY <2>1 DEF HandlerAt, QueryLabels, WorkingLabels
  <2>3. r \notin ran
    BY <2>1 DEF QueryAt, QueryLabels
  <2>4. MessageStatus(exec[r])' = MessageStatus(code[r])
    BY <2>1 DEF MessageStatus
  <2> QED
    BY <2>1, <2>2, <2>3, <2>4 DEF QueryAt
<1>9. ASSUME NEW r \in Requests, ListCitations(r) PROVE QueryAt(r)'
  <2>1. /\ pc[r] = "listCitations" /\ pc'[r] = "done" /\ resp'[r] = 200
        /\ UNCHANGED <<kind, copy, matches, ran>>
    BY <1>9 DEF ListCitations, Answer, Goto, TypeOK
  <2>2. kind[r] = "list"
    BY <2>1 DEF HandlerAt, ListLabels
  <2> QED
    BY <2>1, <2>2 DEF QueryAt, QueryLabels
<1>10. ASSUME NEW r \in Requests,
              \/ InsertConversation(r) \/ SecureQuery(r) \/ ExecuteQuery(r)
              \/ ExecuteQueryFails(r) \/ RetrieveRelevantChunks(r)
              \/ SaveExchange(r) \/ RecordAuditEvent(r) \/ ListMessages(r)
       PROVE  QueryAt(r)'
  <2>1. /\ pc[r] \in WorkingLabels
        /\ pc'[r] \notin {"idle", "done"}
        /\ UNCHANGED <<kind, copy, resp>>
        /\ UNCHANGED matches \/ pc[r] = "retrieve"
        /\ UNCHANGED ran \/ (ran' = ran \cup {r} /\ pc'[r] \notin QueryLabels)
        /\ pc'[r] \in QueryLabels => pc[r] \in QueryLabels
    <3> USE DEF Goto, TypeOK, QueryLabels, WorkingLabels
    <3>1. CASE SecureQuery(r)
      <4>1. PICK label \in {"execute", "saveFailed"} :
                pc' = [pc EXCEPT ![r] = label]
        BY <3>1 DEF SecureQuery
      <4>2. pc[r] = "secure" /\ UNCHANGED <<kind, copy, resp, matches, ran>>
        BY <3>1 DEF SecureQuery
      <4> QED
        BY <4>1, <4>2
    <3>2. CASE ExecuteQuery(r)
      BY <3>2 DEF ExecuteQuery
    <3>3. CASE ExecuteQueryFails(r)
      BY <3>3 DEF ExecuteQueryFails
    <3>6. CASE RetrieveRelevantChunks(r)
      BY <3>6 DEF RetrieveRelevantChunks
    <3>4. CASE InsertConversation(r) \/ SaveExchange(r)
      BY <3>4 DEF InsertConversation, SaveExchange
    <3>5. CASE RecordAuditEvent(r) \/ ListMessages(r)
      BY <3>5 DEF RecordAuditEvent, ListMessages
    <3> QED
      BY <1>10, <3>1, <3>2, <3>3, <3>4, <3>5, <3>6
  <2>2. resp[r] = 0 /\ copy[r] # NoRow
    BY <2>1 DEF HandlerAt
  <2>3. pc[r] = "retrieve" => kind[r] \notin {"none", "database"}
    BY DEF HandlerAt, RetrievalModes
  <2> QED
    BY <2>1, <2>2, <2>3 DEF QueryAt
<1>11. ASSUME NEW d \in Docs, ReplaceChunks(d) \/ EmbedDocument(d),
              NEW q \in Requests
       PROVE  QueryAt(q)'
  BY <1>1, <1>11 DEF ReplaceChunks, EmbedDocument
<1>12. ASSUME NEW c \in Conns, UpdateConnection(c) \/ DeleteConnection(c),
              NEW q \in Requests
       PROVE  QueryAt(q)'
  <2>1. UNCHANGED <<pc, kind, copy, matches, resp, ran, faulted>>
    BY <1>12, ComponentFrame
  <2>2. \A o \in Conns : conns'[o] # "deleted" => conns[o] # "deleted"
    BY <1>12 DEF UpdateConnection, DeleteConnection, TypeOK
  <2>3. exec'[q] = exec[q] \/ (copy[q].conn = c /\ conns'[c] = "deleted")
    <3>1. CASE UpdateConnection(c)
      <4>1. exec' = exec
        BY <3>1 DEF UpdateConnection
      <4> QED
        BY <4>1
    <3>2. CASE DeleteConnection(c)
      BY <3>2 DEF DeleteConnection, TypeOK
    <3> QED
      BY <1>12, <3>1, <3>2
  <2>4. kind[q] \in QueryModes /\ copy[q] # NoRow => copy[q].conn \in Conns
    BY DEF CopyAt
  <2>5. "database" \in QueryModes
    BY DEF QueryModes
  <2>6. exec'[q] = exec[q] => MessageStatus(exec[q])' = MessageStatus(exec[q])
    BY DEF MessageStatus
  <2> QED
    BY <2>1, <2>2, <2>3, <2>4, <2>5, <2>6 DEF QueryAt
<1>13. CASE UNCHANGED vars
  BY <1>1, <1>13 DEF vars
<1> QED
  BY <1>2, <1>3, <1>5, <1>6, <1>7, <1>8, <1>9, <1>10, <1>11, <1>12, <1>13,
     Steps DEF Serve, OnlyAnswers

-----------------------------------------------------------------------------
(* What a step that serves a request writes, and what it answers.          *)

\* Each table and each variable of a listing is written by one step only.
LEMMA ServeWrites ==
    ASSUME NEW r \in Requests, Serve(r) \/ Abort(r)
    PROVE  /\ UNCHANGED messages \/ SaveExchange(r)
           /\ UNCHANGED matches \/ RetrieveRelevantChunks(r)
           /\ UNCHANGED audit \/ RecordAuditEvent(r)
           /\ UNCHANGED page \/ ListMessages(r)
           /\ UNCHANGED shown \/ ListCitations(r)
<1>1. CASE Abort(r)
  BY <1>1 DEF Abort
<1>2. ASSUME NEW status, Raise(r, status)
      PROVE  UNCHANGED <<messages, matches, audit, page, shown>>
  BY <1>2 DEF Raise
<1>3. CASE OnlyAnswers(r) \/ RefreshExchange(r)
  <2>1. CASE OnlyAnswers(r)
    BY <1>2, <2>1, Raises
  <2>2. CASE RefreshExchange(r)
    BY <1>2, <2>2 DEF RefreshExchange
  <2> QED
    BY <1>3, <2>1, <2>2
<1>4. CASE InsertConversation(r) \/ SecureQuery(r) \/ ExecuteQuery(r)
  BY <1>4 DEF InsertConversation, SecureQuery, ExecuteQuery
<1>5. CASE ExecuteQueryFails(r) \/ SaveFailedExecution(r)
  BY <1>5 DEF ExecuteQueryFails, SaveFailedExecution
<1>6. CASE RetrieveRelevantChunks(r) \/ SaveExchange(r)
  BY <1>6 DEF RetrieveRelevantChunks, SaveExchange
<1>7. CASE RecordAuditEvent(r) \/ ListMessages(r) \/ ListCitations(r)
  BY <1>7 DEF RecordAuditEvent, ListMessages, ListCitations
<1> QED
  BY <1>1, <1>3, <1>4, <1>5, <1>6, <1>7 DEF Serve, OnlyAnswers

\* The statuses a request can be answered with once it has begun its work,
\* and the step that answers each.
Answered(r) ==
    /\ pc'[r] = "done"
    /\ \/ resp'[r] = 500
       \/ resp'[r] \in {404, 422} /\ pc[r] = "retrieve"
       \/ resp'[r] \in {403, 413, 502, 504} /\ pc[r] = "saveFailed"
       \/ resp'[r] = 200 /\ ListCitations(r)
       \/ resp'[r] = 201 /\ pc[r] \in {"refreshConversation", "refreshAudit"}
       \/ /\ resp'[r] = 201 /\ pc[r] = "refreshExchange"
          /\ kind[r] # "hybrid"

\* A step either goes on without an answer or ends with one of the statuses
\* in Answered.
LEMMA ServeAnswers ==
    ASSUME TypeOK, NEW r \in Requests, HandlerAt(r), Serve(r) \/ Abort(r)
    PROVE  (resp' = resp /\ pc'[r] \in WorkingLabels) \/ Answered(r)
<1>1. CASE Abort(r)
  BY <1>1 DEF Abort, Answer, Goto, TypeOK, Answered
<1>2. ASSUME NEW status, Raise(r, status)
      PROVE  pc'[r] = "done" /\ resp'[r] = status
  BY <1>2 DEF Raise, Answer, Goto, TypeOK
<1>3. CASE OnlyAnswers(r)
  <2>1. CASE \/ InsertConversationConflict(r) \/ SecureQueryRaises(r)
             \/ ExecuteQueryRaises(r) \/ SaveFailedExecutionConflict(r)
             \/ SaveExchangeConflict(r) \/ RefreshExchangeMissing(r)
    <3>1. Raise(r, 500)
      BY <2>1, Statuses
         DEF InsertConversationConflict, SecureQueryRaises,
             ExecuteQueryRaises, SaveFailedExecutionConflict,
             SaveExchangeConflict, RefreshExchangeMissing
    <3> QED
      BY <1>2, <3>1 DEF Answered
  <2>2. CASE RefreshConversation(r) \/ RefreshAudit(r)
    BY <1>2, <2>2 DEF RefreshConversation, RefreshAudit, Answered
  <2>3. CASE RetrieveRaises(r)
    BY <1>2, <2>3, Statuses DEF RetrieveRaises, Answered
  <2> QED
    BY <1>3, <2>1, <2>2, <2>3 DEF OnlyAnswers
<1>4. CASE RefreshExchange(r)
  BY <1>2, <1>4 DEF RefreshExchange, Goto, TypeOK, WorkingLabels, Answered
<1>5. CASE SaveFailedExecution(r)
  <2>1. /\ pc[r] = "saveFailed" /\ pc'[r] = "done"
        /\ resp'[r] = MessageStatus(code[r])
    BY <1>5 DEF SaveFailedExecution, Answer, Goto, TypeOK
  <2> QED
    BY <2>1, Statuses DEF HandlerAt, Answered
<1>6. CASE ListCitations(r)
  <2>1. pc'[r] = "done" /\ resp'[r] = 200
    BY <1>6 DEF ListCitations, Answer, Goto, TypeOK
  <2> QED
    BY <1>6, <2>1 DEF Answered
<1>7. CASE InsertConversation(r) \/ ExecuteQuery(r) \/ SaveExchange(r)
  BY <1>7 DEF InsertConversation, ExecuteQuery, SaveExchange, Goto, TypeOK,
              WorkingLabels
<1>8. CASE SecureQuery(r)
  <2>1. resp' = resp /\ \E label \in {"execute", "saveFailed"} :
                            pc' = [pc EXCEPT ![r] = label]
    BY <1>8 DEF SecureQuery, Goto
  <2> QED
    BY <2>1 DEF TypeOK, WorkingLabels
<1>9. CASE \/ ExecuteQueryFails(r) \/ RetrieveRelevantChunks(r)
           \/ RecordAuditEvent(r) \/ ListMessages(r)
  <2>1. resp' = resp
    BY <1>9 DEF ExecuteQueryFails, RetrieveRelevantChunks, RecordAuditEvent,
                ListMessages
  <2>2. \E label \in {"saveFailed", "saveExchange", "refreshAudit",
                      "listCitations"} : pc' = [pc EXCEPT ![r] = label]
    BY <1>9 DEF ExecuteQueryFails, RetrieveRelevantChunks, RecordAuditEvent,
                ListMessages, Goto
  <2> QED
    BY <2>1, <2>2 DEF TypeOK, WorkingLabels
<1> QED
  BY <1>1, <1>3, <1>4, <1>5, <1>6, <1>7, <1>8, <1>9 DEF Serve, OnlyAnswers

-----------------------------------------------------------------------------
(* Audit events, and the tenant of the evidence.                           *)

\* The event of a hybrid exchange is recorded after the exchange is stored.
LEMMA AuditStep ==
    ASSUME TypeOK,
           \A r \in Requests : HandlerAt(r) /\ EvidenceAt(r) /\ AuditAt(r),
           [Next]_vars
    PROVE  \A r \in Requests : AuditAt(r)'
<1> USE DEF Stored
<1>1. ASSUME NEW q \in Requests,
             q \in audit' => q \in audit /\ messages'[q] # {}
                                 /\ kind'[q] = kind[q],
             q \in audit => q \in audit',
             pc'[q] = "refreshAudit" => pc[q] = "refreshAudit",
             kind'[q] = "hybrid" /\ resp'[q] = 201
                 => (kind[q] = "hybrid" /\ resp[q] = 201) \/ q \in audit
      PROVE  AuditAt(q)'
  BY <1>1 DEF AuditAt
<1>2. ASSUME NEW r \in Requests, Arrive(r) \/ Serve(r) \/ Abort(r), AuditAt(r)'
      PROVE  \A q \in Requests : AuditAt(q)'
  <2>1. OthersUnchanged(r)
    BY <1>2, RequestFrame
  <2>2. ASSUME NEW q \in Requests \ {r} PROVE AuditAt(q)'
    BY <2>1 DEF OthersUnchanged, AuditAt
  <2> QED
    BY <1>2, <2>2
<1>3. ASSUME NEW r \in Requests, Arrive(r) PROVE AuditAt(r)'
  <2>1. pc[r] = "idle" /\ (Begins(r) \/ Refused(r))
    BY <1>3, Arrivals
  <2>2. r \notin audit /\ resp[r] = 0
    BY <2>1 DEF EvidenceAt, UnstoredLabels, AuditAt, HandlerAt
  <2>3. /\ UNCHANGED audit /\ pc'[r] # "refreshAudit"
        /\ resp'[r] \in {0, 404, 409, 422, 500}
    BY <2>1, <2>2 DEF Begins, Begin, Refused, Refuse, Answer, Goto, TypeOK
  <2> QED
    BY <1>1, <2>2, <2>3
<1>4. ASSUME NEW r \in Requests, Serve(r) \/ Abort(r), ~RecordAuditEvent(r)
      PROVE  AuditAt(r)'
  <2>1. UNCHANGED <<audit, kind>>
    BY <1>4, ServeWrites, ServeMoves, RequestFrame
  <2>2. messages[r] # {} => messages'[r] # {}
    <3>1. SaveExchange(r) => messages'[r] = Roles
      BY DEF SaveExchange, TypeOK
    <3> QED
      BY <1>4, <3>1, ServeWrites DEF Roles
  <2>3. pc'[r] # "refreshAudit"
    <3>1. CASE \/ InsertConversation(r) \/ ExecuteQuery(r)
               \/ SaveExchange(r) \/ ExecuteQueryFails(r)
      BY <3>1 DEF InsertConversation, ExecuteQuery, SaveExchange,
                  ExecuteQueryFails, Goto, TypeOK
    <3>2. CASE RetrieveRelevantChunks(r) \/ ListMessages(r) \/ SecureQuery(r)
      BY <3>2 DEF RetrieveRelevantChunks, ListMessages, SecureQuery, Goto,
                  TypeOK
    <3>3. ASSUME NEW status, Raise(r, status) PROVE pc'[r] = "done"
      BY <3>3 DEF Raise, Answer, Goto, TypeOK
    <3>4. CASE RefreshExchange(r)
      BY <3>3, <3>4 DEF RefreshExchange, Goto, TypeOK
    <3>5. CASE \/ SaveFailedExecution(r) \/ ListCitations(r) \/ Abort(r)
      BY <3>5 DEF SaveFailedExecution, ListCitations, Abort, Answer, Goto,
                  TypeOK
    <3>6. CASE OnlyAnswers(r)
      BY <3>3, <3>6, Raises
    <3> QED
      BY <1>4, <3>1, <3>2, <3>4, <3>5, <3>6 DEF Serve, OnlyAnswers
  <2>4. kind[r] = "hybrid" /\ resp'[r] = 201 => resp[r] = 201 \/ r \in audit
    BY <1>4, ServeAnswers DEF Answered, HandlerAt, CreateLabels, AuditAt
  <2>5. r \in audit => messages[r] # {}
    BY DEF AuditAt
  <2> QED
    BY <1>1, <2>1, <2>2, <2>3, <2>4, <2>5
<1>5. ASSUME NEW r \in Requests, RecordAuditEvent(r) PROVE AuditAt(r)'
  <2>1. /\ pc[r] = "audit" /\ r \in audit'
        /\ UNCHANGED <<messages, kind, resp>>
    BY <1>5 DEF RecordAuditEvent
  <2>2. kind[r] = "hybrid" /\ messages[r] # {}
    BY <2>1 DEF HandlerAt, EvidenceAt, StoredLabels
  <2> QED
    BY <2>1, <2>2 DEF AuditAt
<1>6. CASE \/ \E d \in Docs : ReplaceChunks(d) \/ EmbedDocument(d)
           \/ \E c \in Conns : UpdateConnection(c) \/ DeleteConnection(c)
  BY <1>6, ComponentFrame DEF AuditAt
<1>7. CASE UNCHANGED vars
  BY <1>7 DEF vars, AuditAt
<1> QED
  BY <1>2, <1>3, <1>4, <1>5, <1>6, <1>7, Steps DEF Serve

\* Retrieval and the query gate look at the caller's tenant, and what they
\* found is not exchanged for anything else before it is stored.
LEMMA TenantStep ==
    ASSUME TypeOK,
           \A r \in Requests : /\ HandlerAt(r) /\ EvidenceAt(r)
                               /\ QueryAt(r) /\ TenantAt(r),
           [Next]_vars
    PROVE  \A r \in Requests : TenantAt(r)'
<1> DEFINE Checked == WorkingLabels \ {"secure"}
<1> USE DEF Stored
<1>1. ASSUME NEW q \in Requests, matches'[q] = matches[q],
             caller'[q] = caller[q], kind'[q] = kind[q], copy'[q] = copy[q],
             messages'[q] = messages[q] \/ pc[q] \in Checked,
             pc'[q] \in Checked => pc[q] \in Checked
      PROVE  TenantAt(q)'
  BY <1>1 DEF TenantAt, Matched
<1>2. ASSUME NEW r \in Requests, Arrive(r) \/ Serve(r) \/ Abort(r), TenantAt(r)'
      PROVE  \A q \in Requests : TenantAt(q)'
  <2>1. OthersUnchanged(r)
    BY <1>2, RequestFrame
  <2>2. ASSUME NEW q \in Requests \ {r} PROVE TenantAt(q)'
    BY <1>1, <2>1 DEF OthersUnchanged
  <2> QED
    BY <1>2, <2>2
<1>3. ASSUME NEW r \in Requests, Arrive(r) PROVE TenantAt(r)'
  <2>1. pc[r] = "idle" /\ (Begins(r) \/ Refused(r))
    BY <1>3, Arrivals
  <2>2. messages[r] = {} /\ matches[r] = NoMatches
    BY <2>1 DEF EvidenceAt, UnstoredLabels, QueryAt, HandlerAt
  <2>3. /\ UNCHANGED <<messages, matches>>
        /\ kind'[r] \in QueryModes => pc'[r] \in {"secure", "done"}
    BY <2>1 DEF Begins, Begin, Refused, Refuse, Answer, Goto, TypeOK,
                QueryModes
  <2> QED
    BY <2>2, <2>3 DEF TenantAt, Matched, NoMatches, WorkingLabels
<1>4. ASSUME NEW r \in Requests, Serve(r) \/ Abort(r),
             ~RetrieveRelevantChunks(r), ~SecureQuery(r)
      PROVE  TenantAt(r)'
  <2>1. UNCHANGED <<matches, caller, kind, copy>> /\ pc[r] \in WorkingLabels
    BY <1>4, ServeWrites, ServeMoves, RequestFrame
  <2>2. CASE pc[r] # "secure"
    <3>1. pc[r] \in Checked
      BY <2>1, <2>2
    <3> QED
      BY <1>1, <2>1, <3>1
  <2>3. CASE pc[r] = "secure"
    <3>1. UNCHANGED messages
      BY <1>4, <2>3, ServeWrites DEF SaveExchange
    <3>2. CASE Abort(r)
      BY <1>1, <2>1, <3>1, <3>2
         DEF Abort, Answer, Goto, TypeOK, WorkingLabels
    <3>3. CASE Serve(r)
      <4>1. SecureQueryRaises(r)
        BY <1>4, <2>3, <3>3
           DEF Serve, InsertConversation, InsertConversationConflict,
               RefreshConversation, ExecuteQuery, ExecuteQueryFails,
               ExecuteQueryRaises, SaveFailedExecution,
               SaveFailedExecutionConflict, RetrieveRaises, SaveExchange,
               SaveExchangeConflict, RefreshExchange, RefreshExchangeMissing,
               RecordAuditEvent, RefreshAudit, ListMessages, ListCitations
      <4>2. pc'[r] = "done"
        BY <4>1 DEF SecureQueryRaises, Raise, Answer, Goto, TypeOK
      <4> QED
        BY <1>1, <2>1, <3>1, <4>2 DEF WorkingLabels
    <3> QED
      BY <1>4, <3>2, <3>3
  <2> QED
    BY <2>2, <2>3
<1>5. ASSUME NEW r \in Requests, SecureQuery(r) PROVE TenantAt(r)'
  <2>1. /\ ConnTenant[copy[r].conn] = TenantOf[caller[r]]
        /\ UNCHANGED <<matches, caller, copy>>
    BY <1>5 DEF SecureQuery, GetDatabaseConnection
  <2> QED
    BY <2>1 DEF TenantAt, Matched
<1>6. ASSUME NEW r \in Requests, RetrieveRelevantChunks(r) PROVE TenantAt(r)'
  <2>1. /\ pc[r] = "retrieve" /\ UNCHANGED <<caller, kind, copy>>
        /\ \E found \in SUBSET Searchable(caller[r], copy[r].kb) :
               matches'[r] = [d \in Docs |-> IF d \in found THEN gen[d] ELSE 0]
    BY <1>6 DEF RetrieveRelevantChunks, TypeOK
  <2> QED
    BY <2>1 DEF TenantAt, Matched, Searchable, WorkingLabels
<1>7. CASE \/ \E d \in Docs : ReplaceChunks(d) \/ EmbedDocument(d)
           \/ \E c \in Conns : UpdateConnection(c) \/ DeleteConnection(c)
  BY <1>1, <1>7, ComponentFrame
<1>8. CASE UNCHANGED vars
  BY <1>1, <1>8 DEF vars
<1> QED
  BY <1>2, <1>3, <1>4, <1>5, <1>6, <1>7, <1>8, Steps DEF Serve

-----------------------------------------------------------------------------
(* Listings.                                                               *)

\* What a listing relies on between its two statements: an exchange that is
\* stored stays stored, and keeps its author and the chunks it was built from.
LEMMA StoredIsStable ==
    ASSUME TypeOK, \A r \in Requests : EvidenceAt(r), [Next]_vars,
           NEW q \in Requests, Stored(q)
    PROVE  /\ Stored(q)' /\ caller'[q] = caller[q]
           /\ Matched(q)' = Matched(q)
<1> USE DEF Stored, Matched
<1>1. ASSUME NEW r \in Requests, Arrive(r)
      PROVE  /\ messages'[q] # {} /\ caller'[q] = caller[q]
             /\ matches'[q] = matches[q]
  <2>1. q # r
    BY <1>1, Arrivals DEF EvidenceAt, UnstoredLabels
  <2> QED
    BY <1>1, <2>1, RequestFrame DEF OthersUnchanged
<1>2. ASSUME NEW r \in Requests, Serve(r) \/ Abort(r)
      PROVE  /\ messages'[q] # {} /\ caller'[q] = caller[q]
             /\ matches'[q] = matches[q]
  <2>1. OthersUnchanged(r) /\ UNCHANGED caller
    BY <1>2, RequestFrame, ServeMoves
  <2>2. SaveExchange(r) => messages'[r] # {}
    BY DEF SaveExchange, TypeOK, Roles
  <2>3. RetrieveRelevantChunks(r) => messages[r] = {}
    BY DEF RetrieveRelevantChunks, EvidenceAt, UnstoredLabels
  <2> QED
    BY <1>2, <2>1, <2>2, <2>3, ServeWrites DEF OthersUnchanged
<1>3. CASE \/ \E d \in Docs : ReplaceChunks(d) \/ EmbedDocument(d)
           \/ \E c \in Conns : UpdateConnection(c) \/ DeleteConnection(c)
  BY <1>3, ComponentFrame
<1>4. CASE UNCHANGED vars
  BY <1>4 DEF vars
<1> QED
  BY <1>1, <1>2, <1>3, <1>4, Steps

\* Between the two reads of a listing no stored exchange changes its citations.
LEMMA PageStep ==
    ASSUME TypeOK,
           \A r \in Requests : HandlerAt(r) /\ EvidenceAt(r),
           ConversationInv, PageInv, [Next]_vars
    PROVE  PageInv'
<1> USE DEF PageAt
<1>0. /\ \A r \in Requests : PageAt(r)
      /\ (\A r \in Requests : PageAt(r)') => PageInv'
      /\ \A r \in Requests : page[r] \subseteq Requests
  BY DEF PageInv, TypeOK
<1>1. ASSUME NEW r \in Requests, page'[r] = page[r], shown'[r] = shown[r],
             resp'[r] = 200 => resp[r] = 200,
             page[r] # {} => /\ pc'[r] \in {"listCitations", "done"}
                             /\ caller'[r] = caller[r]
      PROVE  PageAt(r)'
  <2>1. \A q \in page[r] :
            /\ q \in Requests /\ Stored(q)' /\ caller'[q] = caller[q]
            /\ Matched(q)' = Matched(q)
    BY <1>0, StoredIsStable
  <2> QED
    BY <1>0, <1>1, <2>1
<1>2. ASSUME NEW r \in Requests, Arrive(r) \/ Serve(r) \/ Abort(r), PageAt(r)'
      PROVE  \A q \in Requests : PageAt(q)'
  <2>1. OthersUnchanged(r)
    BY <1>2, RequestFrame
  <2>2. ASSUME NEW q \in Requests \ {r} PROVE PageAt(q)'
    <3>1. /\ page'[q] = page[q] /\ shown'[q] = shown[q] /\ resp'[q] = resp[q]
          /\ pc'[q] = pc[q] /\ caller'[q] = caller[q]
      BY <2>1 DEF OthersUnchanged
    <3>2. page[q] # {} => pc[q] \in {"listCitations", "done"}
      BY <1>0
    <3> QED
      BY <1>1, <3>1, <3>2
  <2> QED
    BY <1>2, <2>2
<1>3. ASSUME NEW r \in Requests, Arrive(r) PROVE PageAt(r)'
  <2>1. pc[r] = "idle" /\ (Begins(r) \/ Refused(r))
    BY <1>3, Arrivals
  <2>2. page[r] = {} /\ resp[r] = 0
    BY <1>0, <2>1 DEF HandlerAt
  <2>3. UNCHANGED <<page, shown>> /\ resp'[r] \in {0, 404, 409, 422, 500}
    BY <2>1, <2>2 DEF Begins, Begin, Refused, Refuse, Answer, Goto, TypeOK
  <2> QED
    BY <1>1, <2>2, <2>3
<1>4. ASSUME NEW r \in Requests, Serve(r) \/ Abort(r),
             ~ListMessages(r), ~ListCitations(r)
      PROVE  PageAt(r)'
  <2>1. UNCHANGED <<page, shown, caller>>
    BY <1>4, ServeWrites, ServeMoves, RequestFrame
  <2>2. (resp' = resp /\ pc'[r] \in WorkingLabels) \/ Answered(r)
    BY <1>4, ServeAnswers
  <2>3. page[r] # {} => pc[r] = "listCitations"
    BY <1>0, <1>4, ServeMoves DEF WorkingLabels
  <2>4. page[r] # {} => Answered(r)
    <3>1. SUFFICES ASSUME pc[r] = "listCitations" PROVE Answered(r)
      BY <2>3
    <3>2. Abort(r)
      BY <1>4, <3>1
         DEF Serve, InsertConversation, InsertConversationConflict,
             RefreshConversation, SecureQuery, SecureQueryRaises,
             ExecuteQuery, ExecuteQueryFails, ExecuteQueryRaises,
             SaveFailedExecution, SaveFailedExecutionConflict,
             RetrieveRelevantChunks, RetrieveRaises, SaveExchange,
             SaveExchangeConflict, RefreshExchange, RefreshExchangeMissing,
             RecordAuditEvent, RefreshAudit
    <3> QED
      BY <3>2 DEF Abort, Answer, Goto, TypeOK, Answered
  <2>5. resp'[r] = 200 => resp[r] = 200
    BY <1>4, <2>2 DEF Answered
  <2>6. Answered(r) => pc'[r] = "done"
    BY DEF Answered
  <2> QED
    BY <1>1, <2>1, <2>4, <2>5, <2>6
<1>5. ASSUME NEW r \in Requests, ListMessages(r) PROVE PageAt(r)'
  <2>1. /\ pc[r] = "listMessages" /\ pc'[r] = "listCitations"
        /\ \A q \in page'[r] : /\ q \in Requests /\ conv[q] = conv[r]
                               /\ "assistant" \in messages[q]
        /\ UNCHANGED <<messages, caller, resp>>
    BY <1>5 DEF ListMessages, Goto, TypeOK
  <2>2. /\ resp[r] = 0 /\ kind[r] = "list" /\ copy[r] # NoRow
    BY <2>1 DEF HandlerAt, ListLabels, WorkingLabels
  <2>3. convs[conv[r]].user = caller[r]
    BY <2>2 DEF ConversationInv
  <2>4. ASSUME NEW q \in page'[r] PROVE Stored(q)' /\ caller'[q] = caller'[r]
    <3>1. Stored(q) /\ q \in Requests
      BY <2>1, <2>4 DEF Stored
    <3>2. kind[q] \in ConversationMode /\ copy[q] # NoRow
      BY <3>1 DEF EvidenceAt
    <3>3. convs[conv[q]].user = caller[q]
      BY <3>1, <3>2 DEF ConversationInv
    <3> QED
      BY <2>1, <2>3, <2>4, <3>1, <3>3 DEF Stored
  <2> QED
    BY <2>1, <2>2, <2>4
<1>6. ASSUME NEW r \in Requests, ListCitations(r) PROVE PageAt(r)'
  <2>1. /\ pc[r] = "listCitations" /\ pc'[r] = "done"
        /\ shown'[r] = {p \in page[r] \X Docs : p[2] \in cited[p[1]]}
        /\ UNCHANGED <<messages, matches, caller, page>>
    BY <1>6 DEF ListCitations, Answer, Goto, TypeOK
  <2>2. \A q \in page[r] : Stored(q)' /\ caller'[q] = caller'[r]
    BY <1>0, <2>1 DEF Stored
  <2>3. ASSUME NEW q \in page[r]
        PROVE  {d \in Docs : <<q, d>> \in shown'[r]} = Matched(q)'
    <3>1. q \in Requests /\ Stored(q)
      BY <1>0
    <3>2. cited[q] = Matched(q) /\ Matched(q)' = Matched(q)
      BY <2>1, <3>1 DEF EvidenceAt, Matched
    <3>3. \A d \in Docs : <<q, d>> \in shown'[r] <=> d \in cited[q]
      BY <2>1
    <3> QED
      BY <3>2, <3>3 DEF Matched
  <2> QED
    BY <2>1, <2>2, <2>3
<1>7. ASSUME UNCHANGED <<pc, caller, page, shown, resp>>
      PROVE  \A q \in Requests : PageAt(q)'
  BY <1>0, <1>1, <1>7
<1>8. CASE \/ \E d \in Docs : ReplaceChunks(d) \/ EmbedDocument(d)
           \/ \E c \in Conns : UpdateConnection(c) \/ DeleteConnection(c)
  BY <1>0, <1>7, <1>8, ComponentFrame
<1>9. CASE UNCHANGED vars
  BY <1>0, <1>7, <1>9 DEF vars
<1>10. ASSUME NEW r \in Requests, Arrive(r) \/ Serve(r) \/ Abort(r)
       PROVE  PageInv'
  <2>1. PageAt(r)'
    BY <1>3, <1>4, <1>5, <1>6, <1>10
  <2> QED
    BY <1>0, <1>2, <1>10, <2>1
<1> QED
  BY <1>8, <1>9, <1>10, Steps

-----------------------------------------------------------------------------
(* The inductive invariant.                                                *)

ChatInv == TypeOK /\ RequestInv /\ ConversationInv /\ PageInv

\* Before any request there is nothing the invariant could be wrong about.
LEMMA ChatInit == Init => ChatInv
<1> SUFFICES ASSUME Init PROVE ChatInv
  OBVIOUS
<1>1. /\ conns = [c \in Conns |-> "usable"]
      /\ convs = [v \in Convs |-> NoRow] /\ audit = {} /\ ran = {}
  BY DEF Init
<1>2. ASSUME NEW r \in Requests
      PROVE  /\ messages[r] = {} /\ exec[r] = "none" /\ dbcite[r] = "none"
             /\ cited[r] = {} /\ link[r] = NoMatches /\ pc[r] = "idle"
             /\ kind[r] = "none" /\ conv[r] = NoConv /\ copy[r] = NoRow
             /\ matches[r] = NoMatches /\ page[r] = {} /\ resp[r] = 0
  BY DEF Init
<1>3. ASSUME NEW r \in Requests PROVE HandlerAt(r) /\ CopyAt(r)
  BY <1>2 DEF HandlerAt, CopyAt, WorkingLabels, CreateLabels, QueryLabels,
              ListLabels
<1>4. ASSUME NEW r \in Requests PROVE Matched(r) = {}
  BY <1>2 DEF Matched, NoMatches
<1>5. ASSUME NEW r \in Requests PROVE EvidenceAt(r) /\ LinksAt(r)
  BY <1>2 DEF EvidenceAt, LinksAt, Stored, StoredLabels, NoMatches
<1>6. ASSUME NEW r \in Requests PROVE QueryAt(r) /\ AuditAt(r)
  BY <1>1, <1>2 DEF QueryAt, AuditAt
<1>7. ASSUME NEW r \in Requests PROVE TenantAt(r) /\ PageAt(r)
  BY <1>2, <1>4 DEF TenantAt, PageAt, QueryModes
<1>8. ConversationInv
  BY <1>1, <1>2 DEF ConversationInv
<1> QED
  BY <1>3, <1>5, <1>6, <1>7, <1>8, TypeInit DEF ChatInv, RequestInv, PageInv

\* Every step keeps the invariant, part by part.
LEMMA ChatStep == ChatInv /\ [Next]_vars => ChatInv'
<1> SUFFICES ASSUME ChatInv, [Next]_vars PROVE ChatInv'
  OBVIOUS
<1> USE DEF ChatInv, RequestInv
<1>1. TypeOK'
  BY TypeStep
<1>2. \A r \in Requests : HandlerAt(r)' /\ CopyAt(r)'
  BY HandlerStep, CopyStep
<1>3. \A r \in Requests : EvidenceAt(r)' /\ LinksAt(r)'
  BY EvidenceStep
<1>4. \A r \in Requests : QueryAt(r)' /\ AuditAt(r)' /\ TenantAt(r)'
  BY QueryStep, AuditStep, TenantStep
<1>5. ConversationInv' /\ PageInv'
  BY ConversationStep, PageStep
<1> QED
  BY <1>1, <1>2, <1>3, <1>4, <1>5

\* The inductive invariant of the chat endpoints holds in every reachable
\* state: what each handler holds, has stored and has answered at each of its
\* steps, whatever the other requests and components do meanwhile.
THEOREM ChatInvariant == Spec => []ChatInv
BY ChatInit, ChatStep, PTL DEF Spec

\* An exchange is stored with exactly the evidence its answer was built from,
\* in one commit of create_message_exchange and its database and hybrid forms,
\* and a request without an exchange leaves none of it.
THEOREM ExchangesAreWhole == Spec => []ExchangeIsWhole
<1>1. ChatInv => ExchangeIsWhole
  BY DEF ChatInv, RequestInv, EvidenceAt, ExchangeIsWhole
<1> QED
  BY <1>1, ChatInvariant, PTL

\* No link of the evidence dangles: the foreign keys of messages, executions
\* and citations, their cascades and SET NULLs, and the refusal to insert what
\* refers to a deleted row keep every link to a row that exists.
THEOREM EvidenceIsLinked == Spec => []EvidenceNeverDangles
<1>1. ChatInv => EvidenceNeverDangles
  BY DEF ChatInv, RequestInv, LinksAt, ConversationInv, EvidenceNeverDangles
<1> QED
  BY <1>1, ChatInvariant, PTL

\* A query that was refused or failed is on record under the code its client
\* was answered with, and one that the remote database answered for a database
\* conversation is on record as completed, as long as its connection exists
\* and no fault hit its request.
THEOREM QueriesLeaveARecord == Spec => []QueriesAreOnRecord
<1>1. ChatInv => QueriesAreOnRecord
  <2> SUFFICES ASSUME ChatInv, NEW r \in Requests
               PROVE  /\ (resp[r] \in {403, 413, 502, 504} /\ ConnectionAlive(r))
                             => exec[r] \in ErrorCodes
                                    /\ MessageStatus(exec[r]) = resp[r]
                      /\ exec[r] \in ErrorCodes => ~Stored(r)
                      /\ /\ r \in ran \ faulted /\ kind[r] = "database"
                         /\ pc[r] = "done" /\ ConnectionAlive(r)
                         => exec[r] = "completed"
    BY DEF QueriesAreOnRecord
  <2>1. QueryAt(r) /\ EvidenceAt(r)
    BY DEF ChatInv, RequestInv
  <2>2. exec[r] \in ErrorCodes => exec[r] \notin {"none", "completed"}
    BY DEF ErrorCodes
  <2>3. Stored(r) => exec[r] \in {"none", "completed"}
    BY <2>1 DEF EvidenceAt, QueryModes, ConversationMode
  <2> QED
    BY <2>1, <2>2, <2>3 DEF QueryAt
<1> QED
  BY <1>1, ChatInvariant, PTL

\* A hybrid exchange that create_hybrid_message confirms has its audit event,
\* although the event is recorded in a later transaction than the exchange.
THEOREM HybridExchangesAreAudited == Spec => []HybridExchangeIsAudited
<1>1. ChatInv => HybridExchangeIsAudited
  BY DEF ChatInv, RequestInv, TypeOK, AuditAt, HybridExchangeIsAudited
<1> QED
  BY <1>1, ChatInvariant, PTL

\* A conversation is its user's alone: only that user's exchanges are stored
\* in it, with evidence of that user's tenant, and only that user's listings
\* hold them.
THEOREM ConversationsArePrivate == Spec => []ConversationIsPrivate
<1>1. ChatInv => ConversationIsPrivate
  <2> SUFFICES ASSUME ChatInv, NEW r \in Requests
               PROVE  /\ Stored(r) =>
                             /\ convs[conv[r]] # NoRow
                             /\ convs[conv[r]].user = caller[r]
                             /\ \A d \in cited[r] :
                                    KBTenant[DocKB[d]] = TenantOf[caller[r]]
                             /\ kind[r] \in QueryModes =>
                                    ConnTenant[copy[r].conn] = TenantOf[caller[r]]
                      /\ \A q \in page[r] : caller[q] = caller[r]
    BY DEF ConversationIsPrivate
  <2>1. EvidenceAt(r) /\ TenantAt(r) /\ PageAt(r)
    BY DEF ChatInv, RequestInv, PageInv
  <2>2. Stored(r) => /\ kind[r] \in ConversationMode /\ copy[r] # NoRow
                     /\ cited[r] = Matched(r)
    BY <2>1 DEF EvidenceAt
  <2>3. Stored(r) => convs[conv[r]] # NoRow /\ convs[conv[r]].user = caller[r]
    BY <2>2 DEF ChatInv, ConversationInv
  <2> QED
    BY <2>1, <2>2, <2>3 DEF TenantAt, PageAt
<1> QED
  BY <1>1, ChatInvariant, PTL

\* A listing shows every citation of each answer on its page: what
\* get_conversation_messages reads in two statements is as good as one.
THEOREM ListingsAreComplete == Spec => []ListedAnswersAreCited
<1>1. ChatInv => ListedAnswersAreCited
  BY DEF ChatInv, PageInv, PageAt, ListedAnswersAreCited
<1> QED
  BY <1>1, ChatInvariant, PTL

-----------------------------------------------------------------------------
(* The promise of the endpoints, ExchangeLedger.                           *)

outcomes == [r \in Requests |-> Outcome(r)]

\* Every step of the endpoints is one of the ledger, or leaves it as it is.
LEMMA LedgerStep ==
    ASSUME ChatInv, [Next]_vars
    PROVE  [Ledger!Next]_<<messages, outcomes>>
<1>1. ASSUME NEW r \in Requests, OthersUnchanged(r)
      PROVE  /\ outcomes \in [Requests -> {"pending", "created", "refused",
                                           "unknown"}]
             /\ outcomes' = [outcomes EXCEPT ![r] = Outcome(r)']
             /\ outcomes[r] = Outcome(r)
  <2>1. \A q \in Requests \ {r} : Outcome(q)' = Outcome(q)
    BY <1>1 DEF OthersUnchanged, Outcome
  <2>2. \A q \in Requests : Outcome(q) \in {"pending", "created", "refused",
                                            "unknown"}
    BY DEF Outcome
  <2> QED
    BY <2>1, <2>2 DEF outcomes
<1>2. ASSUME NEW r \in Requests, OthersUnchanged(r), UNCHANGED messages,
             Outcome(r)' = Outcome(r)
      PROVE  UNCHANGED <<messages, outcomes>>
  BY <1>1, <1>2
<1>3. ASSUME NEW r \in Requests, OthersUnchanged(r), UNCHANGED messages,
             Outcome(r) = "pending",
             \/ Outcome(r)' = "unknown"
             \/ Outcome(r)' = "refused" /\ messages[r] = {}
             \/ Outcome(r)' = "created" /\ messages[r] = Roles
      PROVE  Ledger!Next
  <2>1. /\ outcomes[r] = "pending" /\ outcomes' = [outcomes EXCEPT ![r] = Outcome(r)']
    BY <1>1, <1>3
  <2>2. Ledger!Lose(r) \/ Ledger!Refuse(r) \/ Ledger!Confirm(r)
    BY <1>3, <2>1 DEF Ledger!Lose, Ledger!Refuse, Ledger!Confirm, Ledger!Tell,
                      outcomes
  <2> QED
    BY <2>2 DEF Ledger!Next
<1>4. ASSUME NEW r \in Requests, Arrive(r)
      PROVE  [Ledger!Next]_<<messages, outcomes>>
  <2>1. /\ pc[r] = "idle" /\ (Begins(r) \/ Refused(r)) /\ OthersUnchanged(r)
    BY <1>4, Arrivals, RequestFrame DEF ChatInv
  <2>2. Outcome(r) = "pending" /\ messages[r] = {}
    BY <2>1 DEF Outcome, ChatInv, RequestInv, EvidenceAt, UnstoredLabels
  <2>3. CASE Begins(r)
    <3>1. UNCHANGED messages /\ pc'[r] # "done"
      BY <2>3 DEF Begins, Begin, Goto, ChatInv, TypeOK
    <3>2. Outcome(r)' = "pending"
      BY <3>1 DEF Outcome
    <3> QED
      BY <1>2, <2>1, <2>2, <3>1, <3>2
  <2>4. CASE Refused(r)
    <3>1. PICK k \in ConversationMode \cup {"create", "list"},
               status \in {404, 409, 422, 500} :
              /\ k \in ConversationMode => status # 500
              /\ Refuse(r, k, status)
      BY <2>4 DEF Refused
    <3>2. /\ UNCHANGED messages /\ pc'[r] = "done" /\ kind'[r] = k
          /\ resp'[r] = status
      BY <3>1 DEF Refuse, Answer, Goto, ChatInv, TypeOK
    <3>3. Outcome(r)' = IF k \in ConversationMode THEN "refused" ELSE "pending"
      BY <3>1, <3>2 DEF Outcome
    <3> QED
      BY <1>2, <1>3, <2>1, <2>2, <3>2, <3>3
  <2> QED
    BY <2>1, <2>3, <2>4
<1>5. ASSUME NEW r \in Requests, Serve(r) \/ Abort(r)
      PROVE  [Ledger!Next]_<<messages, outcomes>>
  <2>1. /\ OthersUnchanged(r) /\ UNCHANGED kind /\ pc[r] \in WorkingLabels
    BY <1>5, ServeMoves, RequestFrame DEF ChatInv
  <2>2. HandlerAt(r) /\ EvidenceAt(r)
    BY DEF ChatInv, RequestInv
  <2>3. Outcome(r) = "pending"
    BY <2>1 DEF Outcome, WorkingLabels
  <2>4. CASE resp' = resp /\ pc'[r] \in WorkingLabels
    <3>1. Outcome(r)' = "pending"
      BY <2>4 DEF Outcome, WorkingLabels
    <3>2. CASE UNCHANGED messages
      BY <1>2, <2>1, <2>3, <3>1, <3>2
    <3>3. CASE SaveExchange(r)
      <4>1. /\ pc[r] = "saveExchange"
            /\ messages' = [messages EXCEPT ![r] = Roles]
        BY <3>3 DEF SaveExchange
      <4>2. messages[r] = {}
        BY <2>2, <4>1 DEF EvidenceAt, UnstoredLabels
      <4>3. outcomes[r] = "pending" /\ outcomes' = outcomes
        BY <1>1, <2>1, <2>3, <3>1
      <4>4. Ledger!Record(r)
        BY <4>1, <4>2, <4>3 DEF Ledger!Record, outcomes
      <4> QED
        BY <4>4 DEF Ledger!Next
    <3> QED
      BY <1>5, <3>2, <3>3, ServeWrites
  <2>5. CASE Answered(r)
    <3>1. UNCHANGED messages
      <4>1. SaveExchange(r) => pc'[r] = "refreshExchange"
        BY DEF SaveExchange, Goto, ChatInv, TypeOK
      <4> QED
        BY <1>5, <2>5, <4>1, ServeWrites DEF Answered
    <3>2. CASE kind[r] \notin ConversationMode
      <4>1. Outcome(r)' = "pending"
        BY <2>1, <3>2 DEF Outcome
      <4> QED
        BY <1>2, <2>1, <2>3, <3>1, <4>1
    <3>3. CASE kind[r] \in ConversationMode
      <4>1. Outcome(r)' = IF resp'[r] = 201 THEN "created"
                          ELSE IF resp'[r] = 500 THEN "unknown" ELSE "refused"
        BY <2>1, <2>5, <3>3 DEF Answered, Outcome
      <4>2. pc[r] \notin CreateLabels \cup ListLabels
        BY <2>2, <3>3 DEF HandlerAt, ConversationMode
      <4>3. resp'[r] = 201 => messages[r] = Roles
        <5>1. resp'[r] = 201 => pc[r] \in StoredLabels
          BY <2>5, <4>2 DEF Answered, StoredLabels, CreateLabels
        <5> QED
          BY <2>2, <5>1 DEF EvidenceAt, Stored
      <4>4. resp'[r] \notin {201, 500} => messages[r] = {}
        <5>1. resp'[r] \notin {201, 500} => pc[r] \in {"retrieve", "saveFailed"}
          BY <2>5, <4>2 DEF Answered, ListLabels, ListCitations
        <5> QED
          BY <2>2, <5>1 DEF EvidenceAt, UnstoredLabels, QueryLabels
      <4> QED
        BY <1>3, <2>1, <2>3, <3>1, <4>1, <4>3, <4>4
    <3> QED
      BY <3>2, <3>3
  <2> QED
    BY <1>5, <2>2, <2>4, <2>5, ServeAnswers DEF ChatInv
<1>6. CASE \/ \E d \in Docs : ReplaceChunks(d) \/ EmbedDocument(d)
           \/ \E c \in Conns : UpdateConnection(c) \/ DeleteConnection(c)
  <2>1. UNCHANGED <<messages, kind, pc, resp>>
    BY <1>6, ComponentFrame
  <2> QED
    BY <2>1 DEF outcomes, Outcome
<1>7. CASE UNCHANGED vars
  BY <1>7 DEF vars, outcomes, Outcome
<1> QED
  BY <1>4, <1>5, <1>6, <1>7, Steps

\* The three message endpoints keep the promise of ExchangeLedger: every step
\* of the system records, confirms, refuses or loses sight of one exchange as
\* the ledger allows, or leaves the ledger as it is.
THEOREM EndpointsKeepTheLedger == Spec => ImplementsLedger
<1>1. Init => Ledger!Init
  BY DEF Init, Ledger!Init, Outcome
<1>2. ChatInv /\ [Next]_vars => [Ledger!Next]_<<messages, outcomes>>
  BY LedgerStep
<1> QED
  BY <1>1, <1>2, ChatInvariant, PTL DEF Spec, ImplementsLedger, Ledger!Spec, outcomes
=============================================================================
